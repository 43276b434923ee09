------------------------- MODULE SqlThreadingProofs -------------------------
(***************************************************************************)
(* For all queries and any number of MysqlThread objects, threaded queries *)
(* keep their promise to the plugins: an object is in one place at a time, *)
(* a handler is given the result of its own query, and each query is       *)
(* answered once and before the plugins are unloaded.                      *)
(***************************************************************************)
EXTENDS SqlThreading, TLAPS

(* The objects whose queries have not been answered.                       *)
Held == Entries(queue) \cup Entries(results) \cup The(running)

(* What the place of the game thread says of the worker and the results.   *)
PlaceFits ==
  /\ place \in {"unloaded", "drain"} => mode = "closed"
  /\ place \in {"idle", "frame"} => mode = "open"
  /\ place = "stopping" => mode = "depleting"
  /\ mode = "closed" => queue = <<>> /\ running = NoJob
  /\ place \in {"unloaded", "idle", "stopping"} => current = NoJob
  /\ place = "unloaded" => results = <<>>

(* OnePlace without its last part, in a form that the steps change little. *)
Apart ==
  /\ made = Busy \cup Entries(free)
  /\ Once(queue) /\ Once(results) /\ Once(free)
  /\ Entries(queue) \cap Entries(results) = {}
  /\ Entries(free) \cap Busy = {}
  /\ running # NoJob => running \notin Entries(queue) \cup Entries(results)
  /\ current # NoJob => current \notin Entries(queue) \cup Entries(results)
  /\ running # NoJob => running # current

OwnQueries == \A i, k \in Busy : i # k => job[i].query # job[k].query

(* The objects that are busy hold queries that were asked, and those that  *)
(* the worker has done with hold their results.                            *)
Filling ==
  /\ \A j \in Busy : job[j].query \in Query /\ asked[job[j].query] # "no"
  /\ \A j \in Entries(results) : job[j].result = job[j].query

(* Queries are answered or held, and never both.                           *)
Answered ==
  /\ \A q \in Entries(answers) : q \in Query /\ asked[q] # "no"
  /\ \A j \in Held : job[j].query \notin Entries(answers)
  /\ \A q \in Query : asked[q] # "no" =>
       q \in Entries(answers) \/ \E j \in Held : job[j].query = q

IInv ==
  /\ TypeOK /\ PlaceFits
  /\ Apart /\ OwnQueries /\ Filling
  /\ OwnResult /\ Answered

(* A step in which nothing changes.                                        *)
Same ==
  /\ place' = place /\ queue' = queue /\ running' = running /\ mode' = mode
  /\ results' = results /\ free' = free /\ current' = current /\ made' = made
  /\ job' = job /\ asked' = asked /\ received' = received

LEMMA NextOrSame ==
  ASSUME [Next]_vars
  PROVE  Next \/ Same
  BY DEF vars, worker, Same

-----------------------------------------------------------------------------
(* Sequences without repetitions.                                          *)

LEMMA NoneEntered == Entries(<<>>) = {} /\ Once(<<>>)
  BY DEF Entries, Once

LEMMA AppendEntered ==
  ASSUME NEW S, NEW s \in Seq(S), NEW x \in S
  PROVE  /\ Append(s, x) \in Seq(S)
         /\ Entries(Append(s, x)) = Entries(s) \cup {x}
         /\ Once(s) /\ x \notin Entries(s) => Once(Append(s, x))
<1>1. /\ Append(s, x) \in Seq(S)
      /\ Len(Append(s, x)) = Len(s) + 1
      /\ Append(s, x)[Len(s) + 1] = x
      /\ \A i \in 1 .. Len(s) : Append(s, x)[i] = s[i]
      /\ Len(s) \in Nat
  OBVIOUS
<1>2. 1 .. Len(s) + 1 = 1 .. Len(s) \cup {Len(s) + 1}
  BY <1>1
<1>3. Entries(Append(s, x)) = Entries(s) \cup {x}
  BY <1>1, <1>2 DEF Entries
<1>4. ASSUME Once(s), x \notin Entries(s) PROVE Once(Append(s, x))
  <2>1. \A i \in 1 .. Len(s) : s[i] # x
    BY <1>4 DEF Entries
  <2> QED
    BY <1>1, <1>2, <1>4, <2>1 DEF Once
<1> QED
  BY <1>1, <1>3, <1>4

LEMMA PushEntered ==
  ASSUME NEW S, NEW s \in Seq(S), NEW x \in S
  PROVE  /\ <<x>> \o s \in Seq(S)
         /\ Entries(<<x>> \o s) = Entries(s) \cup {x}
         /\ Once(s) /\ x \notin Entries(s) => Once(<<x>> \o s)
<1> DEFINE t == <<x>> \o s
<1>1. /\ t \in Seq(S)
      /\ Len(t) = Len(s) + 1
      /\ t[1] = x
      /\ \A i \in 2 .. Len(s) + 1 : t[i] = s[i - 1]
      /\ \A i \in 1 .. Len(s) : s[i] = t[i + 1]
      /\ Len(s) \in Nat
  OBVIOUS
<1> HIDE DEF t
<1>2. \A i \in 1 .. Len(t) : i = 1 \/ (i \in 2 .. Len(s) + 1 /\ i - 1 \in 1 .. Len(s))
  BY <1>1
<1>3. Entries(t) = Entries(s) \cup {x}
  <2>1. ASSUME NEW y \in Entries(t) PROVE y \in Entries(s) \cup {x}
    <3>1. PICK i \in 1 .. Len(t) : y = t[i]
      BY DEF Entries
    <3> QED
      BY <1>1, <1>2, <3>1 DEF Entries
  <2>2. x \in Entries(t)
    BY <1>1 DEF Entries
  <2>3. ASSUME NEW y \in Entries(s) PROVE y \in Entries(t)
    <3>1. PICK i \in 1 .. Len(s) : y = s[i]
      BY DEF Entries
    <3>2. i + 1 \in 1 .. Len(t) /\ t[i + 1] = y
      BY <1>1, <3>1
    <3> QED
      BY <3>2 DEF Entries
  <2> QED
    BY <2>1, <2>2, <2>3
<1>4. ASSUME Once(s), x \notin Entries(s) PROVE Once(t)
  <2>1. \A i \in 1 .. Len(s) : s[i] # x
    BY <1>4 DEF Entries
  <2>2. ASSUME NEW i \in 1 .. Len(t), NEW k \in 1 .. Len(t), i # k
        PROVE  t[i] # t[k]
    <3>1. CASE i = 1
      BY <1>1, <1>2, <2>1, <2>2, <3>1
    <3>2. CASE k = 1
      BY <1>1, <1>2, <2>1, <2>2, <3>2
    <3>3. CASE i # 1 /\ k # 1
      <4>1. i - 1 \in 1 .. Len(s) /\ k - 1 \in 1 .. Len(s) /\ i - 1 # k - 1
        BY <1>2, <2>2, <3>3
      <4>2. t[i] = s[i - 1] /\ t[k] = s[k - 1]
        BY <1>1, <1>2, <3>3
      <4> QED
        BY <1>4, <4>1, <4>2 DEF Once
    <3> QED
      BY <3>1, <3>2, <3>3
  <2> QED
    BY <2>2 DEF Once
<1> QED
  BY <1>1, <1>3, <1>4 DEF t

LEMMA PopEntered ==
  ASSUME NEW S, NEW s \in Seq(S), s # <<>>
  PROVE  /\ Head(s) \in S /\ Head(s) \in Entries(s)
         /\ Tail(s) \in Seq(S)
         /\ Once(s) => /\ Once(Tail(s))
                       /\ Entries(Tail(s)) = Entries(s) \ {Head(s)}
<1> DEFINE t == Tail(s)
           x == Head(s)
<1>1. /\ Len(s) \in Nat \ {0} /\ x = s[1] /\ x \in S
      /\ t \in Seq(S)
      /\ Len(t) = Len(s) - 1
      /\ \A i \in 1 .. Len(t) : t[i] = s[i + 1]
      /\ \A i \in 2 .. Len(s) : s[i] = t[i - 1]
  OBVIOUS
<1> HIDE DEF t, x
<1>2. x \in Entries(s)
  BY <1>1 DEF Entries
<1>3. ASSUME Once(s) PROVE Once(t)
  <2>1. ASSUME NEW i \in 1 .. Len(t), NEW k \in 1 .. Len(t), i # k
        PROVE  t[i] # t[k]
    <3>1. i + 1 \in 1 .. Len(s) /\ k + 1 \in 1 .. Len(s) /\ i + 1 # k + 1
      BY <1>1, <2>1
    <3>2. t[i] = s[i + 1] /\ t[k] = s[k + 1]
      BY <1>1
    <3> QED
      BY <1>3, <3>1, <3>2 DEF Once
  <2> QED
    BY <2>1 DEF Once
<1>4. ASSUME Once(s) PROVE Entries(t) = Entries(s) \ {x}
  <2>1. ASSUME NEW y \in Entries(t) PROVE y \in Entries(s) /\ y # x
    <3>1. PICK i \in 1 .. Len(t) : y = t[i]
      BY DEF Entries
    <3>2. i + 1 \in 1 .. Len(s) /\ i + 1 # 1 /\ 1 \in 1 .. Len(s) /\ y = s[i + 1]
      BY <1>1, <3>1
    <3> QED
      BY <1>1, <1>4, <3>2 DEF Entries, Once
  <2>2. ASSUME NEW y \in Entries(s), y # x PROVE y \in Entries(t)
    <3>1. PICK i \in 1 .. Len(s) : y = s[i]
      BY DEF Entries
    <3>2. i \in 2 .. Len(s) /\ i - 1 \in 1 .. Len(t)
      BY <1>1, <2>2, <3>1
    <3>3. y = t[i - 1]
      BY <1>1, <3>1, <3>2
    <3> QED
      BY <3>2, <3>3 DEF Entries
  <2> QED
    BY <2>1, <2>2
<1> QED
  BY <1>1, <1>2, <1>3, <1>4 DEF t, x

LEMMA SeqGrows ==
  ASSUME NEW S, NEW T, S \subseteq T, NEW s \in Seq(S)
  PROVE  s \in Seq(T)
<1>1. Len(s) \in Nat /\ s \in [1 .. Len(s) -> S]
  OBVIOUS
<1>2. s \in [1 .. Len(s) -> T]
  BY <1>1
<1> QED
  BY <1>1, <1>2

LEMMA EntriesIn ==
  ASSUME NEW S, NEW s \in Seq(S)
  PROVE  Entries(s) \subseteq S
  BY DEF Entries

LEMMA ThreadTypes ==
  ASSUME NEW t \in MysqlThread, NEW q \in Query, NEW d \in {"none", "array"}
  PROVE  /\ t.query \in Query \cup {NoQuery}
         /\ Filled(t, q, d) \in MysqlThread
         /\ Filled(t, q, d).query = q /\ Filled(t, q, d).result = t.result
         /\ [t EXCEPT !.result = t.query] \in MysqlThread
         /\ [t EXCEPT !.result = NoQuery] \in MysqlThread
         /\ NewThread \in MysqlThread
  BY DEF MysqlThread, Filled, NewThread

(* The answers grow with what the handlers receive.                        *)
LEMMA AnswersGrow ==
  ASSUME NEW t \in MysqlThread, received \in Seq(MysqlThread)
  PROVE  /\ answers \in Seq(Query \cup {NoQuery})
         /\ received' = Append(received, t) => answers' = Append(answers, t.query)
<1>1. /\ Len(received) \in Nat
      /\ Len(Append(received, t)) = Len(received) + 1
      /\ \A i \in 1 .. Len(received) :
           /\ received[i] \in MysqlThread
           /\ Append(received, t)[i] = received[i]
      /\ Append(received, t)[Len(received) + 1] = t
  OBVIOUS
<1>2. \A u \in MysqlThread : u.query \in Query \cup {NoQuery}
  BY DEF MysqlThread
<1>3. answers \in Seq(Query \cup {NoQuery}) /\ Len(answers) = Len(received)
  BY <1>1, <1>2 DEF answers
<1>4. ASSUME received' = Append(received, t)
      PROVE  answers' = Append(answers, t.query)
  <2>1. answers' = [i \in 1 .. Len(received) + 1 |-> Append(received, t)[i].query]
    BY <1>1, <1>4 DEF answers
  <2>2. Append(answers, t.query) =
          [i \in 1 .. Len(received) + 1 |->
             IF i = Len(received) + 1 THEN t.query ELSE answers[i]]
    BY <1>3
  <2>3. \A i \in 1 .. Len(received) + 1 :
          Append(received, t)[i].query =
            IF i = Len(received) + 1 THEN t.query ELSE answers[i]
    BY <1>1 DEF answers
  <2> QED
    BY <2>1, <2>2, <2>3
<1> QED
  BY <1>3, <1>4

-----------------------------------------------------------------------------
(* Each action keeps the invariant. *)

LEMMA Begins == Init => IInv
<1> SUFFICES ASSUME Init PROVE IInv
  OBVIOUS
<1> USE DEF Init, Worker!Init
<1>1. Entries(queue) = {} /\ Entries(results) = {} /\ Entries(free) = {}
      /\ The(running) = {} /\ The(current) = {}
  BY NoneEntered DEF The
<1>2. answers = <<>> /\ Entries(answers) = {}
  BY NoneEntered DEF answers
<1>3. TypeOK
  <2>1. NewThread \in MysqlThread
    BY DEF NewThread, MysqlThread
  <2> QED
    BY <2>1 DEF TypeOK, Places
<1>4. PlaceFits
  BY DEF PlaceFits
<1>5. Apart /\ OwnQueries /\ Filling
  BY <1>1, NoneEntered DEF Apart, OwnQueries, Filling, Busy
<1>6. OwnResult
  BY DEF OwnResult
<1>7. Answered
  BY <1>1, <1>2 DEF Answered, Held
<1> QED
  BY <1>3, <1>4, <1>5, <1>6, <1>7 DEF IInv

(* The steps that move no object.                                          *)
LEMMA Moves ==
  ASSUME IInv,
         UNCHANGED <<queue, running, results, free, current, made, job, asked, received>>
  PROVE  (Apart /\ OwnQueries /\ Filling /\ OwnResult /\ Answered)'
<1>1. /\ Entries(queue)' = Entries(queue) /\ Entries(results)' = Entries(results)
      /\ Entries(free)' = Entries(free)
      /\ The(running)' = The(running) /\ The(current)' = The(current)
      /\ Once(queue)' = Once(queue) /\ Once(results)' = Once(results)
      /\ Once(free)' = Once(free)
  BY DEF Entries, The, Once
<1>2. Busy' = Busy /\ Held' = Held
  BY <1>1 DEF Busy, Held
<1>3. answers' = answers
  BY DEF answers
<1>4. Entries(answers)' = Entries(answers)
  BY <1>3 DEF Entries
<1>5. Apart'
  BY <1>1, <1>2 DEF IInv, Apart
<1>6. OwnQueries' /\ Filling'
  BY <1>1, <1>2 DEF IInv, OwnQueries, Filling
<1>7. OwnResult'
  BY DEF IInv, OwnResult
<1>8. Answered'
  BY <1>2, <1>4 DEF IInv, Answered
<1> QED
  BY <1>5, <1>6, <1>7, <1>8

LEMMA PlaceMoves ==
  ASSUME IInv,
         \/ OnPluginsLoaded \/ StartFrame \/ FrameDone
         \/ OnPluginsUnloading \/ Stopped \/ DrainDone \/ Same
  PROVE  IInv'
<1> USE DEF OnPluginsLoaded, StartFrame, FrameDone, OnPluginsUnloading,
            Stopped, DrainDone, Same, worker,
            Worker!Start, Worker!Stop, Worker!Depleted
<1>1. UNCHANGED <<queue, running, results, free, current, made, job, asked, received>>
  OBVIOUS
<1>2. TypeOK'
  BY <1>1 DEF IInv, TypeOK, Places
<1>3. PlaceFits'
  BY <1>1 DEF IInv, PlaceFits
<1> QED
  BY <1>1, <1>2, <1>3, Moves DEF IInv

LEMMA ShutdownKeeps ==
  ASSUME IInv, ShutdownThreading
  PROVE  IInv'
<1> USE DEF ShutdownThreading, IInv, worker
<1>1. /\ queue = <<>> /\ running = NoJob /\ current = NoJob /\ results = <<>>
      /\ queue' = <<>> /\ running' = NoJob /\ current' = NoJob
      /\ results' = <<>> /\ free' = <<>> /\ made' = {}
      /\ asked' = asked /\ received' = received
  BY DEF PlaceFits
<1>2. TypeOK'
  <2>1. NewThread \in MysqlThread
    BY DEF NewThread, MysqlThread
  <2> QED
    BY <1>1, <2>1 DEF TypeOK
<1>3. PlaceFits'
  BY <1>1 DEF PlaceFits
<1>4. Held' = {} /\ Held = {} /\ Busy' = {} /\ Entries(results)' = {} /\ Entries(free)' = {}
      /\ Entries(queue)' = {}
  BY <1>1, NoneEntered DEF Held, Busy, The
<1>5. Apart' /\ OwnQueries' /\ Filling'
  BY <1>1, <1>4, NoneEntered DEF Apart, OwnQueries, Filling
<1>6. OwnResult'
  BY <1>1 DEF OwnResult
<1>7. answers' = answers
  BY <1>1 DEF answers
<1>8. Entries(answers)' = Entries(answers)
  BY <1>7 DEF Entries
<1>9. Answered'
  BY <1>1, <1>4, <1>8 DEF Answered
<1> QED
  BY <1>2, <1>3, <1>5, <1>6, <1>9

LEMMA BeginKeeps ==
  ASSUME IInv, Begin
  PROVE  IInv'
<1> USE DEF IInv
<1>1. /\ running = NoJob /\ queue # <<>> /\ mode # "closed"
      /\ running' = Head(queue) /\ queue' = Tail(queue)
      /\ place' = place /\ mode' = mode /\ results' = results /\ free' = free
      /\ current' = current /\ made' = made /\ job' = job /\ asked' = asked
      /\ received' = received
  BY DEF Begin, Worker!Begin
<1>2. /\ Head(queue) \in made /\ Head(queue) \in Entries(queue)
      /\ Tail(queue) \in Seq(made) /\ Once(Tail(queue))
      /\ Entries(Tail(queue)) = Entries(queue) \ {Head(queue)}
  BY <1>1, PopEntered DEF TypeOK, Apart
<1>3. Head(queue) # NoJob
  BY <1>2, SqlAssumption DEF TypeOK
<1>4. TypeOK'
  BY <1>1, <1>2 DEF TypeOK
<1>5. PlaceFits'
  BY <1>1 DEF PlaceFits
<1>6. /\ Entries(queue)' = Entries(queue) \ {running'}
      /\ Entries(results)' = Entries(results) /\ Entries(free)' = Entries(free)
      /\ The(running)' = {running'} /\ The(running) = {}
      /\ The(current)' = The(current) /\ The(current) \subseteq {current}
      /\ running' \in Entries(queue)
  BY <1>1, <1>2, <1>3 DEF The, Entries
<1>7. Busy' = Busy /\ Held' = Held
  BY <1>6 DEF Busy, Held
<1>8. Apart'
  <2>1. Once(queue)' /\ Once(results)' /\ Once(free)'
    BY <1>1, <1>2 DEF Apart, Once
  <2> QED
    BY <1>1, <1>6, <1>7, <2>1 DEF Apart
<1>9. OwnQueries' /\ Filling'
  BY <1>1, <1>6, <1>7 DEF OwnQueries, Filling
<1>10. OwnResult'
  BY <1>1 DEF OwnResult
<1>11. Entries(answers)' = Entries(answers)
  BY <1>1 DEF Entries, answers
<1>12. Answered'
  BY <1>1, <1>7, <1>11 DEF Answered
<1> QED
  BY <1>4, <1>5, <1>8, <1>9, <1>10, <1>12

LEMMA FinishKeeps ==
  ASSUME IInv, Finish
  PROVE  IInv'
<1> USE DEF IInv
<1>1. /\ running # NoJob /\ running' = NoJob
      /\ job' = [job EXCEPT ![running].result = job[running].query]
      /\ results' = <<running>> \o results
      /\ queue' = queue /\ place' = place /\ mode' = mode /\ free' = free
      /\ current' = current /\ made' = made /\ asked' = asked
      /\ received' = received
  BY DEF Finish, Worker!Finish
<1>2. running \in made /\ running \in Job
  BY <1>1 DEF TypeOK
<1>3. /\ running \notin Entries(queue) /\ running \notin Entries(results)
      /\ running # current
  BY <1>1 DEF Apart
<1>4. /\ <<running>> \o results \in Seq(made)
      /\ Entries(<<running>> \o results) = Entries(results) \cup {running}
      /\ Once(<<running>> \o results)
  BY <1>2, <1>3, PushEntered DEF TypeOK, Apart
<1>5. /\ job' \in [Job -> MysqlThread]
      /\ \A j \in Job : job'[j].query = job[j].query
      /\ job'[running].result = job[running].query
      /\ \A j \in Job : j # running => job'[j] = job[j]
  <2>1. [job[running] EXCEPT !.result = job[running].query] \in MysqlThread
    BY <1>2, ThreadTypes DEF TypeOK, MysqlThread
  <2>2. job' = [job EXCEPT ![running] = [job[running] EXCEPT !.result = job[running].query]]
    BY <1>1
  <2> QED
    BY <1>2, <2>1, <2>2 DEF TypeOK, MysqlThread
<1>6. TypeOK'
  BY <1>1, <1>4, <1>5 DEF TypeOK
<1>7. PlaceFits'
  BY <1>1 DEF PlaceFits
<1>8. /\ Entries(queue)' = Entries(queue)
      /\ Entries(results)' = Entries(results) \cup {running}
      /\ Entries(free)' = Entries(free)
      /\ The(running) = {running} /\ The(running)' = {}
      /\ The(current)' = The(current) /\ The(current) \subseteq {current}
  <2>1. Entries(results)' = Entries(<<running>> \o results)
    BY <1>1 DEF Entries
  <2>2. Entries(queue)' = Entries(queue) /\ Entries(free)' = Entries(free)
    BY <1>1 DEF Entries
  <2> QED
    BY <1>1, <1>4, <2>1, <2>2 DEF The
<1>9. Busy' = Busy /\ Held' = Held /\ Held \subseteq Busy
  BY <1>8 DEF Busy, Held
<1>10. Busy \subseteq Job /\ Entries(results) \subseteq Busy
  BY DEF Apart, TypeOK, Busy
<1>11. Apart'
  <2>1. Once(queue)' /\ Once(results)' /\ Once(free)'
    BY <1>1, <1>4 DEF Apart, Once
  <2> QED
    BY <1>1, <1>3, <1>8, <1>9, <2>1 DEF Apart, Busy
<1>12. OwnQueries'
  BY <1>5, <1>9, <1>10 DEF OwnQueries
<1>13. Filling'
  BY <1>1, <1>5, <1>8, <1>9, <1>10 DEF Filling
<1>14. OwnResult'
  BY <1>1 DEF OwnResult
<1>15. Entries(answers)' = Entries(answers)
  BY <1>1 DEF Entries, answers
<1>16. Answered'
  BY <1>1, <1>5, <1>9, <1>10, <1>15 DEF Answered
<1> QED
  BY <1>6, <1>7, <1>11, <1>12, <1>13, <1>14, <1>16

LEMMA ExecuteKeeps ==
  ASSUME IInv, Execute
  PROVE  IInv'
<1> DEFINE j == Head(results)
<1> USE DEF IInv
<1>1. /\ place \in {"frame", "drain"}
      /\ current = NoJob /\ results # <<>> /\ current' = j
      /\ results' = Tail(results) /\ received' = Append(received, job[j])
      /\ queue' = queue /\ running' = running /\ place' = place /\ mode' = mode
      /\ free' = free /\ made' = made /\ job' = job /\ asked' = asked
  BY DEF Execute, worker
<1>2. /\ j \in made /\ j \in Entries(results)
      /\ Tail(results) \in Seq(made) /\ Once(Tail(results))
      /\ Entries(Tail(results)) = Entries(results) \ {j}
  BY <1>1, PopEntered DEF TypeOK, Apart
<1> HIDE DEF j
<1>3. j # NoJob /\ j \in Job /\ job[j] \in MysqlThread
  BY <1>2, SqlAssumption DEF TypeOK
<1>4. Append(received, job[j]) \in Seq(MysqlThread)
  BY <1>3 DEF TypeOK
<1>5. TypeOK'
  BY <1>1, <1>2, <1>4 DEF TypeOK
<1>6. PlaceFits'
  BY <1>1 DEF PlaceFits
<1>7. /\ Entries(queue)' = Entries(queue)
      /\ Entries(results)' = Entries(results) \ {j}
      /\ Entries(free)' = Entries(free)
      /\ The(running)' = The(running) /\ The(running) \subseteq {running}
      /\ The(running) = IF running = NoJob THEN {} ELSE {running}
      /\ The(current) = {} /\ The(current)' = {j}
  BY <1>1, <1>2, <1>3 DEF The, Entries
<1>8. j \notin Entries(queue) /\ j # running
  BY <1>2, <1>3 DEF Apart
<1>9. /\ Busy' = Busy /\ Held' = Held \ {j}
      /\ j \in Busy /\ j \in Held /\ Held \subseteq Busy
  BY <1>2, <1>7, <1>8 DEF Busy, Held
<1>10. Apart'
  <2>1. Once(queue)' /\ Once(results)' /\ Once(free)'
    BY <1>1, <1>2 DEF Apart, Once
  <2> QED
    BY <1>1, <1>7, <1>8, <1>9, <2>1 DEF Apart
<1>11. OwnQueries' /\ Filling'
  BY <1>1, <1>7, <1>9 DEF OwnQueries, Filling
<1>12. OwnResult'
  <2>1. job[j].result = job[j].query
    BY <1>2 DEF Filling
  <2>2. ASSUME NEW i \in 1 .. Len(received')
        PROVE  received'[i].result = received'[i].query
    <3>1. i \in 1 .. Len(received) \/ i = Len(received) + 1
      BY <1>1 DEF TypeOK
    <3>2. CASE i \in 1 .. Len(received)
      BY <1>1, <3>2 DEF OwnResult, TypeOK
    <3>3. CASE i = Len(received) + 1
      BY <1>1, <2>1, <3>3 DEF TypeOK
    <3> QED
      BY <3>1, <3>2, <3>3
  <2> QED
    BY <2>2 DEF OwnResult
<1>13. Entries(answers)' = Entries(answers) \cup {job[j].query}
  <2>1. answers \in Seq(Query \cup {NoQuery}) /\ answers' = Append(answers, job[j].query)
    BY <1>1, <1>3, AnswersGrow DEF TypeOK
  <2>2. Entries(answers)' = Entries(answers')
    BY DEF Entries
  <2>3. job[j].query \in Query \cup {NoQuery}
    BY <1>3 DEF MysqlThread
  <2> QED
    BY <2>1, <2>2, <2>3, AppendEntered
<1>14. Answered'
  BY <1>1, <1>9, <1>13 DEF Answered, OwnQueries, Filling
<1> QED
  BY <1>5, <1>6, <1>10, <1>11, <1>12, <1>14

LEMMA ExecutedKeeps ==
  ASSUME IInv, Executed
  PROVE  IInv'
<1> USE DEF IInv
<1>1. /\ current # NoJob /\ current' = NoJob
      /\ job' = [job EXCEPT ![current].result = NoQuery]
      /\ free' = <<current>> \o free
      /\ queue' = queue /\ running' = running /\ place' = place /\ mode' = mode
      /\ results' = results /\ made' = made /\ asked' = asked
      /\ received' = received
  BY DEF Executed, worker
<1>2. current \in made /\ current \in Job
  BY <1>1 DEF TypeOK
<1>3. /\ current \notin Entries(queue) /\ current \notin Entries(results)
      /\ current \notin Entries(free) /\ running # current
  BY <1>1 DEF Apart, Busy, The
<1>4. /\ <<current>> \o free \in Seq(made)
      /\ Entries(<<current>> \o free) = Entries(free) \cup {current}
      /\ Once(<<current>> \o free)
  BY <1>2, <1>3, PushEntered DEF TypeOK, Apart
<1>5. /\ job' \in [Job -> MysqlThread]
      /\ \A j \in Job : j # current => job'[j] = job[j]
  <2>1. [job[current] EXCEPT !.result = NoQuery] \in MysqlThread
    BY <1>2 DEF TypeOK, MysqlThread
  <2>2. job' = [job EXCEPT ![current] = [job[current] EXCEPT !.result = NoQuery]]
    BY <1>1
  <2> QED
    BY <1>2, <2>1, <2>2 DEF TypeOK
<1>6. TypeOK'
  BY <1>1, <1>4, <1>5 DEF TypeOK
<1>7. PlaceFits'
  BY <1>1 DEF PlaceFits
<1>8. /\ Entries(queue)' = Entries(queue) /\ Entries(results)' = Entries(results)
      /\ Entries(free)' = Entries(free) \cup {current}
      /\ The(running)' = The(running) /\ The(running) \subseteq {running}
      /\ The(current) = {current} /\ The(current)' = {}
  <2>1. Entries(free)' = Entries(<<current>> \o free)
    BY <1>1 DEF Entries
  <2>2. Entries(queue)' = Entries(queue) /\ Entries(results)' = Entries(results)
    BY <1>1 DEF Entries
  <2> QED
    BY <1>1, <1>4, <2>1, <2>2 DEF The
<1>9. /\ Busy' = Busy \ {current} /\ Held' = Held /\ Held \subseteq Busy'
      /\ Entries(results) \subseteq Busy' /\ current \in Busy
  BY <1>3, <1>8 DEF Busy, Held
<1>10. Busy \subseteq Job
  BY DEF Apart, TypeOK
<1>11. Apart'
  <2>1. Once(queue)' /\ Once(results)' /\ Once(free)'
    BY <1>1, <1>4 DEF Apart, Once
  <2> QED
    BY <1>1, <1>8, <1>9, <2>1 DEF Apart
<1>12. OwnQueries'
  BY <1>5, <1>9, <1>10 DEF OwnQueries
<1>13. Filling'
  BY <1>1, <1>5, <1>8, <1>9, <1>10 DEF Filling
<1>14. OwnResult'
  BY <1>1 DEF OwnResult
<1>15. Entries(answers)' = Entries(answers)
  BY <1>1 DEF Entries, answers
<1>16. Answered'
  BY <1>1, <1>5, <1>9, <1>10, <1>15 DEF Answered
<1> QED
  BY <1>6, <1>7, <1>11, <1>12, <1>13, <1>14, <1>16

LEMMA SQL_ThreadQueryKeeps ==
  ASSUME IInv, NEW q \in Query, NEW data \in {"none", "array"},
         SQL_ThreadQuery(q, data)
  PROVE  IInv'
<1> USE DEF IInv
<1>1. PICK j \in Taken :
        /\ free' = FreeLeft /\ made' = made \cup {j}
        /\ job' = [job EXCEPT ![j] = Filled(job[j], q, data)]
        /\ queue' = Append(queue, j)
  BY DEF SQL_ThreadQuery, Worker!Submit
<1>2. /\ place \in {"idle", "frame"} /\ asked[q] = "no"
      /\ asked' = [asked EXCEPT ![q] = data]
      /\ running' = running /\ mode' = mode /\ place' = place
      /\ results' = results /\ current' = current /\ received' = received
      /\ mode = "open"
  BY DEF SQL_ThreadQuery, Worker!Submit
<1>3. /\ j \in Job /\ j \notin Busy /\ FreeLeft \in Seq(made)
      /\ Once(FreeLeft) /\ Entries(FreeLeft) = Entries(free) \ {j}
  <2>1. CASE free = <<>>
    BY <1>1, <2>1, NoneEntered DEF Taken, FreeLeft, TypeOK, Apart
  <2>2. CASE free # <<>>
    <3>1. j = Head(free) /\ FreeLeft = Tail(free)
      BY <1>1, <2>2 DEF Taken, FreeLeft
    <3>2. /\ Head(free) \in made /\ Head(free) \in Entries(free)
          /\ Tail(free) \in Seq(made) /\ Once(Tail(free))
          /\ Entries(Tail(free)) = Entries(free) \ {Head(free)}
      BY <2>2, PopEntered DEF TypeOK, Apart
    <3> QED
      BY <3>1, <3>2 DEF TypeOK, Apart
  <2> QED
    BY <2>1, <2>2
<1>4. /\ job[j] \in MysqlThread /\ job' \in [Job -> MysqlThread]
      /\ job'[j].query = q /\ job'[j].result = job[j].result
      /\ \A k \in Job : k # j => job'[k] = job[k]
  <2>1. job[j] \in MysqlThread
    BY <1>3 DEF TypeOK
  <2>2. /\ Filled(job[j], q, data) \in MysqlThread
        /\ Filled(job[j], q, data).query = q
        /\ Filled(job[j], q, data).result = job[j].result
    BY <2>1, ThreadTypes
  <2> QED
    BY <1>1, <1>3, <2>1, <2>2 DEF TypeOK
<1>5. TypeOK'
  <2>1. made \subseteq made' /\ made' \subseteq Job /\ j \in made'
    BY <1>1, <1>3 DEF TypeOK
  <2>2. queue \in Seq(made') /\ results \in Seq(made') /\ FreeLeft \in Seq(made')
    BY <1>3, <2>1, SeqGrows DEF TypeOK
  <2>3. Append(queue, j) \in Seq(made')
    BY <2>1, <2>2, AppendEntered
  <2>4. asked' \in [Query -> {"no", "none", "array"}]
    BY <1>2 DEF TypeOK
  <2> QED
    BY <1>1, <1>2, <1>4, <2>1, <2>2, <2>3, <2>4 DEF TypeOK
<1>6. PlaceFits'
  BY <1>2 DEF PlaceFits
<1>7. /\ Entries(queue)' = Entries(queue) \cup {j}
      /\ Entries(results)' = Entries(results)
      /\ Entries(free)' = Entries(free) \ {j}
      /\ The(running)' = The(running) /\ The(current)' = The(current)
      /\ Once(queue)' /\ Once(results)' /\ Once(free)'
  <2>1. queue \in Seq(Job) /\ j \notin Entries(queue) /\ Once(queue)
    BY <1>3, SeqGrows DEF TypeOK, Apart, Busy
  <2>2. /\ Entries(Append(queue, j)) = Entries(queue) \cup {j}
        /\ Once(Append(queue, j))
    BY <1>3, <2>1, AppendEntered
  <2>3. /\ Entries(queue)' = Entries(Append(queue, j))
        /\ Entries(results)' = Entries(results)
        /\ Entries(free)' = Entries(FreeLeft)
    BY <1>1, <1>2 DEF Entries
  <2>4. Once(results)
    BY DEF Apart
  <2>5. Once(queue)' /\ Once(results)' /\ Once(free)'
    BY <1>1, <1>2, <1>3, <2>2, <2>4 DEF Once
  <2> QED
    BY <1>2, <1>3, <2>2, <2>3, <2>5 DEF The
<1>8. Busy' = Busy \cup {j} /\ Held' = Held \cup {j} /\ Held \subseteq Busy
  BY <1>7 DEF Busy, Held
<1>9. Busy \subseteq Job /\ Entries(results) \subseteq Busy
  BY DEF Apart, TypeOK, Busy
<1>10. /\ j \notin Entries(queue) \cup Entries(results)
       /\ (running # NoJob => j # running) /\ (current # NoJob => j # current)
  BY <1>3 DEF Busy, The
<1>11. Apart'
  <2>1. made' = Busy' \cup Entries(free)'
    BY <1>1, <1>7, <1>8 DEF Apart
  <2> QED
    BY <1>2, <1>3, <1>7, <1>8, <1>10, <2>1 DEF Apart
<1>12. \A k \in Busy : job'[k] = job[k] /\ job[k].query # q
  BY <1>2, <1>3, <1>4, <1>9 DEF Filling
<1>13. OwnQueries'
  BY <1>4, <1>8, <1>12 DEF OwnQueries
<1>14. /\ asked'[q] = data /\ data # "no"
       /\ \A p \in Query : p # q => asked'[p] = asked[p]
  BY <1>2 DEF TypeOK
<1>15. Filling'
  BY <1>4, <1>7, <1>8, <1>9, <1>12, <1>14 DEF Filling
<1>16. OwnResult'
  BY <1>2 DEF OwnResult
<1>17. Entries(answers)' = Entries(answers)
  BY <1>2 DEF Entries, answers
<1>18. q \notin Entries(answers)
  BY <1>2 DEF Answered
<1>19. Answered'
  BY <1>4, <1>8, <1>12, <1>14, <1>17, <1>18 DEF Answered
<1> QED
  BY <1>5, <1>6, <1>11, <1>13, <1>15, <1>16, <1>19

-----------------------------------------------------------------------------
LEMMA Inductive == Spec => []IInv
<1>1. Init => IInv
  BY Begins
<1>2. IInv /\ [Next]_vars => IInv'
  BY NextOrSame, PlaceMoves, ShutdownKeeps, BeginKeeps, FinishKeeps,
     ExecuteKeeps, ExecutedKeeps, SQL_ThreadQueryKeeps
  DEF Next, Plugins, WorkerThread, GameThread
<1> QED
  BY <1>1, <1>2, PTL DEF Spec

(* Every variable of the module keeps its type; in particular g_FreeThreads, *)
(* g_ThreadQueue and the worker hold only objects that exist.              *)
THEOREM TypeCorrect == Spec => []TypeOK
<1>1. IInv => TypeOK
  BY DEF IInv
<1> QED
  BY <1>1, Inductive, PTL

(* A MysqlThread is never in two of the queues and hands it passes through. *)
THEOREM PlacesDisjoint == Spec => []OnePlace
<1>1. ASSUME IInv PROVE OnePlace
  <2>1. The(running) \subseteq {running} /\ The(current) \subseteq {current}
        /\ NoJob \notin The(running) /\ NoJob \notin The(current)
    BY DEF The
  <2>2. /\ Entries(queue) \cap Entries(results) = {}
        /\ Entries(queue) \cap Entries(free) = {}
        /\ Entries(queue) \cap The(running) = {}
        /\ Entries(queue) \cap The(current) = {}
        /\ Entries(results) \cap Entries(free) = {}
        /\ Entries(results) \cap The(running) = {}
        /\ Entries(results) \cap The(current) = {}
        /\ Entries(free) \cap The(running) = {}
        /\ Entries(free) \cap The(current) = {}
        /\ The(running) \cap The(current) = {}
    BY <1>1, <2>1 DEF IInv, Apart, Busy
  <2> QED
    BY <1>1, <2>2 DEF IInv, Apart, OwnQueries, OnePlace
<1> QED
  BY <1>1, Inductive, PTL

(* Execute() gives a handler the result of the query it was asked with.    *)
THEOREM ResultsOwn == Spec => []OwnResult
<1>1. IInv => OwnResult
  BY DEF IInv
<1> QED
  BY <1>1, Inductive, PTL

(* What ThreadWorker assumes of its caller: whenever plugins may ask, there *)
(* is a worker, and no object that SQL_ThreadQuery may take is still in its *)
(* queue or hands; the worker that OnPluginsUnloading stops is there.      *)
WorkerReady ==
  /\ place \in {"idle", "frame"} => mode = "open"
  /\ \A j \in Taken : ~Worker!Waits(j) /\ running # j

(* The guards of Worker!Submit and Worker!Stop never hold the caller back. *)
THEOREM WorkerIsReady == Spec => []WorkerReady
<1>1. ASSUME IInv, NEW j \in Taken
      PROVE  ~Worker!Waits(j) /\ running # j
  <2>1. j \notin Busy
    <3>1. CASE free = <<>>
      BY <1>1, <3>1, NoneEntered DEF Taken, IInv, Apart
    <3>2. CASE free # <<>>
      <4>1. j = Head(free)
        BY <3>2 DEF Taken
      <4>2. Head(free) \in Entries(free)
        BY <1>1, <3>2, PopEntered DEF IInv, TypeOK
      <4> QED
        BY <1>1, <4>1, <4>2 DEF IInv, Apart
    <3> QED
      BY <3>1, <3>2
  <2>2. j # NoJob
    BY <1>1, PopEntered, SqlAssumption DEF Taken, IInv, TypeOK
  <2> QED
    BY <2>1, <2>2 DEF Busy, Entries, The, Worker!Waits
<1>2. IInv => WorkerReady
  BY <1>1 DEF WorkerReady, IInv, PlaceFits
<1> QED
  BY <1>2, Inductive, PTL

-----------------------------------------------------------------------------
(* The step from the objects and queues to the queries and their answers.  *)

LEMMA PendingHeld ==
  ASSUME IInv
  PROVE  pending = {job[j].query : j \in Held}
<1> USE DEF IInv
<1>1. ASSUME NEW q \in pending PROVE q \in {job[j].query : j \in Held}
  BY DEF pending, Answered
<1>2. Held \subseteq Busy
  BY DEF Held, Busy
<1>3. ASSUME NEW j \in Held PROVE job[j].query \in pending
  BY <1>2 DEF pending, Answered, Filling
<1> QED
  BY <1>1, <1>3

(* The steps that ask and answer nothing.                                  *)
LEMMA SilentMaps ==
  ASSUME UNCHANGED <<asked, received>>, (place' = "unloaded") <=> (place = "unloaded")
  PROVE  UNCHANGED Promise!vars
<1>1. answers' = answers
  BY DEF answers
<1>2. Entries(answers)' = Entries(answers)
  BY <1>1 DEF Entries
<1>3. pending' = pending
  BY <1>2 DEF pending
<1> QED
  BY <1>1, <1>3 DEF Promise!vars, open

LEMMA StepMaps ==
  ASSUME IInv, IInv', Next \/ Same
  PROVE  [Promise!Next]_(Promise!vars)
<1>1. CASE OnPluginsLoaded
  <2>1. asked' = asked /\ received' = received /\ place = "unloaded" /\ place' = "idle"
    BY <1>1 DEF OnPluginsLoaded
  <2>2. answers' = answers
    BY <2>1 DEF answers
  <2>3. Entries(answers)' = Entries(answers)
    BY <2>2 DEF Entries
  <2>4. Promise!Load
    BY <2>1, <2>2, <2>3 DEF Promise!Load, open, pending
  <2> QED
    BY <2>4 DEF Promise!Next
<1>2. CASE DrainDone
  <2>1. /\ asked' = asked /\ received' = received
        /\ place = "drain" /\ place' = "unloaded" /\ results = <<>>
    BY <1>2 DEF DrainDone
  <2>2. answers' = answers
    BY <2>1 DEF answers
  <2>3. Entries(answers)' = Entries(answers)
    BY <2>2 DEF Entries
  <2>4. Held = {}
    BY <2>1, NoneEntered DEF IInv, PlaceFits, Held, The
  <2>5. pending = {}
    BY <2>4, PendingHeld
  <2>6. Promise!Unload
    BY <2>1, <2>2, <2>3, <2>5 DEF Promise!Unload, open, pending
  <2> QED
    BY <2>6 DEF Promise!Next
<1>3. ASSUME NEW q \in Query, NEW data \in {"none", "array"}, SQL_ThreadQuery(q, data)
      PROVE  Promise!Next
  <2>1. /\ place' = place /\ place # "unloaded" /\ received' = received
        /\ asked[q] = "no" /\ asked' = [asked EXCEPT ![q] = data]
    BY <1>3 DEF SQL_ThreadQuery
  <2>2. answers' = answers
    BY <2>1 DEF answers
  <2>3. Entries(answers)' = Entries(answers)
    BY <2>2 DEF Entries
  <2>4. q \notin Entries(answers) /\ q \notin pending
    BY <2>1 DEF IInv, Answered, pending
  <2>5. pending' = pending \cup {q}
    BY <2>1, <2>3, <2>4 DEF IInv, TypeOK, pending
  <2>6. Promise!Ask(q)
    BY <2>1, <2>2, <2>4, <2>5 DEF Promise!Ask, open
  <2> QED
    BY <2>6 DEF Promise!Next
<1>4. CASE Execute
  <2> DEFINE j == Head(results)
             q == job[j].query
  <2>1. /\ place \in {"frame", "drain"} /\ place' = place /\ asked' = asked
        /\ results # <<>> /\ received' = Append(received, job[j])
    BY <1>4 DEF Execute
  <2>2. j \in Entries(results) /\ j \in made
    BY <2>1, PopEntered DEF IInv, TypeOK
  <2> HIDE DEF j
  <2>3. j \in Held /\ job[j] \in MysqlThread
    BY <2>2 DEF Held, IInv, TypeOK
  <2>4. q \in pending
    BY <2>3, PendingHeld
  <2>5. answers \in Seq(Query \cup {NoQuery}) /\ answers' = Append(answers, q)
    BY <2>1, <2>3, AnswersGrow DEF IInv, TypeOK
  <2>6. Entries(answers)' = Entries(answers) \cup {q}
    <3>1. Entries(answers)' = Entries(answers')
      BY DEF Entries
    <3>2. q \in Query \cup {NoQuery}
      BY <2>4 DEF pending
    <3> QED
      BY <2>5, <3>1, <3>2, AppendEntered
  <2>7. pending' = pending \ {q}
    BY <2>1, <2>6 DEF pending
  <2>8. Promise!Answer(q)
    BY <2>1, <2>4, <2>5, <2>7 DEF Promise!Answer, open
  <2>9. q \in Query
    BY <2>4 DEF pending
  <2> QED
    BY <2>8, <2>9 DEF Promise!Next
<1>5. CASE \/ StartFrame \/ FrameDone \/ OnPluginsUnloading \/ Stopped
           \/ ShutdownThreading \/ Executed \/ Begin \/ Finish \/ Same
  <2>1. UNCHANGED <<asked, received>> /\ ((place' = "unloaded") <=> (place = "unloaded"))
    BY <1>5 DEF StartFrame, FrameDone, OnPluginsUnloading, Stopped,
                ShutdownThreading, Executed, Begin, Finish, Same
  <2> QED
    BY <2>1, SilentMaps
<1> QED
  BY <1>1, <1>2, <1>3, <1>4, <1>5 DEF Next, Plugins, WorkerThread, GameThread

(* Threaded queries, over any worker that keeps the promise of IWorker,    *)
(* answer each query that was asked once, and no plugin is unloaded while  *)
(* one of them waits for its answer.                                       *)
THEOREM Implements == Spec => KeepsPromise
<1>1. Init => Promise!Init
  <2> SUFFICES ASSUME Init PROVE Promise!Init
    OBVIOUS
  <2>1. answers = <<>>
    BY DEF Init, answers
  <2> QED
    BY <2>1 DEF Init, Promise!Init, open, pending
<1>2. IInv /\ IInv' /\ [Next]_vars => [Promise!Next]_(Promise!vars)
  BY StepMaps, NextOrSame
<1> QED
  BY <1>1, <1>2, Inductive, PTL DEF Spec, KeepsPromise, Promise!Spec

=============================================================================
