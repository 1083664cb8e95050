-------------------------- MODULE RpcServiceProofs --------------------------
(***************************************************************************)
(* What becomes of a request, for any number of requests, pool threads and *)
(* snapshots, and any depth of the reader's history.                       *)
(***************************************************************************)
EXTENDS RpcService, SequenceTheorems, FiniteSetTheorems, TLAPS

-----------------------------------------------------------------------------
(* The inductive invariant *)

\* What is in the reader is waiting in the order of sending.
ReaderInv ==
  \A i, j \in DOMAIN reader : i < j => reader[i] < reader[j]

\* EachRequestOnce without its cardinalities, and what they need.
PlacesInv ==
  /\ InReader \cup InService \cup Answered \cup dropped = 1 .. Len(sent)
  /\ InReader \cap InService = {}
  /\ (InReader \cup InService) \cap (Answered \cup dropped) = {}
  /\ Answered \cap dropped = {}

AnswersInv ==
  /\ IsFiniteSet(answers) /\ IsFiniteSet(Answered)
  /\ Cardinality(answers) = Cardinality(Answered)
  /\ IsFiniteSet(InReader) /\ Cardinality(InReader) = Len(reader)

IInv == TypeOK /\ ReaderInv /\ PlacesInv /\ AnswersInv

-----------------------------------------------------------------------------
(* Sequences and the sets of their elements *)

Elements(s) == {s[i] : i \in DOMAIN s}

LEMMA AppendElements ==
  ASSUME NEW S, NEW s \in Seq(S), NEW e \in S
  PROVE  Elements(Append(s, e)) = Elements(s) \cup {e}
<1>1. /\ DOMAIN Append(s, e) = DOMAIN s \cup {Len(s) + 1}
      /\ \A i \in DOMAIN s : Append(s, e)[i] = s[i]
      /\ Append(s, e)[Len(s) + 1] = e
  BY AppendProperties, LenProperties
<1> QED
  BY <1>1 DEF Elements

LEMMA TailElements ==
  ASSUME NEW s \in Seq(Uuid), s # << >>,
         \A i, j \in DOMAIN s : i < j => s[i] < s[j]
  PROVE  /\ Head(s) \in Elements(s)
         /\ Elements(Tail(s)) = Elements(s) \ {Head(s)}
         /\ \A i, j \in DOMAIN Tail(s) : i < j => Tail(s)[i] < Tail(s)[j]
<1>1. /\ Len(s) \in Nat /\ Len(s) > 0 /\ DOMAIN s = 1 .. Len(s) /\ Head(s) = s[1]
      /\ DOMAIN Tail(s) = 1 .. Len(s) - 1
      /\ \A i \in 1 .. Len(s) - 1 : Tail(s)[i] = s[i + 1]
  BY HeadTailProperties, LenProperties, EmptySeq
<1>2. Elements(Tail(s)) = {s[i] : i \in 2 .. Len(s)}
  <2>1. Elements(Tail(s)) = {s[i + 1] : i \in 1 .. Len(s) - 1}
    BY <1>1 DEF Elements
  <2>2. ASSUME NEW i \in 2 .. Len(s) PROVE \E j \in 1 .. Len(s) - 1 : i = j + 1
    <3>1. i - 1 \in 1 .. Len(s) - 1 /\ i = (i - 1) + 1
      BY <1>1
    <3> QED
      BY <3>1
  <2>3. \A j \in 1 .. Len(s) - 1 : j + 1 \in 2 .. Len(s)
    BY <1>1
  <2> QED
    BY <2>1, <2>2, <2>3
<1>3. \A i \in 2 .. Len(s) : s[i] # s[1]
  <2>1. \A i \in 1 .. Len(s) : s[i] \in Int
    BY <1>1, RpcAssumption DEF Uuid
  <2> QED
    BY <1>1, <2>1
<1> QED
  BY <1>1, <1>2, <1>3 DEF Elements

LEMMA InReaderElements == InReader = Elements(reader)
  BY DEF InReader, Elements

-----------------------------------------------------------------------------
(* Type correctness *)

LEMMA InitTypeOK == Init => TypeOK
<1> SUFFICES ASSUME Init PROVE TypeOK
  OBVIOUS
<1>1. log \in Seq(RobotMode) /\ Len(log) \in Nat /\ applied \in 0 .. Len(log) /\ mode \in RobotMode
  <2>1. /\ applied = 0 /\ mode = "DAMPING" /\ (log = << >> \/ log = <<"PREPARE">>)
    BY DEF Init, Robot!Init
  <2>2. CASE log = << >>
    BY <2>1, <2>2 DEF RobotMode
  <2>3. CASE log = <<"PREPARE">>
    BY <2>1, <2>3 DEF RobotMode
  <2> QED
    BY <2>1, <2>2, <2>3
<1>2. entered \in Seq(0 .. MaxCalls) /\ Len(entered) = Len(log)
  <2>1. 0 \in 0 .. MaxCalls /\ DOMAIN log = 1 .. Len(log)
    BY <1>1, RpcAssumption
  <2> QED
    BY <1>1, <2>1 DEF Init
<1>3. NoReply \in [at : {"idle", "emit", "reply", "thrown"}, uuid : 0 .. MaxCalls, mode : RobotMode]
  BY RpcAssumption DEF NoReply, RobotMode
<1>4. current_mode_ \in RobotMode
  BY DEF Init, RobotMode
<1>5. sent = << >> /\ reader = << >> /\ tasks = << >> /\ Len(<< >>) = 0
  BY DEF Init
<1>6. sent \in Seq(Call) /\ Len(sent) <= MaxCalls /\ reader \in Seq(Uuid)
      /\ Len(reader) <= Depth /\ tasks \in Seq(Task)
  BY <1>5, RpcAssumption
<1> QED
  BY <1>1, <1>2, <1>3, <1>4, <1>6 DEF Init, TypeOK

LEMMA SendTypeOK == ASSUME TypeOK, NEW c \in Call, send(c) PROVE TypeOK'
<1>1. /\ sent \in Seq(Call) /\ Len(sent) \in Nat /\ Len(sent) < MaxCalls /\ MaxCalls \in Nat
      /\ reader \in Seq(Uuid) /\ Len(reader) \in Nat /\ Len(reader) <= Depth /\ Depth \in Nat \ {0}
  BY RpcAssumption DEF TypeOK, send
<1>2. sent' \in Seq(Call) /\ Len(sent') = Len(sent) + 1 /\ Len(sent) + 1 \in Uuid
  BY <1>1 DEF send, Uuid
<1> DEFINE kept == IF Full THEN Tail(reader) ELSE reader
<1>3. kept \in Seq(Uuid) /\ Len(kept) \in Nat /\ Len(kept) < Depth
      /\ (Full => reader # << >> /\ Head(reader) \in Uuid)
  <2>1. Full => reader # << >>
    BY <1>1 DEF Full
  <2>2. CASE Full
    BY <1>1, <2>1, <2>2, HeadTailProperties DEF Full
  <2>3. CASE ~Full
    BY <1>1, <2>3 DEF Full
  <2> QED
    BY <2>1, <2>2, <2>3
<1>4. reader' = Append(kept, Len(sent) + 1)
  BY DEF send
<1> HIDE DEF kept
<1>5. reader' \in Seq(Uuid) /\ Len(reader') <= Depth
  BY <1>1, <1>2, <1>3, <1>4, AppendProperties
<1>6. dropped' \subseteq Uuid
  BY <1>3 DEF send, TypeOK
<1> QED
  BY <1>1, <1>2, <1>5, <1>6 DEF send, TypeOK, pool, robot

LEMMA ServedCall ==
  ASSUME TypeOK, PlacesInv, listener.at # "idle"
  PROVE  /\ listener.uuid \in 1 .. Len(sent) /\ listener.uuid \in Uuid
         /\ call(listener.uuid) \in Call
         /\ call(listener.uuid).api = "CHANGE_MODE" => call(listener.uuid).mode \in RobotMode
<1>1. listener.uuid \in 1 .. Len(sent)
  BY DEF PlacesInv, InService
<1>2. sent[listener.uuid] \in Call
  BY <1>1, ElementOfSeq DEF TypeOK
<1>3. listener.uuid \in Uuid
  BY <1>1, RpcAssumption DEF TypeOK, Uuid
<1> QED
  BY <1>1, <1>2, <1>3, RpcAssumption DEF call, Call

\* Dispatching a call leads somewhere, and to an answer without a task only if
\* the call is no mode request.
LEMMA Outcomes ==
  ASSUME NEW u
  PROVE  /\ Outcome(u) \in {"emit", "reply", "thrown"}
         /\ Outcome(u) = "reply" => call(u).api # "CHANGE_MODE"
  BY DEF Outcome, Emits

LEMMA ListenerTypeOK == ASSUME TypeOK, PlacesInv, Listener PROVE TypeOK'
<1> DEFINE L == [at : {"idle", "emit", "reply", "thrown"}, uuid : 0 .. MaxCalls, mode : RobotMode]
<1>0. listener \in L /\ MaxCalls \in Nat /\ Uuid \subseteq 0 .. MaxCalls /\ "UNKNOWN" \in RobotMode
  BY RpcAssumption DEF TypeOK, Uuid, RobotMode
<1>1. CASE take_next_sample
  <2>1. Head(reader) \in Uuid /\ reader' \in Seq(Uuid) /\ Len(reader') <= Depth
    <3>1. Len(reader) \in Nat /\ Len(Tail(reader)) = Len(reader) - 1 /\ Len(reader) <= Depth
      BY <1>1, HeadTailProperties DEF take_next_sample, TypeOK
    <3> QED
      BY <1>1, <3>1, RpcAssumption, HeadTailProperties DEF take_next_sample, Taken, TypeOK
  <2>2. listener' \in L
    BY <1>0, <1>1, <2>1, Outcomes DEF take_next_sample, TypeOK
  <2> QED
    BY <1>1, <2>1, <2>2 DEF take_next_sample, Cached, TypeOK, pool, robot, history
<1>2. CASE emit
  <2>1. listener' \in L
    BY <1>0, <1>2 DEF emit
  <2>2. PICK t : /\ tasks' = Append(tasks, t)
                 /\ t = IF call(listener.uuid).api = "CHANGE_MODE"
                        THEN [kind |-> "request", mode |-> call(listener.uuid).mode,
                              uuid |-> listener.uuid]
                        ELSE [kind |-> "ignored", mode |-> "UNKNOWN", uuid |-> 0]
    BY <1>2 DEF emit
  <2>3. t \in Task
    BY <1>0, <1>2, <2>2, ServedCall DEF emit, Task
  <2> QED
    BY <1>2, <2>1, <2>2, <2>3, AppendProperties DEF emit, TypeOK, robot, history
<1>3. CASE reply
  <2>1. listener' \in L
    BY <1>0, <1>3 DEF reply, NoReply
  <2>2. PICK a : /\ answers' = answers \cup {a}
                 /\ a = [uuid |-> listener.uuid, known |-> call(listener.uuid).api # "other",
                         mode |-> IF call(listener.uuid).api = "GET_MODE" THEN listener.mode
                                                                        ELSE "UNKNOWN"]
    BY <1>3 DEF reply
  <2>3. a \in Answer
    BY <1>0, <1>3, <2>2, ServedCall DEF reply, Answer
  <2> QED
    BY <1>3, <2>1, <2>2, <2>3 DEF reply, TypeOK, pool, robot, history
<1> QED
  BY <1>1, <1>2, <1>3 DEF Listener

LEMMA WorkTypeOK == ASSUME TypeOK, NEW w \in Threads, Work(w) PROVE TypeOK'
<1>0. worker \in [Threads -> Task \cup {NoTask}] /\ worker[w] \in Task \cup {NoTask}
  BY DEF TypeOK
<1>1. CASE take_task(w)
  <2>1. Head(tasks) \in Task /\ tasks' \in Seq(Task)
    BY <1>1, HeadTailProperties DEF take_task, TypeOK
  <2>2. worker' \in [Threads -> Task \cup {NoTask}]
    BY <1>0, <1>1, <2>1 DEF take_task
  <2>3. overlapped' \in BOOLEAN
    BY <1>1 DEF take_task
  <2> QED
    BY <1>1, <2>1, <2>2, <2>3 DEF take_task, TypeOK, bridge, robot
<1>2. CASE run_task(w)
  <2>1. worker' \in [Threads -> Task \cup {NoTask}]
    BY <1>0, <1>2 DEF run_task
  <2>2. CASE run_request(w)
    <3>1. worker[w].mode \in RobotMode /\ worker[w].uuid \in 0 .. MaxCalls
      BY <1>0, <2>2, RpcAssumption DEF run_request, Task, NoTask, Uuid
    <3>2. log' = Append(log, worker[w].mode) /\ applied' = applied /\ mode' = mode
          /\ entered' = Append(entered, worker[w].uuid)
      BY <2>2 DEF run_request, Robot!Request
    <3>3. log' \in Seq(RobotMode) /\ Len(log') = Len(log) + 1 /\ Len(log) \in Nat
      BY <3>1, <3>2, AppendProperties DEF TypeOK
    <3>4. entered' \in Seq(0 .. MaxCalls) /\ Len(entered') = Len(entered) + 1
      BY <3>1, <3>2, AppendProperties DEF TypeOK
    <3> QED
      BY <1>2, <2>1, <2>2, <3>2, <3>3, <3>4 DEF run_task, run_request, TypeOK
  <2>3. CASE run_state(w)
    <3>1. worker[w].mode \in RobotMode
      BY <1>0, <2>3 DEF run_state, Task, NoTask
    <3> QED
      BY <1>2, <2>1, <2>3, <3>1 DEF run_task, run_state, TypeOK, robot
  <2>4. CASE run_ignored(w)
    BY <1>2, <2>1, <2>4 DEF run_task, run_ignored, TypeOK, robot
  <2> QED
    BY <1>2, <2>2, <2>3, <2>4 DEF run_task
<1> QED
  BY <1>1, <1>2 DEF Work

LEMMA PhysicsTypeOK == ASSUME TypeOK, step \/ publish PROVE TypeOK'
<1>1. CASE step
  <2>1. PICK i \in (applied + 1) .. Len(log) :
          applied' = i /\ mode' = Robot!After(log[i], mode) /\ log' = log
    BY <1>1 DEF step, Robot!Apply
  <2>2. Len(log) \in Nat /\ applied' \in 0 .. Len(log)
    BY <2>1 DEF TypeOK
  <2>3. mode' \in RobotMode
    BY <2>1 DEF Robot!After, RobotMode, TypeOK
  <2> QED
    BY <1>1, <2>1, <2>2, <2>3 DEF step, TypeOK, bridge, pool, history
<1>2. CASE publish
  <2>1. tasks' \in Seq(Task)
    <3>1. [kind |-> "state", mode |-> mode, uuid |-> 0] \in Task
      BY DEF Task, TypeOK
    <3> QED
      BY <1>2, <3>1, AppendProperties DEF publish, TypeOK
  <2> QED
    BY <1>2, <2>1 DEF publish, TypeOK, bridge, robot
<1> QED
  BY <1>1, <1>2

-----------------------------------------------------------------------------
(* Where the requests are *)

LEMMA SendPlaces ==
  ASSUME TypeOK, ReaderInv, PlacesInv, AnswersInv, NEW c \in Call, send(c)
  PROVE  ReaderInv' /\ PlacesInv' /\ AnswersInv'
<1> DEFINE n    == Len(sent) + 1
           kept == IF Full THEN Tail(reader) ELSE reader
<1>1. /\ Len(sent) \in Nat /\ Len(sent) < MaxCalls /\ MaxCalls \in Nat
      /\ reader \in Seq(Uuid) /\ Len(reader) \in Nat /\ Depth \in Nat \ {0}
      /\ n \in Uuid /\ sent' = Append(sent, c) /\ Len(sent') = n
      /\ 1 .. n = (1 .. Len(sent)) \cup {n} /\ n \notin 1 .. Len(sent)
  <2>1. /\ sent \in Seq(Call) /\ Len(sent) \in Nat /\ Len(sent) < MaxCalls /\ MaxCalls \in Nat
        /\ reader \in Seq(Uuid) /\ Len(reader) \in Nat /\ Depth \in Nat \ {0}
        /\ sent' = Append(sent, c)
    BY RpcAssumption DEF TypeOK, send
  <2>2. Len(sent') = n
    BY <2>1, AppendProperties
  <2>3. n \in Uuid /\ 1 .. n = (1 .. Len(sent)) \cup {n} /\ n \notin 1 .. Len(sent)
    BY <2>1 DEF Uuid
  <2> QED
    BY <2>1, <2>2, <2>3
<1>2. /\ UNCHANGED <<listener, answers>> /\ reader' = Append(kept, n)
      /\ dropped' = IF Full THEN dropped \cup {Head(reader)} ELSE dropped
  BY DEF send
<1>3. Full => reader # << >>
  BY <1>1 DEF Full
<1>4. /\ kept \in Seq(Uuid) /\ Len(kept) \in Nat
      /\ \A i, j \in DOMAIN kept : i < j => kept[i] < kept[j]
      /\ Full => /\ Head(reader) \in Elements(reader)
                 /\ Elements(kept) = Elements(reader) \ {Head(reader)}
                 /\ Len(kept) = Len(reader) - 1
      /\ ~Full => kept = reader
  BY <1>1, <1>3, TailElements, HeadTailProperties DEF ReaderInv
<1> HIDE DEF kept
<1>5. /\ Elements(reader') = Elements(kept) \cup {n} /\ Len(reader') = Len(kept) + 1
      /\ DOMAIN kept = 1 .. Len(kept) /\ DOMAIN reader' = 1 .. Len(kept) + 1
      /\ \A i \in 1 .. Len(kept) : reader'[i] = kept[i]
      /\ reader'[Len(kept) + 1] = n
  BY <1>1, <1>2, <1>4, AppendElements, AppendProperties, LenProperties
<1>6. InReader = Elements(reader) /\ InReader' = Elements(reader')
  BY DEF InReader, Elements
<1>7. InService' = InService /\ Answered' = Answered
  BY <1>2 DEF InService, Answered
<1>8. Elements(kept) \subseteq 1 .. Len(sent)
  BY <1>4, <1>6 DEF PlacesInv
<1>9. ReaderInv'
  <2>1. ASSUME NEW i \in 1 .. Len(kept) PROVE kept[i] < n
    <3>1. kept[i] \in 1 .. Len(sent)
      BY <1>5, <1>8 DEF Elements
    <3> QED
      BY <1>1, <3>1
  <2> QED
    BY <1>4, <1>5, <2>1 DEF ReaderInv
<1>10. PlacesInv'
  BY <1>1, <1>2, <1>4, <1>5, <1>6, <1>7 DEF PlacesInv
<1>11. AnswersInv'
  <2>1. IsFiniteSet(Elements(kept)) /\ Cardinality(Elements(kept)) = Len(kept)
    <3>1. CASE Full
      <4>1. /\ IsFiniteSet(Elements(reader) \ {Head(reader)})
            /\ Cardinality(Elements(reader) \ {Head(reader)}) = Cardinality(Elements(reader)) - 1
        BY <1>4, <1>6, <3>1, FS_RemoveElement DEF AnswersInv
      <4> QED
        BY <1>4, <1>6, <3>1, <4>1 DEF AnswersInv
    <3>2. CASE ~Full
      BY <1>4, <1>6, <3>2 DEF AnswersInv
    <3> QED
      BY <3>1, <3>2
  <2>2. n \notin Elements(kept)
    BY <1>1, <1>8
  <2>3. IsFiniteSet(InReader') /\ Cardinality(InReader') = Len(reader')
    <3>1. /\ IsFiniteSet(Elements(kept) \cup {n})
          /\ Cardinality(Elements(kept) \cup {n}) = Cardinality(Elements(kept)) + 1
      BY <2>1, <2>2, FS_AddElement
    <3> QED
      BY <1>5, <1>6, <2>1, <3>1
  <2> QED
    BY <1>2, <1>7, <2>3 DEF AnswersInv
<1> QED
  BY <1>9, <1>10, <1>11

LEMMA TakePlaces ==
  ASSUME TypeOK, ReaderInv, PlacesInv, AnswersInv, take_next_sample
  PROVE  ReaderInv' /\ PlacesInv' /\ AnswersInv'
<1> DEFINE h == Head(reader)
<1>1. /\ reader \in Seq(Uuid) /\ reader # << >> /\ Len(reader) \in Nat
      /\ reader' = Tail(reader) /\ listener.at = "idle"
      /\ listener'.at # "idle" /\ listener'.uuid = h
      /\ UNCHANGED <<sent, answers, dropped>>
  <2>1. listener'.at = Outcome(h) /\ listener'.uuid = h
    BY DEF take_next_sample
  <2>2. listener'.at # "idle"
    BY <2>1, Outcomes
  <2> QED
    BY <2>1, <2>2 DEF take_next_sample, Taken, TypeOK, history
<1>2. /\ h \in Elements(reader) /\ Elements(reader') = Elements(reader) \ {h}
      /\ Len(reader') = Len(reader) - 1
      /\ \A i, j \in DOMAIN reader' : i < j => reader'[i] < reader'[j]
  BY <1>1, TailElements, HeadTailProperties DEF ReaderInv
<1>3. /\ InReader = Elements(reader) /\ InReader' = Elements(reader')
      /\ InService = {} /\ InService' = {h} /\ Answered' = Answered
  BY <1>1 DEF InReader, Elements, InService, Answered
<1>4. ReaderInv'
  BY <1>2 DEF ReaderInv
<1>5. PlacesInv'
  BY <1>1, <1>2, <1>3 DEF PlacesInv
<1>6. AnswersInv'
  <2>1. /\ IsFiniteSet(InReader \ {h})
        /\ Cardinality(InReader \ {h}) = Cardinality(InReader) - 1
    BY <1>2, <1>3, FS_RemoveElement DEF AnswersInv
  <2> QED
    BY <1>1, <1>2, <1>3, <2>1 DEF AnswersInv
<1> QED
  BY <1>4, <1>5, <1>6

LEMMA ReplyPlaces ==
  ASSUME TypeOK, ReaderInv, PlacesInv, AnswersInv, reply
  PROVE  ReaderInv' /\ PlacesInv' /\ AnswersInv'
<1> DEFINE u == listener.uuid
<1>1. PICK a : /\ answers' = answers \cup {a}
               /\ a = [uuid |-> u, known |-> call(u).api # "other",
                       mode |-> IF call(u).api = "GET_MODE" THEN listener.mode ELSE "UNKNOWN"]
  BY DEF reply
<1>2. /\ listener.at = "reply" /\ listener'.at = "idle" /\ UNCHANGED <<sent, reader, dropped>>
  BY DEF reply, NoReply, history
<1>3. /\ InReader' = InReader /\ InService = {u} /\ InService' = {}
      /\ Answered' = Answered \cup {u}
  BY <1>1, <1>2 DEF InReader, InService, Answered
<1>4. ReaderInv'
  BY <1>2 DEF ReaderInv
<1>5. PlacesInv'
  BY <1>2, <1>3 DEF PlacesInv
<1>6. AnswersInv'
  <2>1. u \notin Answered /\ a \notin answers
    BY <1>1, <1>3 DEF PlacesInv, Answered
  <2>2. /\ IsFiniteSet(answers \cup {a})
        /\ Cardinality(answers \cup {a}) = Cardinality(answers) + 1
        /\ IsFiniteSet(Answered \cup {u})
        /\ Cardinality(Answered \cup {u}) = Cardinality(Answered) + 1
    BY <2>1, FS_AddElement DEF AnswersInv
  <2> QED
    BY <1>1, <1>2, <1>3, <2>2 DEF AnswersInv
<1> QED
  BY <1>4, <1>5, <1>6

LEMMA OtherPlaces ==
  ASSUME ReaderInv, PlacesInv, AnswersInv,
         UNCHANGED <<sent, reader, answers, dropped>>,
         listener'.uuid = listener.uuid, listener'.at = "idle" <=> listener.at = "idle"
  PROVE  ReaderInv' /\ PlacesInv' /\ AnswersInv'
<1>1. InReader' = InReader /\ InService' = InService /\ Answered' = Answered
  BY DEF InReader, InService, Answered
<1> QED
  BY <1>1 DEF ReaderInv, PlacesInv, AnswersInv

-----------------------------------------------------------------------------
LEMMA InitIInv == Init => IInv
<1> SUFFICES ASSUME Init PROVE IInv
  OBVIOUS
<1>1. /\ sent = << >> /\ reader = << >> /\ answers = {} /\ dropped = {}
      /\ listener.at = "idle" /\ Len(<< >>) = 0 /\ DOMAIN << >> = {}
  BY DEF Init, NoReply
<1>2. InReader = {} /\ InService = {} /\ Answered = {}
  BY <1>1 DEF InReader, InService, Answered
<1>3. ReaderInv /\ PlacesInv
  BY <1>1, <1>2 DEF ReaderInv, PlacesInv
<1>4. AnswersInv
  BY <1>1, <1>2, FS_EmptySet DEF AnswersInv
<1> QED
  BY <1>3, <1>4, InitTypeOK DEF IInv

LEMMA StepInductive == ASSUME IInv, [Next]_vars PROVE IInv'
<1> USE DEF IInv
<1>1. ASSUME NEW c \in Call, send(c) PROVE IInv'
  BY <1>1, SendTypeOK, SendPlaces
<1>2. CASE take_next_sample
  BY <1>2, ListenerTypeOK, TakePlaces DEF Listener
<1>3. CASE emit
  <2>1. listener'.uuid = listener.uuid /\ listener'.at = "reply" /\ listener.at = "emit"
    BY <1>3 DEF emit, TypeOK
  <2> QED
    BY <1>3, <2>1, ListenerTypeOK, OtherPlaces DEF Listener, emit, history
<1>4. CASE reply
  BY <1>4, ListenerTypeOK, ReplyPlaces DEF Listener
<1>5. ASSUME NEW w \in Threads, Work(w) PROVE IInv'
  BY <1>5, WorkTypeOK, OtherPlaces DEF Work, take_task, run_task, bridge
<1>6. CASE step \/ publish
  BY <1>6, PhysicsTypeOK, OtherPlaces DEF step, publish, bridge, history
<1>7. CASE UNCHANGED vars
  <2>1. TypeOK'
    BY <1>7 DEF TypeOK, vars, bridge, pool, robot, history
  <2> QED
    BY <1>7, <2>1, OtherPlaces DEF vars, bridge, history
<1> QED
  BY <1>1, <1>2, <1>3, <1>4, <1>5, <1>6, <1>7 DEF Next, Listener

-----------------------------------------------------------------------------
(* Handing over: where a uuid is found *)

One(b) == IF b THEN 1 ELSE 0

Found(s, P) == {i \in DOMAIN s : s[i] \in P}

LEMMA FoundFinite ==
  ASSUME NEW S, NEW s \in Seq(S), NEW P
  PROVE  IsFiniteSet(Found(s, P))
<1>1. Len(s) \in Int /\ DOMAIN s = 1 .. Len(s)
  BY LenProperties
<1>2. IsFiniteSet(DOMAIN s) /\ Found(s, P) \in SUBSET (DOMAIN s)
  BY <1>1, FS_Interval DEF Found
<1> QED
  BY <1>2, FS_Subset

LEMMA FoundInAppend ==
  ASSUME NEW S, NEW s \in Seq(S), NEW e \in S, NEW P
  PROVE  /\ IsFiniteSet(Found(s, P)) /\ IsFiniteSet(Found(Append(s, e), P))
         /\ Cardinality(Found(Append(s, e), P)) = Cardinality(Found(s, P)) + One(e \in P)
<1> DEFINE n == Len(s) + 1
<1>1. /\ Len(s) \in Nat /\ DOMAIN s = 1 .. Len(s) /\ DOMAIN Append(s, e) = 1 .. n
      /\ \A i \in 1 .. Len(s) : Append(s, e)[i] = s[i]
      /\ Append(s, e)[n] = e
  BY AppendProperties, LenProperties
<1>2. IsFiniteSet(Found(s, P)) /\ n \notin Found(s, P)
  <2>1. IsFiniteSet(Found(s, P))
    BY FoundFinite
  <2> QED
    BY <1>1, <2>1 DEF Found
<1>3. Cardinality(Found(s, P)) \in Nat
  BY <1>2, FS_CardinalityType
<1>4. CASE e \in P
  <2>1. Found(Append(s, e), P) = Found(s, P) \cup {n}
    BY <1>1, <1>4 DEF Found
  <2>2. /\ IsFiniteSet(Found(s, P) \cup {n})
        /\ Cardinality(Found(s, P) \cup {n}) = Cardinality(Found(s, P)) + 1
    BY <1>2, FS_AddElement
  <2> QED
    BY <1>2, <1>4, <2>1, <2>2 DEF One
<1>5. CASE e \notin P
  <2>1. Found(Append(s, e), P) = Found(s, P)
    BY <1>1, <1>5 DEF Found
  <2> QED
    BY <1>2, <1>3, <1>5, <2>1 DEF One
<1> QED
  BY <1>4, <1>5

LEMMA FoundInTail ==
  ASSUME NEW S, NEW s \in Seq(S), s # << >>, NEW P
  PROVE  Cardinality(Found(s, P)) = Cardinality(Found(Tail(s), P)) + One(Head(s) \in P)
<1>1. /\ Len(s) \in Nat /\ Len(s) > 0 /\ DOMAIN s = 1 .. Len(s) /\ Head(s) = s[1]
      /\ DOMAIN Tail(s) = 1 .. Len(s) - 1
      /\ \A i \in 1 .. Len(s) - 1 : Tail(s)[i] = s[i + 1]
  BY HeadTailProperties, LenProperties, EmptySeq
<1> DEFINE T == Found(Tail(s), P)
           F == Found(s, P) \ {1}
           f == [i \in T |-> i + 1]
<1>2. IsFiniteSet(T) /\ IsFiniteSet(F) /\ IsFiniteSet(Found(s, P))
  <2>1. Tail(s) \in Seq(S)
    BY HeadTailProperties
  <2>2. IsFiniteSet(T) /\ IsFiniteSet(Found(s, P))
    BY <2>1, FoundFinite
  <2> QED
    BY <2>2, FS_RemoveElement
<1>3. f \in Bijection(T, F)
  <2>1. \A i \in T : i \in 1 .. Len(s) - 1 /\ i + 1 \in F
    BY <1>1 DEF Found
  <2>2. ASSUME NEW k \in F PROVE \E i \in T : k = i + 1
    <3>1. k - 1 \in T /\ k = (k - 1) + 1
      BY <1>1 DEF Found
    <3> QED
      BY <3>1
  <2>3. f \in [T -> F] /\ \A i, j \in T : f[i] = f[j] => i = j
    BY <2>1
  <2>4. \A k \in F : \E i \in T : f[i] = k
    BY <2>2
  <2> HIDE DEF f
  <2> QED
    BY <2>3, <2>4 DEF Bijection, Injection, Surjection, IsInjective
<1>4. Cardinality(F) = Cardinality(T)
  BY <1>2, <1>3, FS_Bijection DEF ExistsBijection
<1>5. 1 \in Found(s, P) <=> Head(s) \in P
  BY <1>1 DEF Found
<1>6. /\ Cardinality(Found(s, P)) \in Nat
      /\ Cardinality(F) = IF 1 \in Found(s, P) THEN Cardinality(Found(s, P)) - 1
                                                ELSE Cardinality(Found(s, P))
  BY <1>2, FS_RemoveElement, FS_CardinalityType
<1> QED
  BY <1>4, <1>5, <1>6 DEF One

-----------------------------------------------------------------------------
(* What is on its way to the robot, or there *)

OnTheWay ==
  Elements(entered) \cup {tasks[i].uuid : i \in DOMAIN tasks}
    \cup {worker[w].uuid : w \in Threads}

\* Requests are handed over in the order of sending: nothing on its way is
\* newer than a request that the listener has not handed over yet.
LimitInv ==
  /\ OnTheWay \subseteq 0 .. Len(sent)
  /\ \A v \in OnTheWay, u \in InReader : v < u
  /\ listener.at = "emit" => \A v \in OnTheWay : v < listener.uuid
  /\ listener.at # "idle" => \A u \in InReader : listener.uuid < u

\* A task more.
LEMMA AppendOnTheWay ==
  ASSUME TypeOK, NEW t \in Task, tasks' = Append(tasks, t), UNCHANGED <<worker, entered>>
  PROVE  OnTheWay' \subseteq OnTheWay \cup {t.uuid}
<1>1. /\ Len(tasks) \in Nat /\ DOMAIN tasks' = 1 .. Len(tasks) + 1
      /\ DOMAIN tasks = 1 .. Len(tasks)
      /\ \A i \in 1 .. Len(tasks) : tasks'[i] = tasks[i]
      /\ tasks'[Len(tasks) + 1] = t
  BY AppendProperties, LenProperties DEF TypeOK
<1>2. \A i \in DOMAIN tasks' : i \in DOMAIN tasks \/ i = Len(tasks) + 1
  BY <1>1
<1>3. {tasks'[i].uuid : i \in DOMAIN tasks'}
        \subseteq {tasks[i].uuid : i \in DOMAIN tasks} \cup {t.uuid}
  BY <1>1, <1>2
<1>4. OnTheWay' = Elements(entered) \cup {tasks'[i].uuid : i \in DOMAIN tasks'}
                    \cup {worker[w].uuid : w \in Threads}
  BY DEF OnTheWay, Elements
<1> QED
  BY <1>3, <1>4 DEF OnTheWay

LEMMA WorkOnTheWay ==
  ASSUME TypeOK, NEW w \in Threads, Work(w)
  PROVE  OnTheWay' \subseteq OnTheWay \cup {0}
<1>0. tasks \in Seq(Task) /\ worker \in [Threads -> Task \cup {NoTask}]
      /\ entered \in Seq(0 .. MaxCalls) /\ NoTask.uuid = 0
  BY DEF TypeOK, NoTask
<1>1. CASE take_task(w)
  <2>1. /\ DOMAIN tasks' = 1 .. Len(tasks) - 1 /\ DOMAIN tasks = 1 .. Len(tasks)
        /\ Len(tasks) \in Nat /\ Len(tasks) > 0 /\ Head(tasks) = tasks[1]
        /\ \A i \in 1 .. Len(tasks) - 1 : tasks'[i] = tasks[i + 1]
        /\ worker' = [worker EXCEPT ![w] = Head(tasks)] /\ entered' = entered
    BY <1>0, <1>1, HeadTailProperties, LenProperties, EmptySeq DEF take_task
  <2>2. /\ \A i \in DOMAIN tasks' : i + 1 \in DOMAIN tasks /\ tasks'[i] = tasks[i + 1]
        /\ 1 \in DOMAIN tasks
    BY <2>1
  <2>3. \A i \in DOMAIN tasks' : tasks'[i].uuid \in OnTheWay
    BY <2>2 DEF OnTheWay
  <2>4. \A v \in Threads : worker'[v].uuid \in OnTheWay
    BY <1>0, <2>1, <2>2 DEF OnTheWay
  <2>5. /\ {tasks'[i].uuid : i \in DOMAIN tasks'} \subseteq OnTheWay
        /\ {worker'[v].uuid : v \in Threads} \subseteq OnTheWay
    BY <2>3, <2>4
  <2>6. Elements(entered)' \subseteq OnTheWay
    BY <2>1 DEF OnTheWay, Elements
  <2> QED
    BY <2>5, <2>6 DEF OnTheWay
<1>2. CASE run_task(w)
  <2>1. tasks' = tasks /\ worker' = [worker EXCEPT ![w] = NoTask]
    BY <1>2 DEF run_task
  <2>2. \A v \in Threads : worker'[v].uuid \in OnTheWay \cup {0}
    BY <1>0, <2>1 DEF OnTheWay
  <2>3. Elements(entered') \subseteq OnTheWay
    <3>1. CASE run_request(w)
      <4>1. PICK e \in 0 .. MaxCalls : entered' = Append(entered, e) /\ e = worker[w].uuid
        BY <1>0, <3>1, RpcAssumption DEF run_request, Task, Uuid
      <4> DEFINE E == 0 .. MaxCalls
      <4> HIDE DEF E
      <4>2. entered \in Seq(E) /\ e \in E
        BY <1>0 DEF E
      <4>3. Elements(Append(entered, e)) = Elements(entered) \cup {e}
        BY <4>2, AppendElements
      <4> QED
        BY <4>1, <4>3 DEF OnTheWay, Elements
    <3>2. CASE run_state(w) \/ run_ignored(w)
      BY <3>2 DEF run_state, run_ignored, OnTheWay
    <3> QED
      BY <1>2, <3>1, <3>2 DEF run_task
  <2>4. OnTheWay' = Elements(entered') \cup {tasks[i].uuid : i \in DOMAIN tasks}
                      \cup {worker'[v].uuid : v \in Threads}
    BY <2>1 DEF OnTheWay, Elements
  <2>5. {worker'[v].uuid : v \in Threads} \subseteq OnTheWay \cup {0}
    BY <2>2
  <2> QED
    BY <2>3, <2>4, <2>5 DEF OnTheWay
<1> QED
  BY <1>1, <1>2 DEF Work

LEMMA Published ==
  ASSUME TypeOK, publish
  PROVE  \E t \in Task : tasks' = Append(tasks, t) /\ t.kind = "state" /\ t.uuid = 0
<1>1. PICK t : /\ tasks' = Append(tasks, t)
               /\ t = [kind |-> "state", mode |-> mode, uuid |-> 0]
  BY DEF publish
<1>2. t \in Task
  BY <1>1 DEF Task, TypeOK
<1> QED
  BY <1>1, <1>2

\* What emit appends to the tasks.
LEMMA Emitted ==
  ASSUME TypeOK, PlacesInv, emit
  PROVE  /\ \E t \in Task :
              /\ tasks' = Append(tasks, t)
              /\ call(listener.uuid).api = "CHANGE_MODE"
                   => t.kind = "request" /\ t.uuid = listener.uuid
              /\ call(listener.uuid).api # "CHANGE_MODE" => t.kind = "ignored" /\ t.uuid = 0
         /\ listener.at = "emit" /\ listener'.at = "reply" /\ listener'.uuid = listener.uuid
         /\ listener.uuid \in 1 .. Len(sent)
         /\ UNCHANGED <<sent, reader, answers, worker, entered, dropped, overlapped>>
<1>1. listener.at = "emit" /\ listener'.at = "reply" /\ listener'.uuid = listener.uuid
  BY DEF emit, TypeOK
<1>2. PICK t : /\ tasks' = Append(tasks, t)
               /\ t = IF call(listener.uuid).api = "CHANGE_MODE"
                      THEN [kind |-> "request", mode |-> call(listener.uuid).mode,
                            uuid |-> listener.uuid]
                      ELSE [kind |-> "ignored", mode |-> "UNKNOWN", uuid |-> 0]
  BY DEF emit
<1>3. t \in Task
  BY <1>1, <1>2, ServedCall DEF Task, RobotMode
<1>4. listener.uuid \in 1 .. Len(sent)
  BY <1>1, ServedCall
<1>5. UNCHANGED <<sent, reader, answers, worker, entered, dropped, overlapped>>
  BY DEF emit, history
<1> QED
  BY <1>1, <1>2, <1>3, <1>4, <1>5

\* How send and take_next_sample change what is in the reader.
LEMMA SendReader ==
  ASSUME TypeOK, NEW c \in Call, send(c)
  PROVE  /\ Len(sent) \in Nat /\ Len(sent') = Len(sent) + 1
         /\ InReader' \subseteq InReader \cup {Len(sent) + 1}
<1> DEFINE kept == IF Full THEN Tail(reader) ELSE reader
<1>1. /\ Len(sent) \in Nat /\ Len(sent') = Len(sent) + 1 /\ Len(sent) + 1 \in Uuid
      /\ reader' = Append(kept, Len(sent) + 1) /\ reader \in Seq(Uuid) /\ Len(reader) \in Nat
  BY RpcAssumption, AppendProperties DEF TypeOK, send, Uuid
<1>2. kept \in Seq(Uuid) /\ Elements(kept) \subseteq Elements(reader)
  <2>1. CASE Full
    <3>1. reader # << >>
      BY <1>1, <2>1, RpcAssumption DEF Full
    <3>2. /\ Tail(reader) \in Seq(Uuid) /\ DOMAIN Tail(reader) = 1 .. Len(reader) - 1
          /\ DOMAIN reader = 1 .. Len(reader)
          /\ \A i \in 1 .. Len(reader) - 1 : Tail(reader)[i] = reader[i + 1]
      BY <1>1, <3>1, HeadTailProperties, LenProperties
    <3> QED
      BY <1>1, <2>1, <3>2 DEF Elements
  <2>2. CASE ~Full
    BY <1>1, <2>2
  <2> QED
    BY <2>1, <2>2
<1> HIDE DEF kept
<1>3. Elements(Append(kept, Len(sent) + 1)) = Elements(kept) \cup {Len(sent) + 1}
  BY <1>1, <1>2, AppendElements
<1> QED
  BY <1>1, <1>2, <1>3 DEF InReader, Elements

LEMMA TakeReader ==
  ASSUME TypeOK, ReaderInv, take_next_sample
  PROVE  LET h == Head(reader) IN
         /\ h \in InReader /\ InReader' = InReader \ {h} /\ \A u \in InReader' : h < u
         /\ listener.at = "idle" /\ listener'.uuid = h
         /\ listener'.at = Outcome(h)
         /\ UNCHANGED <<sent, answers, tasks, worker, entered, dropped, overlapped>>
<1> DEFINE h == Head(reader)
<1>1. /\ reader \in Seq(Uuid) /\ reader # << >> /\ reader' = Tail(reader)
      /\ listener.at = "idle" /\ listener'.uuid = h
      /\ listener'.at = Outcome(h)
      /\ UNCHANGED <<sent, answers, tasks, worker, entered, dropped, overlapped>>
  BY DEF take_next_sample, Taken, TypeOK, history, pool
<1>2. h \in Elements(reader) /\ Elements(reader') = Elements(reader) \ {h}
  BY <1>1, TailElements DEF ReaderInv
<1>3. \A u \in Elements(reader) : u = h \/ h < u
  <2>1. DOMAIN reader = 1 .. Len(reader) /\ Len(reader) \in Nat /\ h = reader[1]
    BY <1>1, LenProperties
  <2> QED
    BY <1>1, <2>1 DEF Elements, ReaderInv
<1> QED
  BY <1>1, <1>2, <1>3 DEF InReader, Elements

LEMMA InitLimit == Init => LimitInv
<1> SUFFICES ASSUME Init PROVE LimitInv
  OBVIOUS
<1>1. /\ \A i \in DOMAIN entered : entered[i] = 0
      /\ tasks = << >> /\ sent = << >> /\ reader = << >> /\ listener.at = "idle"
      /\ worker = [w \in Threads |-> NoTask] /\ NoTask.uuid = 0
  BY DEF Init, NoTask, NoReply
<1>2. OnTheWay \subseteq {0} /\ InReader = {} /\ Len(sent) = 0
  BY <1>1 DEF OnTheWay, Elements, InReader
<1> QED
  BY <1>1, <1>2 DEF LimitInv

LEMMA LimitInductive ==
  ASSUME IInv, LimitInv, [Next]_vars
  PROVE  LimitInv'
<1> USE DEF IInv
<1>0. /\ Len(sent) \in Nat /\ \A u \in InReader : u \in 1 .. Len(sent)
      /\ listener.at # "idle" => listener.uuid \in 1 .. Len(sent)
      /\ OnTheWay \subseteq 0 .. Len(sent)
  BY RpcAssumption DEF TypeOK, PlacesInv, InService, LimitInv
<1>1. ASSUME NEW c \in Call, send(c) PROVE LimitInv'
  <2>1. OnTheWay' = OnTheWay /\ listener' = listener
    BY <1>1 DEF send, pool, OnTheWay, Elements
  <2>2. Len(sent') = Len(sent) + 1 /\ \A u \in InReader' : u \in InReader \/ u = Len(sent) + 1
    BY <1>1, SendReader
  <2> QED
    BY <1>0, <2>1, <2>2 DEF LimitInv
<1>2. CASE take_next_sample
  <2>1. OnTheWay' = OnTheWay /\ sent' = sent
    BY <1>2, TakeReader DEF OnTheWay, Elements
  <2>2. PICK h \in InReader : /\ InReader' = InReader \ {h} /\ \A u \in InReader' : h < u
                              /\ listener'.uuid = h
    BY <1>2, TakeReader
  <2> QED
    BY <2>1, <2>2 DEF LimitInv
<1>3. CASE emit
  <2>1. PICK t \in Task : tasks' = Append(tasks, t) /\ t.uuid \in {0, listener.uuid}
    BY <1>3, Emitted
  <2>2. OnTheWay' \subseteq OnTheWay \cup {0, listener.uuid}
    BY <1>3, <2>1, AppendOnTheWay, Emitted
  <2>3. /\ listener.at = "emit" /\ listener'.at = "reply" /\ listener'.uuid = listener.uuid
        /\ sent' = sent /\ InReader' = InReader /\ listener.uuid \in 1 .. Len(sent)
    BY <1>3, Emitted DEF InReader
  <2> QED
    BY <1>0, <2>2, <2>3 DEF LimitInv
<1>4. CASE reply
  BY <1>4 DEF reply, NoReply, LimitInv, OnTheWay, Elements, InReader, pool, history
<1>5. ASSUME NEW w \in Threads, Work(w) PROVE LimitInv'
  <2>1. InReader' = InReader /\ UNCHANGED <<sent, listener>>
    BY <1>5 DEF Work, take_task, run_task, bridge, InReader
  <2>2. OnTheWay' \subseteq OnTheWay \cup {0}
    BY <1>5, WorkOnTheWay
  <2> QED
    BY <1>0, <2>1, <2>2 DEF LimitInv
<1>6. CASE step
  BY <1>6 DEF step, LimitInv, OnTheWay, Elements, InReader, bridge, pool, history
<1>7. CASE publish
  <2>1. PICK t \in Task : tasks' = Append(tasks, t) /\ t.uuid = 0
    BY <1>7, Published
  <2>2. OnTheWay' \subseteq OnTheWay \cup {0}
    BY <1>7, <2>1, AppendOnTheWay DEF publish
  <2>3. InReader' = InReader /\ UNCHANGED <<sent, listener>>
    BY <1>7 DEF publish, bridge, InReader
  <2> QED
    BY <1>0, <2>2, <2>3 DEF LimitInv
<1>8. CASE UNCHANGED vars
  BY <1>8 DEF vars, LimitInv, OnTheWay, Elements, InReader, bridge, pool, history
<1> QED
  BY <1>1, <1>2, <1>3, <1>4, <1>5, <1>6, <1>7, <1>8 DEF Next, Listener

-----------------------------------------------------------------------------
(* How often a request is on its way to the robot, or there *)

About(u) == {t \in Task : t.uuid = u}

Doing(ws, u) == {w \in Threads : ws[w].uuid = u}

\* Whereabouts, of any tasks, workers and entries.
Where(ts, ws, es, u) ==
  Cardinality(Found(ts, About(u))) + Cardinality(Doing(ws, u))
    + Cardinality(Found(es, {u}))

\* What a pool thread has in hand.
Load == Task \cup {NoTask}

LEMMA DoingChange ==
  ASSUME NEW ws, NEW ws2, NEW w \in Threads, NEW u \in Uuid, IsFiniteSet(Doing(ws, u)),
         \A v \in Threads \ {w} : ws2[v] = ws[v]
  PROVE  /\ IsFiniteSet(Doing(ws2, u))
         /\ Cardinality(Doing(ws2, u)) + One(w \in Doing(ws, u))
              = Cardinality(Doing(ws, u)) + One(w \in Doing(ws2, u))
<1> DEFINE old   == Doing(ws, u)
           after == Doing(ws2, u)
           rest  == old \ {w}
<1>1. /\ IsFiniteSet(rest) /\ Cardinality(rest) \in Nat
      /\ Cardinality(old) = Cardinality(rest) + One(w \in old)
  <2>1. /\ IsFiniteSet(old) /\ Cardinality(old) \in Nat /\ IsFiniteSet(rest)
        /\ Cardinality(rest) = IF w \in old THEN Cardinality(old) - 1 ELSE Cardinality(old)
        /\ Cardinality(rest) \in Nat
    BY FS_RemoveElement, FS_CardinalityType
  <2> QED
    BY <2>1 DEF One
<1>3. after = IF w \in after THEN rest \cup {w} ELSE rest
  <2>1. \A v \in Threads \ {w} : v \in after <=> v \in old
    BY DEF Doing
  <2>2. old \subseteq Threads /\ after \subseteq Threads
    BY DEF Doing
  <2> HIDE DEF old, after
  <2>3. after \ {w} = rest
    BY <2>1, <2>2
  <2> QED
    BY <2>3
<1>4. w \notin rest
  OBVIOUS
<1>5. /\ IsFiniteSet(rest \cup {w})
      /\ Cardinality(rest \cup {w}) = Cardinality(rest) + 1
  BY <1>1, <1>4, FS_AddElement
<1> HIDE DEF old, after, rest
<1>6. IsFiniteSet(after) /\ Cardinality(after) = Cardinality(rest) + One(w \in after)
  <2>1. CASE w \in after
    <3>1. after = rest \cup {w}
      BY <1>3, <2>1
    <3> QED
      BY <1>5, <2>1, <3>1 DEF One
  <2>2. CASE w \notin after
    <3>1. after = rest
      BY <1>3, <2>2
    <3> QED
      BY <1>1, <2>2, <3>1 DEF One
  <2> QED
    BY <2>1, <2>2
<1>7. Cardinality(after) + One(w \in old) = Cardinality(old) + One(w \in after)
  BY <1>1, <1>6 DEF One
<1> QED
  BY <1>6, <1>7 DEF old, after

LEMMA WhereIsNat ==
  ASSUME NEW ts \in Seq(Task), NEW ws, NEW es \in Seq(0 .. MaxCalls), NEW u \in Uuid,
         IsFiniteSet(Doing(ws, u))
  PROVE  /\ Cardinality(Found(ts, About(u))) \in Nat /\ Cardinality(Doing(ws, u)) \in Nat
         /\ Cardinality(Found(es, {u})) \in Nat
<1>1. IsFiniteSet(Found(ts, About(u))) /\ IsFiniteSet(Found(es, {u}))
  BY FoundFinite
<1> QED
  BY <1>1, FS_CardinalityType

LEMMA WhereEmitted ==
  ASSUME NEW ts \in Seq(Task), NEW ws, NEW es \in Seq(0 .. MaxCalls), NEW u \in Uuid,
         NEW t \in Task, IsFiniteSet(Doing(ws, u))
  PROVE  Where(Append(ts, t), ws, es, u) = Where(ts, ws, es, u) + One(t.uuid = u)
<1>1. Cardinality(Found(Append(ts, t), About(u)))
        = Cardinality(Found(ts, About(u))) + One(t \in About(u))
  BY FoundInAppend
<1>2. t \in About(u) <=> t.uuid = u
  BY DEF About
<1> QED
  BY <1>1, <1>2, WhereIsNat DEF Where, One

LEMMA WhereTaken ==
  ASSUME NEW ts \in Seq(Task), NEW ws \in [Threads -> Load], NEW es \in Seq(0 .. MaxCalls),
         NEW u \in Uuid, NEW w \in Threads, IsFiniteSet(Doing(ws, u)),
         ts # << >>, ws[w] = NoTask
  PROVE  LET ws2 == [ws EXCEPT ![w] = Head(ts)] IN
         /\ IsFiniteSet(Doing(ws2, u))
         /\ Where(Tail(ts), ws2, es, u) = Where(ts, ws, es, u)
<1> DEFINE ws2 == [ws EXCEPT ![w] = Head(ts)]
<1>1. Head(ts) \in Task /\ Tail(ts) \in Seq(Task)
  BY HeadTailProperties
<1>2. Cardinality(Found(ts, About(u)))
        = Cardinality(Found(Tail(ts), About(u))) + One(Head(ts) \in About(u))
  BY FoundInTail
<1>3. Head(ts) \in About(u) <=> Head(ts).uuid = u
  BY <1>1 DEF About
<1>4. /\ IsFiniteSet(Doing(ws2, u))
      /\ Cardinality(Doing(ws2, u)) + One(w \in Doing(ws, u))
           = Cardinality(Doing(ws, u)) + One(w \in Doing(ws2, u))
  <2>1. \A v \in Threads \ {w} : ws2[v] = ws[v]
    OBVIOUS
  <2> HIDE DEF ws2
  <2> QED
    BY <2>1, DoingChange
<1>5. w \notin Doing(ws, u) /\ (w \in Doing(ws2, u) <=> Head(ts).uuid = u)
  BY RpcAssumption DEF NoTask, Uuid, Doing
<1> HIDE DEF ws2
<1>6. /\ Cardinality(Found(ts, About(u))) \in Nat /\ Cardinality(Doing(ws, u)) \in Nat
      /\ Cardinality(Found(Tail(ts), About(u))) \in Nat /\ Cardinality(Doing(ws2, u)) \in Nat
      /\ Cardinality(Found(es, {u})) \in Nat
  BY <1>1, <1>4, WhereIsNat
<1>7. Where(Tail(ts), ws2, es, u) = Where(ts, ws, es, u)
  BY <1>2, <1>3, <1>4, <1>5, <1>6 DEF Where, One
<1> QED
  BY <1>4, <1>7 DEF ws2

LEMMA WhereFinished ==
  ASSUME NEW ts \in Seq(Task), NEW ws \in [Threads -> Load], NEW es \in Seq(0 .. MaxCalls),
         NEW u \in Uuid, NEW w \in Threads, IsFiniteSet(Doing(ws, u)),
         ws[w].uuid \in 0 .. MaxCalls
  PROVE  LET ws2 == [ws EXCEPT ![w] = NoTask] IN
         /\ IsFiniteSet(Doing(ws2, u))
         /\ Where(ts, ws2, Append(es, ws[w].uuid), u) = Where(ts, ws, es, u)
         /\ ws[w].uuid = 0 => Where(ts, ws2, es, u) = Where(ts, ws, es, u)
<1> DEFINE ws2 == [ws EXCEPT ![w] = NoTask]
           e   == ws[w].uuid
           E   == 0 .. MaxCalls
<1>1. /\ IsFiniteSet(Doing(ws2, u))
      /\ Cardinality(Doing(ws2, u)) + One(w \in Doing(ws, u))
           = Cardinality(Doing(ws, u)) + One(w \in Doing(ws2, u))
  <2>1. \A v \in Threads \ {w} : ws2[v] = ws[v]
    OBVIOUS
  <2> HIDE DEF ws2
  <2> QED
    BY <2>1, DoingChange
<1>2. w \notin Doing(ws2, u) /\ (w \in Doing(ws, u) <=> e = u) /\ 0 # u
  BY RpcAssumption DEF NoTask, Uuid, Doing
<1>3. es \in Seq(E) /\ e \in E
  OBVIOUS
<1>6. /\ Cardinality(Found(ts, About(u))) \in Nat /\ Cardinality(Doing(ws, u)) \in Nat
      /\ Cardinality(Doing(ws2, u)) \in Nat
      /\ Cardinality(Found(es, {u})) \in Nat
  BY <1>1, <1>3, WhereIsNat
<1> HIDE DEF ws2, e, E
<1>4. Cardinality(Found(Append(es, e), {u})) = Cardinality(Found(es, {u})) + One(e \in {u})
  BY <1>3, FoundInAppend
<1>7. /\ Where(ts, ws2, Append(es, e), u) = Where(ts, ws, es, u)
      /\ e = 0 => Where(ts, ws2, es, u) = Where(ts, ws, es, u)
  BY <1>1, <1>2, <1>4, <1>6 DEF Where, One
<1> QED
  BY <1>1, <1>7 DEF ws2, e

-----------------------------------------------------------------------------
(* Handing over *)

\* The requests the robot has, or is going to get.
Handed ==
  {u \in 1 .. Len(sent) :
     /\ call(u).api = "CHANGE_MODE"
     /\ u \in Answered \/ (u \in InService /\ listener.at = "reply")}

HandedInv ==
  \A u \in Uuid :
    /\ IsFiniteSet(Doing(worker, u))
    /\ Where(tasks, worker, entered, u) = One(u \in Handed)

LEMMA InitHanded == Init => HandedInv
<1> SUFFICES ASSUME Init, NEW u \in Uuid
             PROVE  /\ IsFiniteSet(Doing(worker, u))
                    /\ Where(tasks, worker, entered, u) = One(u \in Handed)
  BY DEF HandedInv
<1>1. /\ \A i \in DOMAIN entered : entered[i] = 0
      /\ tasks = << >> /\ sent = << >>
      /\ worker = [w \in Threads |-> NoTask] /\ NoTask.uuid = 0 /\ u # 0
  BY RpcAssumption DEF Init, NoTask, Uuid
<1>2. Found(tasks, About(u)) = {} /\ Doing(worker, u) = {} /\ Found(entered, {u}) = {}
  BY <1>1 DEF Found, Doing
<1>3. u \notin Handed
  BY <1>1 DEF Handed
<1> QED
  BY <1>2, <1>3, FS_EmptySet DEF Where, One

\* A request that is new or waiting has not been handed over.
LEMMA HandedInductive ==
  ASSUME IInv, LimitInv, HandedInv, [Next]_vars
  PROVE  HandedInv'
<1> USE DEF IInv
<1>0. /\ worker \in [Threads -> Load] /\ tasks \in Seq(Task) /\ entered \in Seq(0 .. MaxCalls)
      /\ Len(sent) \in Nat /\ Answered \cup InService \subseteq 1 .. Len(sent)
  BY DEF TypeOK, Load, PlacesInv
<1>1. ASSUME Handed' = Handed, UNCHANGED pool, UNCHANGED entered PROVE HandedInv'
  BY <1>1 DEF HandedInv, pool
<1>2. ASSUME NEW c \in Call, send(c) PROVE HandedInv'
  <2>1. /\ Len(sent') = Len(sent) + 1 /\ \A i \in 1 .. Len(sent) : sent'[i] = sent[i]
        /\ UNCHANGED <<listener, answers, pool, entered>>
    BY <1>2, AppendProperties DEF send, TypeOK
  <2>2. InService' = InService /\ Answered' = Answered
    BY <2>1 DEF InService, Answered
  <2>3. Handed' = Handed
    BY <1>0, <2>1, <2>2 DEF Handed, call
  <2> QED
    BY <1>1, <2>1, <2>3
<1>3. CASE take_next_sample
  <2>1. PICK h \in InReader :
             /\ InReader' = InReader \ {h} /\ listener.at = "idle" /\ listener'.uuid = h
             /\ listener'.at = Outcome(h)
             /\ UNCHANGED <<sent, answers, pool, entered>>
    BY <1>3, TakeReader DEF pool
  <2>2. InService = {} /\ InService' = {h} /\ Answered' = Answered
    <3>1. listener'.at # "idle"
      BY <2>1, Outcomes
    <3> QED
      BY <2>1, <3>1 DEF InService, Answered
  <2>3. listener'.at = "reply" => call(h).api # "CHANGE_MODE"
    BY <2>1, Outcomes
  <2>4. Handed' = Handed
    BY <2>1, <2>2, <2>3 DEF Handed, call
  <2> QED
    BY <1>1, <2>1, <2>4
<1>4. CASE emit
  <2> DEFINE n == listener.uuid
             asks == call(n).api = "CHANGE_MODE"
  <2>1. PICK t \in Task : /\ tasks' = Append(tasks, t)
                          /\ asks => t.kind = "request" /\ t.uuid = n
                          /\ ~asks => t.kind = "ignored" /\ t.uuid = 0
    BY <1>4, Emitted
  <2>2. /\ listener.at = "emit" /\ listener'.at = "reply" /\ listener'.uuid = n
        /\ n \in 1 .. Len(sent) /\ UNCHANGED <<sent, answers, worker, entered>>
    BY <1>4, Emitted
  <2>3. InService = {n} /\ InService' = {n} /\ Answered' = Answered
    BY <2>2 DEF InService, Answered
  <2>4. n \notin Answered
    BY <2>3 DEF PlacesInv
  <2>5. n \notin Handed /\ Handed' = IF asks THEN Handed \cup {n} ELSE Handed
    BY <2>2, <2>3, <2>4 DEF Handed, call
  <2>6. ASSUME NEW u \in Uuid
        PROVE  Where(tasks', worker', entered', u) = One(u \in Handed')
    <3>1. /\ IsFiniteSet(Doing(worker, u))
          /\ Where(tasks, worker, entered, u) = One(u \in Handed)
      BY DEF HandedInv
    <3>2. Where(Append(tasks, t), worker, entered, u)
            = Where(tasks, worker, entered, u) + One(t.uuid = u)
      BY <1>0, <3>1, WhereEmitted
    <3>3. One(u \in Handed) + One(t.uuid = u) = One(u \in Handed')
      BY <2>1, <2>5, RpcAssumption DEF One, Uuid
    <3> QED
      BY <2>1, <2>2, <3>1, <3>2, <3>3
  <2> QED
    BY <2>2, <2>6 DEF HandedInv
<1>5. CASE reply
  <2>1. PICK a :
             /\ answers' = answers \cup {a}
             /\ a = [uuid |-> listener.uuid, known |-> call(listener.uuid).api # "other",
                     mode |-> IF call(listener.uuid).api = "GET_MODE" THEN listener.mode
                                                                    ELSE "UNKNOWN"]
    BY <1>5 DEF reply
  <2>2. /\ listener.at = "reply" /\ listener'.at = "idle" /\ UNCHANGED <<sent, pool, entered>>
    BY <1>5 DEF reply, NoReply, history
  <2>3. /\ InService = {listener.uuid} /\ InService' = {}
        /\ Answered' = Answered \cup {listener.uuid}
    BY <2>1, <2>2 DEF InService, Answered
  <2>4. Handed' = Handed
    BY <2>2, <2>3 DEF Handed, call
  <2> QED
    BY <1>1, <2>2, <2>4
<1>6. ASSUME UNCHANGED <<sent, listener, answers>> PROVE Handed' = Handed
  BY <1>6 DEF Handed, call, Answered, InService
<1>7. ASSUME NEW w \in Threads, take_task(w) PROVE HandedInv'
  <2>1. /\ worker[w] = NoTask /\ tasks # << >> /\ tasks' = Tail(tasks)
        /\ worker' = [worker EXCEPT ![w] = Head(tasks)]
        /\ UNCHANGED <<sent, listener, answers, entered>>
    BY <1>7 DEF take_task, bridge
  <2>2. ASSUME NEW u \in Uuid
        PROVE  /\ IsFiniteSet(Doing(worker', u))
               /\ Where(tasks', worker', entered', u) = Where(tasks, worker, entered, u)
    <3>1. IsFiniteSet(Doing(worker, u))
      BY DEF HandedInv
    <3>2. LET ws2 == [worker EXCEPT ![w] = Head(tasks)] IN
          /\ IsFiniteSet(Doing(ws2, u))
          /\ Where(Tail(tasks), ws2, entered, u) = Where(tasks, worker, entered, u)
      BY <1>0, <2>1, <3>1, WhereTaken
    <3> QED
      BY <2>1, <3>2
  <2> QED
    BY <1>6, <2>1, <2>2 DEF HandedInv
<1>8. ASSUME NEW w \in Threads, run_task(w) PROVE HandedInv'
  <2>1. /\ worker' = [worker EXCEPT ![w] = NoTask]
        /\ UNCHANGED <<sent, listener, answers, tasks>>
    BY <1>8 DEF run_task
  <2>2. /\ worker[w].uuid \in 0 .. MaxCalls
        /\ \/ entered' = Append(entered, worker[w].uuid)
           \/ entered' = entered /\ worker[w].uuid = 0
    <3>1. worker[w] \in Task \cup {NoTask}
      BY DEF TypeOK
    <3>2. worker[w].uuid \in 0 .. MaxCalls
      BY <3>1, RpcAssumption DEF Task, NoTask, Uuid
    <3>3. worker[w].kind \in {"state", "ignored"} => worker[w].uuid = 0
      BY <3>1 DEF Task, NoTask
    <3> QED
      BY <1>8, <3>2, <3>3 DEF run_task, run_request, run_state, run_ignored
  <2>3. ASSUME NEW u \in Uuid
        PROVE  /\ IsFiniteSet(Doing(worker', u))
               /\ Where(tasks', worker', entered', u) = Where(tasks, worker, entered, u)
    <3>1. IsFiniteSet(Doing(worker, u))
      BY DEF HandedInv
    <3>2. LET ws2 == [worker EXCEPT ![w] = NoTask] IN
          /\ IsFiniteSet(Doing(ws2, u))
          /\ Where(tasks, ws2, Append(entered, worker[w].uuid), u)
               = Where(tasks, worker, entered, u)
          /\ worker[w].uuid = 0
               => Where(tasks, ws2, entered, u) = Where(tasks, worker, entered, u)
      BY <1>0, <2>2, <3>1, WhereFinished
    <3> QED
      BY <2>1, <2>2, <3>2
  <2> QED
    BY <1>6, <2>1, <2>3 DEF HandedInv
<1>9. CASE step
  BY <1>1, <1>6, <1>9 DEF step, bridge, history
<1>10. CASE publish
  <2>1. PICK t \in Task : tasks' = Append(tasks, t) /\ t.uuid = 0
    BY <1>10, Published
  <2>2. UNCHANGED <<sent, listener, answers, worker, entered>>
    BY <1>10 DEF publish, bridge
  <2>3. ASSUME NEW u \in Uuid
        PROVE  Where(tasks', worker', entered', u) = Where(tasks, worker, entered, u)
    <3>1. /\ IsFiniteSet(Doing(worker, u))
          /\ Where(tasks, worker, entered, u) = One(u \in Handed)
      BY DEF HandedInv
    <3>2. Where(Append(tasks, t), worker, entered, u)
            = Where(tasks, worker, entered, u) + One(t.uuid = u)
      BY <1>0, <3>1, WhereEmitted
    <3>3. One(u \in Handed) + One(t.uuid = u) = One(u \in Handed)
      BY <2>1, RpcAssumption DEF One, Uuid
    <3> QED
      BY <2>1, <2>2, <3>1, <3>2, <3>3
  <2> QED
    BY <1>6, <2>2, <2>3 DEF HandedInv
<1>11. CASE UNCHANGED vars
  BY <1>1, <1>6, <1>11 DEF vars, bridge, history
<1> QED
  BY <1>2, <1>3, <1>4, <1>5, <1>7, <1>8, <1>9, <1>10, <1>11 DEF Next, Listener, Work

LEMMA HandedIsOnce == ASSUME IInv, HandedInv PROVE HandedOverOnce
<1> SUFFICES ASSUME NEW u \in 1 .. Len(sent)
             PROVE  Whereabouts(u) = One(u \in Handed)
  BY DEF HandedOverOnce, Handed, One
<1>1. u \in Uuid
  BY RpcAssumption DEF IInv, TypeOK, Uuid
<1>2. Where(tasks, worker, entered, u) = One(u \in Handed)
  BY <1>1 DEF HandedInv
<1>3. {i \in DOMAIN tasks : tasks[i].uuid = u} = Found(tasks, About(u))
  <2>1. \A i \in DOMAIN tasks : tasks[i] \in Task
    BY ElementOfSeq, LenProperties DEF IInv, TypeOK
  <2> QED
    BY <2>1 DEF Found, About
<1>4. {i \in DOMAIN entered : entered[i] = u} = Found(entered, {u})
  BY DEF Found
<1> QED
  BY <1>2, <1>3, <1>4 DEF Whereabouts, Where, Doing

-----------------------------------------------------------------------------
(* Order *)

\* While no two tasks have been running at once, what entered the log is older
\* than what a thread runs, and that is older than what waits in the pool.
EnteredInOrder == \A i, j \in DOMAIN entered : i < j => entered[i] < entered[j]

RunsAlone == \A v, w \in Threads : worker[v] # NoTask /\ worker[w] # NoTask => v = w

RunsNewest ==
  \A w \in Threads : worker[w].kind = "request" =>
    \A i \in DOMAIN entered : entered[i] < worker[w].uuid

WaitsInOrder ==
  \A k \in DOMAIN tasks : tasks[k].kind = "request" =>
    /\ \A i \in DOMAIN entered : entered[i] < tasks[k].uuid
    /\ \A w \in Threads : worker[w].uuid < tasks[k].uuid
    /\ \A j \in DOMAIN tasks : j < k => tasks[j].uuid < tasks[k].uuid

OrderInv == ~overlapped => EnteredInOrder /\ RunsAlone /\ RunsNewest /\ WaitsInOrder

LEMMA InitOrder == Init => OrderInv
<1> SUFFICES ASSUME Init PROVE OrderInv
  OBVIOUS
<1>1. EnteredInOrder
  <2>1. log = << >> \/ log = <<"PREPARE">>
    BY DEF Init, Robot!Init
  <2>2. DOMAIN entered = DOMAIN log
    BY DEF Init
  <2>3. DOMAIN log \subseteq {1}
    BY <2>1
  <2> QED
    BY <2>2, <2>3 DEF EnteredInOrder
<1> QED
  BY <1>1 DEF Init, NoTask, RunsAlone, RunsNewest, WaitsInOrder, OrderInv

\* A task that waits last: a mode request newer than all, or no mode request.
LEMMA AppendOrder ==
  ASSUME TypeOK, OrderInv, NEW t \in Task, tasks' = Append(tasks, t),
         t.kind = "request" => \A v \in OnTheWay : v < t.uuid,
         UNCHANGED <<worker, entered, overlapped>>
  PROVE  OrderInv'
<1>1. /\ Len(tasks) \in Nat /\ DOMAIN tasks' = 1 .. Len(tasks) + 1
      /\ DOMAIN tasks = 1 .. Len(tasks)
      /\ \A i \in 1 .. Len(tasks) : tasks'[i] = tasks[i]
      /\ tasks'[Len(tasks) + 1] = t
  BY AppendProperties, LenProperties DEF TypeOK
<1>2. ASSUME WaitsInOrder PROVE WaitsInOrder'
  <2> SUFFICES ASSUME NEW k \in DOMAIN tasks', tasks'[k].kind = "request"
               PROVE  /\ \A i \in DOMAIN entered : entered[i] < tasks'[k].uuid
                      /\ \A w \in Threads : worker[w].uuid < tasks'[k].uuid
                      /\ \A j \in DOMAIN tasks' : j < k => tasks'[j].uuid < tasks'[k].uuid
    BY DEF WaitsInOrder
  <2>1. CASE k = Len(tasks) + 1
    <3>1. \A j \in DOMAIN tasks' : j < k => j \in DOMAIN tasks /\ tasks'[j] = tasks[j]
      BY <1>1, <2>1
    <3> QED
      BY <1>1, <2>1, <3>1 DEF OnTheWay, Elements
  <2>2. CASE k \in DOMAIN tasks
    <3>1. \A j \in DOMAIN tasks' : j < k => j \in DOMAIN tasks /\ tasks'[j] = tasks[j]
      BY <1>1, <2>2
    <3> QED
      BY <1>1, <1>2, <2>2, <3>1 DEF WaitsInOrder
  <2> QED
    BY <1>1, <2>1, <2>2
<1> QED
  BY <1>2 DEF OrderInv, EnteredInOrder, RunsAlone, RunsNewest

LEMMA OrderInductive ==
  ASSUME IInv, LimitInv, OrderInv, [Next]_vars
  PROVE  OrderInv'
<1> USE DEF IInv
<1>0. /\ worker \in [Threads -> Task \cup {NoTask}] /\ tasks \in Seq(Task)
      /\ entered \in Seq(0 .. MaxCalls) /\ NoTask.uuid = 0 /\ NoTask.kind = "none"
  BY DEF TypeOK, NoTask
<1>0a. \A k \in DOMAIN tasks : tasks[k].kind = "request" => tasks[k].uuid > 0
  <2>1. \A k \in DOMAIN tasks : tasks[k] \in Task
    BY <1>0, ElementOfSeq, LenProperties
  <2>2. \A t \in Task : t.kind = "request" => t.uuid > 0
    BY RpcAssumption DEF Task, Uuid
  <2> QED
    BY <2>1, <2>2
<1>1. ASSUME UNCHANGED <<tasks, worker, entered, overlapped>> PROVE OrderInv'
  BY <1>1 DEF OrderInv, EnteredInOrder, RunsAlone, RunsNewest, WaitsInOrder
<1>2. CASE emit
  <2>1. PICK t \in Task : /\ tasks' = Append(tasks, t)
                          /\ t.kind = "request" => t.uuid = listener.uuid
    BY <1>2, Emitted
  <2>2. listener.at = "emit" /\ UNCHANGED <<worker, entered, overlapped>>
    BY <1>2, Emitted
  <2> QED
    BY <2>1, <2>2, AppendOrder DEF LimitInv
<1>3. CASE publish
  <2>1. PICK t \in Task : tasks' = Append(tasks, t) /\ t.kind = "state"
    BY <1>3, Published
  <2> QED
    BY <1>3, <2>1, AppendOrder DEF publish
<1>4. ASSUME NEW w \in Threads, take_task(w) PROVE OrderInv'
  <2> SUFFICES ASSUME ~overlapped' PROVE OrderInv'
    BY DEF OrderInv
  <2>1. /\ ~overlapped /\ \A v \in Threads : worker[v] = NoTask
        /\ worker' = [worker EXCEPT ![w] = Head(tasks)] /\ entered' = entered
    BY <1>4 DEF take_task
  <2>2. /\ DOMAIN tasks' = 1 .. Len(tasks) - 1 /\ DOMAIN tasks = 1 .. Len(tasks)
        /\ Len(tasks) \in Nat /\ Len(tasks) > 0 /\ Head(tasks) = tasks[1]
        /\ \A i \in 1 .. Len(tasks) - 1 : tasks'[i] = tasks[i + 1]
    BY <1>0, <1>4, HeadTailProperties, LenProperties, EmptySeq DEF take_task
  <2>3. /\ \A i \in DOMAIN tasks' : i + 1 \in DOMAIN tasks /\ tasks'[i] = tasks[i + 1]
                                    /\ 1 < i + 1
        /\ 1 \in DOMAIN tasks
    BY <2>2
  <2>4. \A v \in Threads : worker'[v] = IF v = w THEN tasks[1] ELSE NoTask
    BY <1>0, <2>1, <2>2
  <2>5. EnteredInOrder /\ RunsAlone' /\ RunsNewest'
    BY <1>0, <2>1, <2>3, <2>4 DEF OrderInv, EnteredInOrder, RunsAlone, RunsNewest, WaitsInOrder
  <2>6. ASSUME NEW k \in DOMAIN tasks', tasks'[k].kind = "request"
        PROVE  /\ \A i \in DOMAIN entered : entered[i] < tasks'[k].uuid
               /\ \A v \in Threads : worker'[v].uuid < tasks'[k].uuid
               /\ \A j \in DOMAIN tasks' : j < k => tasks'[j].uuid < tasks'[k].uuid
    <3>1. /\ \A i \in DOMAIN entered : entered[i] < tasks[k + 1].uuid
          /\ \A v \in Threads : worker[v].uuid < tasks[k + 1].uuid
          /\ \A j \in DOMAIN tasks : j < k + 1 => tasks[j].uuid < tasks[k + 1].uuid
      BY <2>1, <2>3, <2>6 DEF OrderInv, WaitsInOrder
    <3>2. \A v \in Threads : worker'[v].uuid < tasks'[k].uuid
      BY <2>1, <2>3, <2>4, <3>1
    <3>3. \A j \in DOMAIN tasks' : j < k => j + 1 < k + 1
      BY <2>2
    <3> QED
      BY <2>3, <3>1, <3>2, <3>3
  <2> QED
    BY <2>1, <2>5, <2>6 DEF OrderInv, EnteredInOrder, WaitsInOrder
<1>5. ASSUME NEW w \in Threads, run_task(w) PROVE OrderInv'
  <2> SUFFICES ASSUME ~overlapped, EnteredInOrder, RunsAlone, RunsNewest, WaitsInOrder
               PROVE  EnteredInOrder' /\ RunsAlone' /\ RunsNewest' /\ WaitsInOrder'
    BY <1>5 DEF OrderInv, run_task
  <2>1. /\ worker' = [worker EXCEPT ![w] = NoTask] /\ tasks' = tasks
        /\ worker[w] # NoTask
    BY <1>0, <1>5 DEF run_task, run_request, run_state, run_ignored
  <2>2. \A v \in Threads : worker'[v] = NoTask
    BY <1>0, <2>1 DEF RunsAlone
  <2>3. RunsAlone' /\ RunsNewest'
    BY <1>0, <2>2 DEF RunsAlone, RunsNewest
  <2>4. CASE run_request(w)
    <3>1. PICK e \in 0 .. MaxCalls : entered' = Append(entered, e) /\ e = worker[w].uuid
      BY <1>0, <2>4, RpcAssumption DEF run_request, Task, Uuid
    <3>2. /\ Len(entered) \in Nat /\ DOMAIN entered' = 1 .. Len(entered) + 1
          /\ DOMAIN entered = 1 .. Len(entered)
          /\ \A i \in 1 .. Len(entered) : entered'[i] = entered[i]
          /\ entered'[Len(entered) + 1] = e
      BY <1>0, <3>1, AppendProperties, LenProperties
    <3>3. EnteredInOrder'
      <4>1. \A i \in DOMAIN entered : entered[i] < e
        BY <2>4, <3>1 DEF run_request, RunsNewest
      <4> QED
        BY <3>2, <4>1 DEF EnteredInOrder
    <3>4. ASSUME NEW k \in DOMAIN tasks, tasks[k].kind = "request"
          PROVE  /\ \A i \in DOMAIN entered' : entered'[i] < tasks[k].uuid
                 /\ \A v \in Threads : worker'[v].uuid < tasks[k].uuid
                 /\ \A j \in DOMAIN tasks : j < k => tasks[j].uuid < tasks[k].uuid
      <4>1. tasks[k].uuid > 0
        BY <1>0a, <3>4
      <4>2. /\ \A i \in DOMAIN entered : entered[i] < tasks[k].uuid
            /\ e < tasks[k].uuid
            /\ \A j \in DOMAIN tasks : j < k => tasks[j].uuid < tasks[k].uuid
        BY <3>1, <3>4 DEF WaitsInOrder
      <4>3. \A i \in DOMAIN entered' : i \in DOMAIN entered \/ i = Len(entered) + 1
        BY <3>2
      <4> QED
        BY <1>0, <2>2, <3>2, <4>1, <4>2, <4>3
    <3> QED
      BY <2>1, <2>3, <3>3, <3>4 DEF WaitsInOrder
  <2>5. CASE run_state(w) \/ run_ignored(w)
    <3>1. entered' = entered
      BY <2>5 DEF run_state, run_ignored
    <3>2. ASSUME NEW k \in DOMAIN tasks, tasks[k].kind = "request"
          PROVE  \A v \in Threads : worker'[v].uuid < tasks[k].uuid
      <4>1. tasks[k].uuid > 0
        BY <1>0a, <3>2
      <4> QED
        BY <1>0, <2>2, <4>1
    <3> QED
      BY <2>1, <2>3, <3>1, <3>2 DEF WaitsInOrder, EnteredInOrder
  <2> QED
    BY <1>5, <2>4, <2>5 DEF run_task
<1> QED
  BY <1>1, <1>2, <1>3, <1>4, <1>5
     DEF Next, Listener, Work, send, take_next_sample, reply, step, vars, pool, history

-----------------------------------------------------------------------------
(* The theorems *)

\* The inductive invariant holds in every reachable state.
THEOREM Invariance == Spec => []IInv
  BY InitIInv, StepInductive, PTL DEF Spec

\* Type correctness: every answer, task and log entry is about a request.
THEOREM TypeCorrect == Spec => []TypeOK
<1>1. IInv => TypeOK
  BY DEF IInv
<1> QED
  BY <1>1, Invariance, PTL

\* Every request sent is in one place: waiting, in service, answered, once, or
\* pushed out of the reader's history.
THEOREM RequestsAreKept == Spec => []EachRequestOnce
<1>1. IInv => EachRequestOnce
  BY DEF IInv, PlacesInv, AnswersInv, EachRequestOnce
<1> QED
  BY <1>1, Invariance, PTL

\* Requests are handed over in the order of sending, none of them twice.
THEOREM HandingOver == Spec => [](LimitInv /\ HandedInv)
<1>1. Init => LimitInv /\ HandedInv
  BY InitLimit, InitHanded
<1>2. IInv /\ LimitInv /\ HandedInv /\ [Next]_vars => LimitInv' /\ HandedInv'
  BY LimitInductive, HandedInductive
<1> QED
  BY <1>1, <1>2, Invariance, PTL DEF Spec

\* An answered CHANGE_MODE is on its way to the robot or there, exactly once.
THEOREM HandedOver == Spec => []HandedOverOnce
<1>1. IInv /\ LimitInv /\ HandedInv => HandedOverOnce
  BY HandedIsOnce
<1> QED
  BY <1>1, Invariance, HandingOver, PTL

\* As long as the pool runs one task at a time, mode requests reach the robot
\* in the order of sending.
THEOREM OrderIsKept == Spec => []RequestsKeepOrder
<1>1. IInv /\ LimitInv /\ OrderInv /\ [Next]_vars => OrderInv'
  BY OrderInductive
<1>2. OrderInv => RequestsKeepOrder
  BY DEF OrderInv, EnteredInOrder, RequestsKeepOrder
<1> QED
  BY <1>1, <1>2, InitOrder, Invariance, HandingOver, PTL DEF Spec
=============================================================================
