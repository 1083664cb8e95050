----------------------------- MODULE BallProofs -----------------------------
(***************************************************************************)
(* The Supervisor's promises about the ball.  Packets carry no history, so *)
(* what it missed it can only tell from two packets that differ: a kick-   *)
(* off is never missed because any two packets of the same state and half  *)
(* have a goal between them, unless nothing but penalties lies between.    *)
(***************************************************************************)
EXTENDS SupervisorProofs

-----------------------------------------------------------------------------
(* The inductive invariant *)

\* The packets there still are, the match itself among them.
Seen ==
  wire \cup {game}
    \cup (IF job.at = "idle" THEN {} ELSE {job.pkt})
    \cup (IF prev_ = NoPacket THEN {} ELSE {prev_})

\* What is true of two packets of one match, e no older than d.
Before(d, e) ==
  /\ d.since <= e.since
  /\ e.first_half => d.first_half
  /\ d.first_half = e.first_half
       => /\ \A i \in Slot : d.teams[i].score <= e.teams[i].score
          /\ SameScores(d, e) => SamePeriod(d, e) \/ Rank[d.state] < Rank[e.state]
  /\ e.since <= d.at => SamePeriod(d, e)

HistoryInv ==
  /\ \A d \in Seen : d.since <= d.at /\ d.at <= game.at
  /\ \A d, e \in Seen : d.at <= e.at => Before(d, e)

KickoffState == {"READY", "PLAYING"}

\* The ball has been centred for the kick-off that the last packet belongs to;
\* between place_ball and apply_robots that packet is not in prev_ yet.
CentredInv ==
  IF job.at = "robots"
  THEN job.pkt.state \in KickoffState => centred >= job.pkt.since
  ELSE prev_.state \in KickoffState => centred >= prev_.since

\* As long as packets come in order, the ball has not been centred for a packet
\* newer than the last.
InOrderInv ==
  ~stale =>
    IF job.at = "robots"
    THEN centred <= job.pkt.at \/ (prev_ # NoPacket /\ centred <= prev_.at)
    ELSE IF prev_ = NoPacket THEN centred = -1 ELSE centred <= prev_.at

\* Both switches that tell two kick-offs apart are on, as config/supervisor.yaml
\* and the defaults of SupervisorConfig have them.
ResetsOnRestart == {"goal", "half_change"} \subseteq ResetBallOn

-----------------------------------------------------------------------------
(* The history of the match *)

LEMMA SeenIsPacket == IInv => Seen \subseteq Packet
BY DEF IInv, TypeOK, PacketInv, Seen

LEMMA RankType == \A s \in State : Rank[s] \in Int
BY DEF Rank, State

LEMMA ScoreType == \A d \in Packet : \A i \in Slot : d.teams[i].score \in Int
BY DEF Packet, Team

LEMMA BeforeItself ==
  ASSUME NEW d \in Packet
  PROVE  Before(d, d)
<1>1. d.since \in Int /\ \A i \in Slot : d.teams[i].score \in Int
  BY SupervisorAssumption, ScoreType DEF Packet
<1> QED
  BY <1>1 DEF Before, SamePeriod, SameScores

\* A change of the match keeps every earlier packet before it.
LEMMA ChangeIsLater ==
  ASSUME NEW d \in Packet, NEW g \in Packet, NEW h \in Packet,
         d.at <= g.at, g.since <= g.at, Before(d, g), Change(g, h)
  PROVE  Before(d, h) /\ h.since <= h.at
<1>1. /\ d.at \in Int /\ g.at \in Int /\ h.at \in Int
      /\ d.since \in Int /\ g.since \in Int /\ h.since \in Int
      /\ d.state \in State /\ g.state \in State /\ h.state \in State
      /\ d.first_half \in BOOLEAN /\ g.first_half \in BOOLEAN /\ h.first_half \in BOOLEAN
  BY SupervisorAssumption DEF Packet
<1>2. \A i \in Slot : /\ d.teams[i].score \in Int /\ g.teams[i].score \in Int
                      /\ h.teams[i].score \in Int
  BY ScoreType
<1>3. Rank[d.state] \in Int /\ Rank[g.state] \in Int /\ Rank[h.state] \in Int
  BY <1>1, RankType
<1>4. CASE SamePeriod(g, h)
  BY <1>1, <1>2, <1>4 DEF Change, Before, SamePeriod, SameScores
<1>5. CASE h.since = h.at
  <2>1. /\ h.at = g.at + 1 /\ d.since <= h.since /\ ~(h.since <= d.at)
    BY <1>1, <1>5 DEF Change, Before
  <2>2. CASE /\ h.first_half = g.first_half
             /\ SameScores(g, h) /\ Rank[g.state] < Rank[h.state]
    <3>1. SameScores(d, h) => SameScores(d, g)
      BY <2>2 DEF SameScores
    <3>2. SamePeriod(d, g) => Rank[d.state] < Rank[h.state]
      BY <2>2 DEF SamePeriod
    <3>3. d.first_half = h.first_half
            => /\ \A i \in Slot : d.teams[i].score <= h.teams[i].score
               /\ SameScores(d, h) => Rank[d.state] < Rank[h.state]
      BY <1>3, <2>2, <3>1, <3>2 DEF Before, SameScores
    <3> QED
      BY <1>1, <1>5, <2>1, <2>2, <3>3 DEF Before
  <2>3. CASE /\ h.first_half = g.first_half /\ ~SameScores(g, h)
             /\ \A i \in Slot : g.teams[i].score <= h.teams[i].score
    <3>1. d.first_half = h.first_half
            => /\ \A i \in Slot : d.teams[i].score <= h.teams[i].score
               /\ ~SameScores(d, h)
      BY <1>2, <2>3 DEF Before, SameScores
    <3> QED
      BY <1>1, <1>5, <2>1, <2>3, <3>1 DEF Before
  <2>4. CASE g.first_half /\ ~h.first_half
    <3>1. d.first_half # h.first_half
      BY <2>4 DEF Before
    <3> QED
      BY <1>1, <1>5, <2>1, <2>4, <3>1 DEF Before
  <2>5. ~SamePeriod(g, h)
    BY <1>1, <1>5, <2>1 DEF SamePeriod
  <2> QED
    BY <2>2, <2>3, <2>4, <2>5 DEF Change
<1> QED
  BY <1>4, <1>5 DEF Change

-----------------------------------------------------------------------------
(* The invariants *)

LEMMA InitBall == Init => HistoryInv /\ CentredInv /\ InOrderInv
<1> SUFFICES ASSUME Init PROVE HistoryInv /\ CentredInv /\ InOrderInv
  OBVIOUS
<1>1. Seen = {game} /\ game.since <= game.at /\ game \in Packet
  <2>1. Seen = {game} /\ game.since = 0 /\ game.at = 0
    BY DEF Init, Seen, Idle
  <2> QED
    BY <2>1, InitIInv DEF IInv, TypeOK
<1>2. HistoryInv
  <2>1. game.at <= game.at
    BY <1>1, SupervisorAssumption DEF Packet
  <2> QED
    BY <1>1, <2>1, BeforeItself DEF HistoryInv
<1>3. CentredInv /\ InOrderInv
  BY DEF Init, Idle, CentredInv, InOrderInv, KickoffState, NoPacket
<1> QED
  BY <1>2, <1>3

\* The match goes on, and the newest packet comes after all there are.
LEMMA HistoryGrows ==
  ASSUME IInv, HistoryInv, play
  PROVE  HistoryInv'
<1>1. game' \in Packet /\ Change(game, game') /\ game \in Packet /\ game \in Seen
  BY KickoffInductive, GoalInductive, SecondHalfInductive, PenaliseInductive
  DEF play, GameInv, IInv, TypeOK, PacketInv, Seen
<1>2. Seen' \subseteq Seen \cup {game'} /\ Seen \subseteq Packet
  BY SeenIsPacket DEF play, Seen
<1>3. /\ \A d \in Seen \cup {game'} : d.at \in Int
      /\ game.at \in Int /\ game'.at = game.at + 1
  BY <1>1, <1>2, SupervisorAssumption DEF Packet, Change
<1>4. \A d \in Seen : Before(d, game')
  <2> SUFFICES ASSUME NEW d \in Seen PROVE Before(d, game')
    OBVIOUS
  <2>1. d.at <= game.at /\ game.since <= game.at /\ Before(d, game)
    BY <1>1 DEF HistoryInv
  <2> QED
    BY <1>1, <1>2, <2>1, ChangeIsLater
<1>5. game'.since <= game'.at /\ Before(game', game')
  <2>1. game.since <= game.at /\ game.at <= game.at
    BY <1>1, <1>3 DEF HistoryInv
  <2> QED
    BY <1>1, <2>1, ChangeIsLater, BeforeItself
<1>6. \A d \in Seen : d.since <= d.at /\ d.at <= game.at /\ ~(game'.at <= d.at)
  BY <1>1, <1>3 DEF HistoryInv
<1>7. \A d \in Seen' : d.since <= d.at /\ d.at <= game'.at
  BY <1>2, <1>3, <1>5, <1>6
<1>8. \A d, e \in Seen' : d.at <= e.at => Before(d, e)
  BY <1>2, <1>4, <1>5, <1>6 DEF HistoryInv
<1> QED
  BY <1>7, <1>8 DEF HistoryInv

\* Nothing else adds a packet.
LEMMA HistoryStays ==
  ASSUME IInv, HistoryInv, Next, ~play
  PROVE  HistoryInv'
<1>1. game' = game /\ Seen' \subseteq Seen
  <2>1. CASE broadcast
    BY <2>1 DEF broadcast, Seen
  <2>2. ASSUME NEW d \in wire, lose(d) PROVE game' = game /\ Seen' \subseteq Seen
    BY <2>2 DEF lose, Seen
  <2>3. CASE store_handle \/ physics_lock \/ step \/ reset
    BY <2>3 DEF store_handle, physics_lock, step, reset, Seen
  <2>4. ASSUME NEW d \in wire \cup {Noise}, receive(d)
        PROVE  game' = game /\ Seen' \subseteq Seen
    <3>1. job'.pkt = d /\ d \in wire /\ UNCHANGED <<game, wire, prev_>>
      BY <2>4 DEF receive, try_parse
    <3> QED
      BY <3>1 DEF Seen
  <2>5. CASE lock \/ place_ball
    <3>1. /\ job'.pkt = job.pkt /\ job.at # "idle"
          /\ UNCHANGED <<game, wire, prev_>>
      BY <2>5 DEF lock, place_ball, IInv, TypeOK
    <3> QED
      BY <3>1 DEF Seen
  <2>6. CASE apply_robots
    BY <2>6 DEF apply_robots, Seen, Idle
  <2> QED
    BY <2>1, <2>2, <2>3, <2>4, <2>5, <2>6 DEF Next, Handler
<1> QED
  BY <1>1 DEF HistoryInv

\* What is not the ball's business leaves its invariants alone.
LEMMA BallUntouched ==
  ASSUME UNCHANGED <<prev_, centred, stale>>, job.at # "robots", job'.at # "robots"
  PROVE  (CentredInv => CentredInv') /\ (InOrderInv => InOrderInv')
BY DEF CentredInv, InOrderInv

LEMMA BallSame ==
  ASSUME UNCHANGED <<prev_, centred, stale, job>>
  PROVE  (CentredInv => CentredInv') /\ (InOrderInv => InOrderInv')
BY DEF CentredInv, InOrderInv

\* A packet of a kick-off that has the ball left where it is belongs to the
\* kick-off of the packet before.
LEMMA SameKickoff ==
  ASSUME ResetsOnRestart, NEW d \in Packet, NEW e \in Packet,
         d.at <= e.at => Before(d, e), e.at <= d.at => Before(e, d),
         e.state \in KickoffState, ~center_ball(d, e)
  PROVE  e.since <= d.since /\ d.state = e.state
<1>1. /\ d.at \in Int /\ e.at \in Int /\ d.since \in Int /\ e.since \in Int
      /\ d # NoPacket
  BY SupervisorAssumption DEF Packet, NoPacket, State
<1>2. /\ d.state = e.state /\ d.first_half = e.first_half
      /\ ~score_increased(d, e)
  BY <1>1 DEF center_ball, ResetsOnRestart, KickoffState
<1>3. CASE d.at <= e.at
  <2>1. SameScores(d, e)
    BY <1>2, <1>3, ScoreType DEF Before, SameScores, score_increased
  <2>2. ~(Rank[d.state] < Rank[e.state])
    BY <1>2, RankType DEF Packet
  <2>3. SamePeriod(d, e)
    BY <1>2, <1>3, <2>1, <2>2 DEF Before
  <2> QED
    BY <1>1, <1>2, <2>3 DEF SamePeriod
<1>4. CASE e.at <= d.at
  BY <1>2, <1>4 DEF Before
<1> QED
  BY <1>1, <1>3, <1>4

LEMMA BallPlaced ==
  ASSUME IInv, HistoryInv, place_ball
  PROVE  /\ ResetsOnRestart /\ CentredInv => CentredInv'
         /\ InOrderInv => InOrderInv'
<1> DEFINE pkt == job.pkt
<1>1. /\ pkt \in Packet /\ pkt \in Seen /\ job.at = "ball" /\ Seen \subseteq Packet
      /\ job'.at = "robots" /\ job'.pkt = pkt /\ prev_' = prev_ /\ stale' = stale
  BY SeenIsPacket DEF place_ball, IInv, TypeOK, PacketInv, Seen
<1>2. centred' = IF center_ball(prev_, pkt) THEN pkt.at ELSE centred
  BY DEF place_ball
<1>3. pkt.at \in Nat /\ pkt.since \in Nat /\ pkt.since <= pkt.at /\ centred \in Int
  BY <1>1, SupervisorAssumption DEF HistoryInv, Packet, IInv, TypeOK
<1>4. ASSUME ResetsOnRestart, CentredInv, pkt.state \in KickoffState
      PROVE  centred' >= pkt.since
  <2>1. CASE center_ball(prev_, pkt)
    BY <1>2, <1>3, <2>1
  <2>2. CASE ~center_ball(prev_, pkt)
    <3>1. prev_ # NoPacket
      BY <1>4, <2>2 DEF center_ball, KickoffState, NoPacket
    <3>2. prev_ \in Packet /\ prev_ \in Seen
      BY <3>1 DEF Seen, IInv, PacketInv
    <3>3. pkt.since <= prev_.since /\ prev_.state = pkt.state
      <4>1. /\ prev_.at <= pkt.at => Before(prev_, pkt)
            /\ pkt.at <= prev_.at => Before(pkt, prev_)
        BY <1>1, <3>2 DEF HistoryInv
      <4> QED
        BY <1>1, <1>4, <2>2, <3>2, <4>1, SameKickoff
    <3>4. centred >= prev_.since
      BY <1>1, <1>4, <3>3 DEF CentredInv
    <3>5. prev_.since \in Nat
      BY <3>2, SupervisorAssumption DEF Packet
    <3> QED
      BY <1>2, <1>3, <2>2, <3>3, <3>4, <3>5
  <2> QED
    BY <2>1, <2>2
<1>5. ASSUME InOrderInv, ~stale
      PROVE  centred' <= pkt.at \/ (prev_ # NoPacket /\ centred' <= prev_.at)
  BY <1>1, <1>2, <1>3, <1>5 DEF InOrderInv
<1> QED
  BY <1>1, <1>4, <1>5 DEF CentredInv, InOrderInv

LEMMA BallApplied ==
  ASSUME IInv, apply_robots
  PROVE  (CentredInv => CentredInv') /\ (InOrderInv => InOrderInv')
<1>1. /\ job.at = "robots" /\ job'.at = "idle" /\ prev_' = job.pkt
      /\ job.pkt \in Packet /\ centred' = centred
      /\ stale' = (stale \/ (prev_ # NoPacket /\ job.pkt.at < prev_.at))
  BY DEF apply_robots, Idle, IInv, PacketInv
<1>2. CentredInv => CentredInv'
  BY <1>1 DEF CentredInv
<1>3. ASSUME InOrderInv, ~stale' PROVE centred <= job.pkt.at
  <2>1. ~stale /\ (prev_ = NoPacket \/ ~(job.pkt.at < prev_.at))
    BY <1>1, <1>3
  <2>2. /\ centred \in Int /\ job.pkt.at \in Int
        /\ prev_ # NoPacket => prev_.at \in Int
    BY <1>1, SupervisorAssumption DEF IInv, TypeOK, PacketInv, Packet
  <2> QED
    BY <1>1, <1>3, <2>1, <2>2 DEF InOrderInv
<1>4. job.pkt # NoPacket
  BY <1>1 DEF Packet, NoPacket, State
<1> QED
  BY <1>1, <1>2, <1>3, <1>4 DEF InOrderInv

LEMMA BallInductive ==
  ASSUME IInv, HistoryInv, [Next]_vars
  PROVE  /\ HistoryInv'
         /\ ResetsOnRestart /\ CentredInv => CentredInv'
         /\ InOrderInv => InOrderInv'
<1>1. CASE play
  BY <1>1, HistoryGrows, BallSame DEF play
<1>2. ASSUME ~play, Next
      PROVE  /\ ResetsOnRestart /\ CentredInv => CentredInv'
             /\ InOrderInv => InOrderInv'
  <2>1. CASE broadcast \/ store_handle \/ physics_lock \/ step \/ reset
    BY <2>1, BallSame DEF broadcast, store_handle, physics_lock, step, reset
  <2>2. ASSUME NEW d \in wire, lose(d) PROVE UNCHANGED <<prev_, centred, stale, job>>
    BY <2>2 DEF lose
  <2>3. ASSUME NEW d \in wire \cup {Noise}, receive(d)
        PROVE  /\ UNCHANGED <<prev_, centred, stale>>
               /\ job.at # "robots" /\ job'.at # "robots"
    BY <2>3 DEF receive, Idle
  <2>4. CASE lock
    <3>1. job.at # "robots" /\ job'.at # "robots"
      BY <2>4 DEF lock, IInv, TypeOK
    <3> QED
      BY <2>4, <3>1, BallUntouched DEF lock
  <2> QED
    BY <1>2, <2>1, <2>2, <2>3, <2>4, BallSame, BallUntouched, BallPlaced, BallApplied
    DEF Next, Handler
<1>3. CASE UNCHANGED vars
  <2>1. HistoryInv'
    BY <1>3 DEF vars, HistoryInv, Seen
  <2> QED
    BY <1>3, <2>1, BallSame DEF vars
<1> QED
  BY <1>1, <1>2, <1>3, HistoryStays

-----------------------------------------------------------------------------
(* The theorems *)

LEMMA HistoryHolds == Spec => [](IInv /\ HistoryInv)
<1>1. IInv /\ HistoryInv /\ [Next]_vars => HistoryInv'
  BY BallInductive
<1>2. Init => HistoryInv
  BY InitBall
<1> QED
  BY <1>1, <1>2, Invariance, PTL DEF Spec

\* With both switches on that tell two kick-offs apart, the ball has been
\* centred for the kick-off the last packet belongs to, though every packet
\* between it and an earlier kick-off was lost.
THEOREM BallCentred ==
  ASSUME ResetsOnRestart
  PROVE  Spec => []KickoffFromCentre
<1>1. IInv /\ HistoryInv /\ CentredInv /\ [Next]_vars => CentredInv'
  BY BallInductive
<1>2. Init => CentredInv
  BY InitBall
<1>3. IInv /\ CentredInv => KickoffFromCentre
  BY DEF IInv, MutexInv, CentredInv, KickoffFromCentre, Visible, KickoffState
<1> QED
  BY <1>1, <1>2, <1>3, HistoryHolds, PTL DEF Spec

\* Whatever the switches: as long as packets come in order, a ball that has been
\* centred for a kick-off is not centred again while it is in play.
THEOREM BallLeftAlone == Spec => []BallInPlayIsLeftAlone
<1>1. IInv /\ HistoryInv /\ InOrderInv /\ [Next]_vars => InOrderInv'
  BY BallInductive
<1>2. Init => InOrderInv
  BY InitBall
<1>3. IInv /\ HistoryInv /\ InOrderInv => BallInPlayIsLeftAlone
  <2> SUFFICES ASSUME IInv, HistoryInv, InOrderInv, ~stale, job.at = "ball",
                      prev_ # NoPacket, job.pkt.state = "PLAYING",
                      job.pkt.at >= prev_.at, centred >= job.pkt.since
               PROVE  ~center_ball(prev_, job.pkt)
    BY DEF BallInPlayIsLeftAlone
  <2>1. /\ prev_ \in Seen /\ job.pkt \in Seen /\ job.pkt \in Packet /\ prev_ \in Packet
    BY DEF Seen, IInv, PacketInv
  <2>2. /\ job.pkt.since \in Int /\ prev_.at \in Int /\ job.pkt.at \in Int
        /\ centred \in Int /\ centred <= prev_.at
    BY <2>1, SupervisorAssumption DEF InOrderInv, IInv, TypeOK, Packet
  <2>3. SamePeriod(prev_, job.pkt)
    BY <2>1, <2>2 DEF HistoryInv, Before
  <2> QED
    BY <2>1, <2>3, ScoreType DEF center_ball, score_increased, SamePeriod, SameScores
<1> QED
  BY <1>1, <1>2, <1>3, HistoryHolds, PTL DEF Spec
=============================================================================
