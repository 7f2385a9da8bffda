---------------------------- MODULE FollowUpProofs ----------------------------
(***************************************************************************)
(* Theorems about what people see and keep of an order once it is on its   *)
(* way: the screens of Realtime, for any sockets, writers, inboxes and     *)
(* number of changes, the notices and receipts of Notices, for any orders, *)
(* workers, deaths and deletions, and the refunds, cases and ratings of    *)
(* Aftercare, for any deliveries, rows and amounts.                        *)
(***************************************************************************)
EXTENDS Realtime, Notices, Aftercare, SumTheorems, SequenceTheorems, TLAPS
-----------------------------------------------------------------------------
(***************************************************************************)
(* Realtime: what sockets are sent.                                        *)
(***************************************************************************)
Stages == {"idle", "asked", "committed", "made", "uncommitted"}

Places == {"none", "asked", "joined", "allowed", "computed", "open", "handling"}

RealtimeTypes ==
    /\ room \in Kinds /\ may \in [Sockets -> BOOLEAN]
    /\ sock \in [Sockets -> Places]
    /\ inbox \in [Sockets -> Seq(Nat)]
    /\ \A s \in Sockets : \A i \in 1..Len(inbox[s]) : inbox[s][i] <= made
    /\ shown \in [Sockets -> SUBSET Nat]
    /\ barred \in [Sockets -> SUBSET Nat]
    /\ \A s \in Sockets : \A v \in barred[s] : v <= made
    /\ since \in [Sockets -> Nat] /\ \A s \in Sockets : since[s] <= made
    /\ missed \in [Sockets -> BOOLEAN]
    /\ made \in Nat /\ stored \subseteq 1..made
    /\ pub \in [Writers -> [stage : Stages, change : 0..made]]
    /\ announced \in 0..made /\ disturbed \in BOOLEAN
    /\ cached \cup tallied \subseteq SUBSET Nat /\ drawn \in [Sockets -> SUBSET Nat]

\* Which rooms have writers at which stage.
StagesFit ==
    \A w \in Writers :
        /\ pub[w].stage = "asked" => room = "tracking"
        /\ pub[w].stage = "committed" => room = "board"
        /\ pub[w].stage = "made" => room # "chat"
        /\ pub[w].stage = "uncommitted" => room # "tracking" /\ pub[w].change > 0
        /\ pub[w].stage = "idle" => pub[w] = Resting

\* A socket that is not in the group has nothing, and what one is about to send came
\* about while its user could see the room.
InPlace(s) ==
    /\ s \notin Members => inbox[s] = <<>> /\ shown[s] = {}
    /\ sock[s] = "joined" => room \in {"tracking", "figures"}
    /\ sock[s] \in {"allowed", "computed"} => room = "figures"
    /\ sock[s] = "handling" =>
          inbox[s] # <<>> /\ (room = "board" \/ Head(inbox[s]) \notin barred[s])
    /\ may[s] => barred[s] = {}

LastOf(q) == q[Len(q)]

Waits(v, q) == \E i \in 1..Len(q) : q[i] = v

\* A screen that misses nothing shows what there is, or is about to be told.
Follows(s) ==
    s \in Members /\ ~missed[s] =>
        /\ room = "chat" => \A v \in 1..made : v > since[s] => v \in shown[s] \/ Waits(v, inbox[s])
        /\ room \in {"tracking", "board"} /\ inbox[s] # <<>> => LastOf(inbox[s]) = announced
        /\ sock[s] = "open" /\ inbox[s] = <<>> =>
              /\ room = "figures" /\ (\A w \in Writers : pub[w].stage # "made")
                     => shown[s] = stored
              /\ room = "tracking" /\ announced = Latest => shown[s] = {announced}
              /\ room = "board" => \/ shown[s] = {announced}
                                   \/ announced <= since[s] /\ shown[s] = {}

\* What a socket has counted is what there is, or it misses something or is about to be told.
Draws(s) ==
    sock[s] = "computed" /\ ~missed[s] /\ inbox[s] = <<>> /\ (\A w \in Writers : pub[w].stage # "made")
        => drawn[s] = stored

\* As long as nothing disturbed it, one writer at a time announces positions and orders,
\* and what it is about to announce, or has announced, is the latest.
InTurn ==
    ~disturbed /\ room \in {"tracking", "board"} =>
        /\ \A w, o \in Writers : pub[w] # Resting /\ pub[o] # Resting => w = o
        /\ (\A w \in Writers : pub[w] = Resting) => announced = Latest
        /\ \A w \in Writers :
              /\ pub[w].stage = "asked" => announced = Latest
              /\ pub[w].stage = "made" => pub[w].change = Latest
              /\ pub[w].stage = "uncommitted" =>
                    announced = pub[w].change /\ \A v \in stored : v <= announced

RealtimeInv == /\ RealtimeTypes /\ StagesFit /\ InTurn
               /\ \A s \in Sockets : InPlace(s) /\ Follows(s)
-----------------------------------------------------------------------------
\* The last change that is stored.
LEMMA LatestOf ==
    ASSUME NEW n \in Nat, NEW S \in SUBSET (1..n)
    PROVE  /\ Max(S \cup {0}) \in S \cup {0}
           /\ \A v \in S : v <= Max(S \cup {0})
<1> DEFINE T == {m \in Nat : \A v \in S : v <= m}
<1>1. n \in T /\ T \subseteq Nat
  OBVIOUS
<1>2. PICK m \in T : \A k \in T : m <= k
  BY <1>1, LeastElement
<1>3. m \in S \cup {0}
  <2>1. SUFFICES ASSUME m \notin S, m # 0 PROVE FALSE
    OBVIOUS
  <2>2. m - 1 \in Nat /\ \A v \in S : v <= m - 1
    BY <1>1, <1>2, <2>1
  <2> QED
    BY <1>2, <2>2
<1>4. \E x \in S \cup {0} : \A y \in S \cup {0} : x >= y
  BY <1>1, <1>2, <1>3
<1> QED
  BY <1>4 DEF Max

LEMMA LatestStored ==
    ASSUME NEW n \in Nat, stored \subseteq 1..n
    PROVE  /\ Latest \in stored \cup {0}
           /\ \A v \in stored : v <= Latest
BY LatestOf DEF Latest

\* An announcement more.
LEMMA Arrives ==
    ASSUME NEW q \in Seq(Nat), NEW v \in Nat
    PROVE  /\ Append(q, v) \in Seq(Nat) /\ Append(q, v) # <<>>
           /\ LastOf(Append(q, v)) = v /\ Waits(v, Append(q, v))
           /\ q # <<>> => Head(Append(q, v)) = Head(q)
           /\ \A x \in Nat : Waits(x, q) => Waits(x, Append(q, v))
           /\ \A i \in 1..Len(Append(q, v)) : Append(q, v)[i] = v \/ Waits(Append(q, v)[i], q)
<1>1. /\ Append(q, v) \in Seq(Nat) /\ Len(Append(q, v)) = Len(q) + 1 /\ Len(q) \in Nat
      /\ \A i \in 1..Len(q) : Append(q, v)[i] = q[i]
      /\ Append(q, v)[Len(q) + 1] = v
  OBVIOUS
<1>2. Append(q, v) # <<>>
  BY <1>1
<1>3. q # <<>> => Head(Append(q, v)) = Head(q)
  BY <1>1, <1>2
<1> QED
  BY <1>1, <1>2, <1>3 DEF LastOf, Waits

\* The first is handled.
LEMMA Handles ==
    ASSUME NEW q \in Seq(Nat), q # <<>>
    PROVE  /\ Tail(q) \in Seq(Nat)
           /\ Head(q) \in Nat /\ Waits(Head(q), q)
           /\ Tail(q) # <<>> => LastOf(Tail(q)) = LastOf(q)
           /\ Tail(q) = <<>> => LastOf(q) = Head(q)
           /\ \A x \in Nat : Waits(x, q) => x = Head(q) \/ Waits(x, Tail(q))
           /\ \A i \in 1..Len(Tail(q)) : Waits(Tail(q)[i], q)
<1>1. /\ Tail(q) \in Seq(Nat) /\ Len(Tail(q)) = Len(q) - 1 /\ Len(q) \in Nat \ {0}
      /\ \A i \in 1..Len(q) - 1 : Tail(q)[i] = q[i + 1]
      /\ Head(q) = q[1]
  OBVIOUS
<1>2. Tail(q) = <<>> <=> Len(q) = 1
  <2>1. Len(<<>>) = 0 /\ \A p \in Seq(Nat) : p # <<>> => Len(p) \in Nat \ {0}
    BY EmptySeq
  <2>2. Tail(q) = <<>> => Len(Tail(q)) = 0
    BY <2>1, Zenon
  <2>3. Tail(q) # <<>> => Len(Tail(q)) # 0
    BY <1>1, <2>1
  <2> QED
    BY <1>1, <2>2, <2>3
<1>3. \A i \in 1..Len(Tail(q)) : Waits(Tail(q)[i], q)
  BY <1>1 DEF Waits
<1>4. Head(q) \in Nat /\ Waits(Head(q), q)
  BY <1>1 DEF Waits
<1>5. ASSUME NEW x \in Nat, Waits(x, q), x # Head(q) PROVE Waits(x, Tail(q))
  <2>1. PICK i \in 1..Len(q) : q[i] = x
    BY <1>5 DEF Waits
  <2>2. i - 1 \in 1..Len(Tail(q)) /\ Tail(q)[i - 1] = q[i]
    BY <1>1, <1>5, <2>1
  <2> QED
    BY <2>1, <2>2 DEF Waits
<1>6. Tail(q) # <<>> => LastOf(Tail(q)) = LastOf(q)
  BY <1>1, <1>2 DEF LastOf
<1>7. Tail(q) = <<>> => LastOf(q) = Head(q)
  BY <1>1, <1>2 DEF LastOf
<1> QED
  BY <1>1, <1>3, <1>4, <1>5, <1>6, <1>7

LEMMA RealtimeInitInv == RealtimeInit => RealtimeInv
<1> SUFFICES ASSUME RealtimeInit PROVE RealtimeInv
  OBVIOUS
<1>1. <<>> \in Seq(Nat) /\ Len(<<>>) = 0
  BY EmptySeq
<1>2. RealtimeTypes
  <2>1. inbox \in [Sockets -> Seq(Nat)] /\ \A s \in Sockets : \A i \in 1..Len(inbox[s]) : inbox[s][i] <= made
    <3>1. \A s \in Sockets : inbox[s] = <<>> /\ Len(inbox[s]) = 0
      BY <1>1, Zenon DEF RealtimeInit
    <3> QED
      BY <1>1, <3>1 DEF RealtimeInit
  <2>2. pub \in [Writers -> [stage : Stages, change : 0..made]]
    <3>1. Resting \in [stage : Stages, change : 0..0]
      BY DEF Resting, Stages
    <3> QED
      BY <3>1 DEF RealtimeInit
  <2>3. /\ made \in Nat /\ stored \subseteq 1..made /\ announced \in 0..made
        /\ sock \in [Sockets -> Places]
    BY DEF RealtimeInit, Places
  <2>5. room \in Kinds /\ may \in [Sockets -> BOOLEAN] /\ missed \in [Sockets -> BOOLEAN]
    BY DEF RealtimeInit
  <2>6. disturbed \in BOOLEAN
    BY Zenon DEF RealtimeInit
  <2>4. /\ shown \in [Sockets -> SUBSET Nat] /\ barred \in [Sockets -> SUBSET Nat]
        /\ \A s \in Sockets : \A v \in barred[s] : v <= made
        /\ since \in [Sockets -> Nat] /\ \A s \in Sockets : since[s] <= made
    BY DEF RealtimeInit
  <2>7. cached \cup tallied \subseteq SUBSET Nat /\ drawn \in [Sockets -> SUBSET Nat]
    BY DEF RealtimeInit
  <2> QED
    BY <2>1, <2>2, <2>3, <2>4, <2>5, <2>6, <2>7, Zenon DEF RealtimeTypes
<1>3. StagesFit
  BY DEF RealtimeInit, StagesFit, Resting
<1>4. InTurn
  <2>1. Latest = 0
    BY LatestStored DEF RealtimeInit
  <2> QED
    BY <2>1 DEF RealtimeInit, InTurn, Resting
<1>5. ASSUME NEW s \in Sockets PROVE InPlace(s) /\ Follows(s)
  BY DEF RealtimeInit, InPlace, Follows, Members
<1> QED
  BY <1>2, <1>3, <1>4, <1>5 DEF RealtimeInv
-----------------------------------------------------------------------------
(* Steps of sockets.                                                       *)

\* What is counted and cached stays of its type, and s at most counts.
Counting(s) == /\ cached' \cup tallied' \subseteq SUBSET Nat
               /\ drawn' \in [Sockets -> SUBSET Nat]
               /\ \A o \in Sockets \ {s} : drawn'[o] = drawn[o]

LEMMA NothingCounted ==
    ASSUME RealtimeInv, NEW s \in Sockets, UNCHANGED caching
    PROVE  Counting(s)
BY DEF RealtimeInv, RealtimeTypes, Counting, caching

LEMMA SocketMoves ==
    ASSUME RealtimeInv, NEW s \in Sockets, Steady, Counting(s),
           sock' \in [Sockets -> Places],
           inbox' \in [Sockets -> Seq(Nat)], shown' \in [Sockets -> SUBSET Nat],
           since' \in [Sockets -> Nat], missed' \in [Sockets -> BOOLEAN],
           \A i \in 1..Len(inbox'[s]) : inbox'[s][i] <= made, since'[s] <= made,
           \A o \in Sockets \ {s} : /\ sock'[o] = sock[o] /\ inbox'[o] = inbox[o]
                                    /\ shown'[o] = shown[o] /\ since'[o] = since[o]
                                    /\ missed'[o] = missed[o],
           InPlace(s)', Follows(s)'
    PROVE  RealtimeInv'
<1> USE DEF RealtimeInv
<1>1. UNCHANGED <<room, may, made, stored, pub, barred, announced, disturbed>>
  BY DEF Steady, people
<1>2. RealtimeTypes'
  <2>1. ASSUME NEW o \in Sockets
        PROVE  /\ \A i \in 1..Len(inbox'[o]) : inbox'[o][i] <= made
               /\ since'[o] <= made
    <3>1. CASE o = s
      BY <3>1
    <3>2. CASE o # s
      BY <3>2 DEF RealtimeTypes
    <3> QED
      BY <3>1, <3>2
  <2> QED
    BY <1>1, <2>1 DEF RealtimeTypes, Counting
<1>3. Latest' = Latest
  BY <1>1 DEF Latest
<1>4. StagesFit' /\ InTurn'
  BY <1>1, <1>3 DEF StagesFit, InTurn
<1>5. ASSUME NEW o \in Sockets \ {s} PROVE InPlace(o)' /\ Follows(o)'
  BY <1>1, <1>3 DEF InPlace, Follows, Members, Counting
<1> QED
  BY <1>2, <1>4, <1>5

\* What the types say of a socket.
LEMMA SocketColumns ==
    ASSUME RealtimeInv, NEW s \in Sockets
    PROVE  /\ inbox[s] \in Seq(Nat) /\ \A i \in 1..Len(inbox[s]) : inbox[s][i] <= made
           /\ shown[s] \subseteq Nat /\ since[s] \in Nat /\ since[s] <= made
           /\ missed[s] \in BOOLEAN /\ may[s] \in BOOLEAN
           /\ Latest \in Nat /\ stored \subseteq Nat
<1>1. made \in Nat /\ stored \subseteq 1..made
  BY DEF RealtimeInv, RealtimeTypes
<1>2. Latest \in stored \cup {0}
  BY <1>1, LatestStored
<1>3. Latest \in Nat /\ stored \subseteq Nat
  BY <1>1, <1>2
<1> QED
  BY <1>3 DEF RealtimeInv, RealtimeTypes

LEMMA ConnectStep ==
    ASSUME RealtimeInv, NEW s \in Sockets, Connect(s) \/ Join(s)
    PROVE  RealtimeInv'
<1> USE DEF RealtimeInv
<1>1. /\ sock[s] \in {"none", "asked"} /\ inbox[s] = <<>> /\ shown[s] = {}
      /\ Steady /\ UNCHANGED <<inbox, shown>> /\ Counting(s)
  BY NothingCounted DEF Connect, Join, InPlace, Members
<1>2. UNCHANGED <<room, may, barred, announced>> /\ made' = made
  BY <1>1 DEF Steady, people
<1>3. may[s] => barred[s] = {}
  BY DEF InPlace
<1>4. CASE Connect(s)
  <2>1. sock' = [sock EXCEPT ![s] = "asked"] /\ UNCHANGED <<since, missed>>
    BY <1>4 DEF Connect, At
  <2>2. InPlace(s)' /\ Follows(s)'
    BY <1>1, <1>2, <1>3, <2>1 DEF InPlace, Follows, Members, RealtimeTypes
  <2> QED
    BY <1>1, <2>1, <2>2, SocketMoves DEF RealtimeTypes, Places
<1>5. CASE Join(s)
  <2> DEFINE place == IF room \in {"tracking", "figures"} THEN "joined" ELSE "open"
  <2>1. /\ sock' = [sock EXCEPT ![s] = place]
        /\ since' = [since EXCEPT ![s] = made] /\ missed' = [missed EXCEPT ![s] = FALSE]
    BY <1>5 DEF Join, At, Missing
  <2>2. /\ sock' \in [Sockets -> Places]
        /\ since' \in [Sockets -> Nat] /\ missed' \in [Sockets -> BOOLEAN]
        /\ sock'[s] = place /\ since'[s] = made
        /\ \A o \in Sockets \ {s} : /\ sock'[o] = sock[o] /\ since'[o] = since[o]
                                    /\ missed'[o] = missed[o]
    BY <2>1 DEF RealtimeTypes, Places
  <2>3. InPlace(s)' /\ Follows(s)'
    BY <1>1, <1>2, <1>3, <2>2 DEF InPlace, Follows, Members, RealtimeTypes, Kinds
  <2>4. since'[s] <= made
    BY <2>2 DEF RealtimeTypes
  <2> QED
    BY <1>1, <2>2, <2>3, <2>4, SocketMoves DEF RealtimeTypes
<1> QED
  BY <1>4, <1>5

\* A socket closes.
LEMMA LeaveStep ==
    ASSUME RealtimeInv, NEW s \in Sockets, Leave(s)
    PROVE  RealtimeInv'
<1> USE DEF RealtimeInv
<1>1. /\ sock' = [sock EXCEPT ![s] = "none"] /\ inbox' = [inbox EXCEPT ![s] = <<>>]
      /\ shown' = [shown EXCEPT ![s] = {}] /\ missed' = [missed EXCEPT ![s] = FALSE]
      /\ Steady /\ UNCHANGED since
  BY DEF Leave, At, Shows, Missing
<1>2. <<>> \in Seq(Nat) /\ Len(<<>>) = 0
  BY EmptySeq
<1>3. /\ sock' \in [Sockets -> Places]
      /\ inbox' \in [Sockets -> Seq(Nat)] /\ shown' \in [Sockets -> SUBSET Nat]
      /\ missed' \in [Sockets -> BOOLEAN]
      /\ sock'[s] = "none" /\ inbox'[s] = <<>> /\ shown'[s] = {}
      /\ \A o \in Sockets \ {s} : /\ sock'[o] = sock[o] /\ inbox'[o] = inbox[o]
                                  /\ shown'[o] = shown[o] /\ missed'[o] = missed[o]
  BY <1>1, <1>2 DEF RealtimeTypes, Places
<1>4. InPlace(s)' /\ Follows(s)'
  BY <1>1, <1>3 DEF InPlace, Follows, Members, Steady, people
<1>5. \A i \in 1..Len(inbox'[s]) : inbox'[s][i] <= made
  BY <1>2, <1>3
<1>6. Counting(s)
  <2>1. UNCHANGED <<cached, tallied>> /\ drawn' = [drawn EXCEPT ![s] = {}]
    BY DEF Leave
  <2> QED
    BY <2>1 DEF Counting, RealtimeTypes
<1> QED
  BY <1>1, <1>3, <1>4, <1>5, <1>6, SocketMoves, SocketColumns DEF RealtimeTypes

\* It looks whether its user may still see the room.
LEMMA HandleStep ==
    ASSUME RealtimeInv, NEW s \in Sockets, Handle(s)
    PROVE  RealtimeInv'
<1> USE DEF RealtimeInv
<1>1. CASE AsksAgain /\ ~may[s]
  BY <1>1, LeaveStep DEF Handle
<1>2. CASE ~(AsksAgain /\ ~may[s])
  <2>1. /\ sock[s] = "open" /\ inbox[s] # <<>> /\ sock' = [sock EXCEPT ![s] = "handling"]
        /\ Steady /\ UNCHANGED <<inbox, shown, since, missed>>
        /\ UNCHANGED <<room, may, made, barred, announced>> /\ Counting(s)
    BY <1>2, NothingCounted DEF Handle, At, Steady, people
  <2>2. /\ sock' \in [Sockets -> Places]
        /\ sock'[s] = "handling" /\ \A o \in Sockets \ {s} : sock'[o] = sock[o]
    BY <2>1 DEF RealtimeTypes, Places
  <2>3. room = "board" \/ may[s]
    BY <1>2 DEF AsksAgain
  <2>4. InPlace(s)'
    BY <2>1, <2>2, <2>3 DEF InPlace, Members
  <2>5. Follows(s)'
    BY <2>1, <2>2 DEF Follows, Members
  <2> QED
    BY <2>1, <2>2, <2>4, <2>5, SocketMoves DEF RealtimeTypes
<1> QED
  BY <1>1, <1>2

\* The courier's position at first.
LEMMA PositionStep ==
    ASSUME RealtimeInv, NEW s \in Sockets, SendPosition(s)
    PROVE  RealtimeInv'
<1> USE DEF RealtimeInv
<1>1. /\ room = "tracking" /\ sock[s] = "joined" /\ sock' = [sock EXCEPT ![s] = "open"]
      /\ Steady /\ UNCHANGED <<inbox, since>>
      /\ UNCHANGED <<room, may, made, barred, announced, stored>> /\ Counting(s)
  BY NothingCounted DEF SendPosition, At, Steady, people
<1>2. /\ sock' \in [Sockets -> Places]
      /\ sock'[s] = "open" /\ \A o \in Sockets \ {s} : sock'[o] = sock[o]
  BY <1>1 DEF RealtimeTypes, Places
<1>3. /\ shown' \in [Sockets -> SUBSET Nat] /\ missed' \in [Sockets -> BOOLEAN]
      /\ (shown'[s] = {Latest} /\ missed'[s] = missed[s]) \/ missed'[s]
      /\ \A o \in Sockets \ {s} : shown'[o] = shown[o] /\ missed'[o] = missed[o]
  <2>1. shown \in [Sockets -> SUBSET Nat] /\ missed \in [Sockets -> BOOLEAN] /\ {Latest} \in SUBSET Nat
    BY SocketColumns DEF RealtimeTypes
  <2>2. CASE courier = "underway" /\ stored # {}
    BY <2>1, <2>2 DEF SendPosition, Shows
  <2>3. CASE ~(courier = "underway" /\ stored # {})
    BY <2>1, <2>3 DEF SendPosition, Missing
  <2> QED
    BY <2>2, <2>3
<1>4. Latest' = Latest
  BY <1>1 DEF Latest
<1>5. InPlace(s)' /\ Follows(s)'
  BY <1>1, <1>2, <1>3, <1>4 DEF InPlace, Follows, Members
<1> QED
  BY <1>1, <1>2, <1>3, <1>5, SocketMoves DEF RealtimeTypes

\* The announcement it handles leaves the inbox.
LEMMA HandledInbox ==
    ASSUME RealtimeInv, NEW s \in Sockets, inbox[s] # <<>>, Handled(s)
    PROVE  /\ inbox' \in [Sockets -> Seq(Nat)]
           /\ inbox'[s] = Tail(inbox[s]) /\ \A o \in Sockets \ {s} : inbox'[o] = inbox[o]
           /\ \A i \in 1..Len(inbox'[s]) : inbox'[s][i] <= made
<1>1. inbox[s] \in Seq(Nat) /\ inbox \in [Sockets -> Seq(Nat)]
  BY DEF RealtimeInv, RealtimeTypes
<1>2. Tail(inbox[s]) \in Seq(Nat) /\ \A i \in 1..Len(Tail(inbox[s])) : Waits(Tail(inbox[s])[i], inbox[s])
  BY <1>1, Handles
<1>3. inbox' = [inbox EXCEPT ![s] = Tail(inbox[s])]
  BY <1>1 DEF Handled
<1>4. /\ inbox' \in [Sockets -> Seq(Nat)] /\ inbox'[s] = Tail(inbox[s])
      /\ \A o \in Sockets \ {s} : inbox'[o] = inbox[o]
  BY <1>1, <1>2, <1>3
<1>5. \A i \in 1..Len(Tail(inbox[s])) : Tail(inbox[s])[i] <= made
  BY <1>2, SocketColumns DEF Waits
<1> QED
  BY <1>4, <1>5

LEMMA FiguresStep ==
    ASSUME RealtimeInv, NEW s \in Sockets,
           AskForFigures(s) \/ SendCached(s) \/ CountFigures(s) \/ SendFigures(s), Draws(s)
    PROVE  RealtimeInv'
<1> USE DEF RealtimeInv
<1>1. UNCHANGED <<room, may, made, barred, announced, stored, pub, since>> /\ Steady
  BY DEF AskForFigures, SendCached, CountFigures, SendFigures, Steady, people
<1>2. CASE SendCached(s)
  <2>1. PICK content \in cached :
            /\ shown' = [shown EXCEPT ![s] = content]
            /\ missed' = [missed EXCEPT ![s] = (content # stored)]
    BY <1>2 DEF SendCached, Shows, Missing
  <2>2. /\ sock[s] = "allowed" /\ sock' = [sock EXCEPT ![s] = "open"]
        /\ UNCHANGED inbox /\ Counting(s)
    BY <1>2, NothingCounted DEF SendCached, At
  <2>3. content \in SUBSET Nat /\ (content # stored) \in BOOLEAN
    BY <2>1 DEF RealtimeTypes
  <2>4. /\ sock' \in [Sockets -> Places]
        /\ shown' \in [Sockets -> SUBSET Nat] /\ missed' \in [Sockets -> BOOLEAN]
        /\ sock'[s] = "open" /\ shown'[s] = content /\ missed'[s] = (content # stored)
        /\ \A o \in Sockets \ {s} : /\ sock'[o] = sock[o] /\ shown'[o] = shown[o]
                                    /\ missed'[o] = missed[o]
    BY <2>1, <2>2, <2>3 DEF RealtimeTypes, Places
  <2>5. InPlace(s)'
    BY <1>1, <2>2, <2>4 DEF InPlace, Members
  <2>6. ~missed'[s] => shown'[s] = stored
    BY <2>4
  <2>8. room = "figures"
    BY <2>2 DEF InPlace
  <2>7. Follows(s)'
    BY <1>1, <2>2, <2>4, <2>6, <2>8 DEF Follows
  <2> QED
    BY <1>1, <2>2, <2>4, <2>5, <2>7, SocketMoves, SocketColumns DEF RealtimeTypes
<1>4. CASE CountFigures(s)
  <2>1. /\ sock[s] = "allowed" /\ sock' = [sock EXCEPT ![s] = "computed"]
        /\ drawn' = [drawn EXCEPT ![s] = stored] /\ missed' = [missed EXCEPT ![s] = FALSE]
        /\ UNCHANGED <<cached, tallied, inbox, shown>>
    BY <1>4 DEF CountFigures, At, Missing
  <2>2. /\ sock' \in [Sockets -> Places] /\ missed' \in [Sockets -> BOOLEAN]
        /\ drawn' \in [Sockets -> SUBSET Nat]
        /\ sock'[s] = "computed" /\ drawn'[s] = stored
        /\ \A o \in Sockets \ {s} : /\ sock'[o] = sock[o] /\ drawn'[o] = drawn[o]
                                    /\ missed'[o] = missed[o]
    BY <2>1, SocketColumns DEF RealtimeTypes, Places
  <2>3. Counting(s)
    BY <2>1, <2>2 DEF Counting, RealtimeTypes
  <2>4. InPlace(s)' /\ Follows(s)'
    BY <1>1, <2>1, <2>2 DEF InPlace, Follows, Members
  <2> QED
    BY <1>1, <2>1, <2>2, <2>3, <2>4, SocketMoves, SocketColumns DEF RealtimeTypes
<1>5. CASE SendFigures(s)
  <2>1. /\ sock[s] = "computed" /\ sock' = [sock EXCEPT ![s] = "open"]
        /\ shown' = [shown EXCEPT ![s] = drawn[s]] /\ drawn' = [drawn EXCEPT ![s] = {}]
        /\ cached' = {drawn[s]} /\ UNCHANGED <<tallied, inbox, missed>>
    BY <1>5 DEF SendFigures, At, Shows
  <2>2. /\ sock' \in [Sockets -> Places]
        /\ shown' \in [Sockets -> SUBSET Nat] /\ drawn' \in [Sockets -> SUBSET Nat]
        /\ sock'[s] = "open" /\ shown'[s] = drawn[s]
        /\ \A o \in Sockets \ {s} : /\ sock'[o] = sock[o] /\ shown'[o] = shown[o]
                                    /\ drawn'[o] = drawn[o]
    BY <2>1 DEF RealtimeTypes, Places
  <2>3. Counting(s)
    BY <2>1, <2>2 DEF Counting, RealtimeTypes
  <2>4. InPlace(s)'
    BY <1>1, <2>1, <2>2 DEF InPlace, Members
  <2>5. ~missed[s] /\ inbox[s] = <<>> /\ (\A w \in Writers : pub[w].stage # "made") => shown'[s] = stored
    BY <2>1, <2>2 DEF Draws
  <2>6. room = "figures"
    BY <2>1 DEF InPlace
  <2>7. Follows(s)'
    BY <1>1, <2>1, <2>2, <2>5, <2>6 DEF Follows
  <2> QED
    BY <1>1, <2>1, <2>2, <2>3, <2>4, <2>7, SocketMoves, SocketColumns DEF RealtimeTypes
<1>3. CASE AskForFigures(s)
  <2>1. /\ room = "figures" /\ sock[s] \in {"joined", "handling"}
        /\ sock' = [sock EXCEPT ![s] = IF may[s] THEN "allowed" ELSE "open"]
    BY <1>3 DEF AskForFigures, At
  <2>2. /\ sock' \in [Sockets -> Places]
        /\ sock'[s] = (IF may[s] THEN "allowed" ELSE "open")
        /\ \A o \in Sockets \ {s} : sock'[o] = sock[o]
    BY <2>1 DEF RealtimeTypes, Places
  <2>3. /\ shown' \in [Sockets -> SUBSET Nat] /\ missed' \in [Sockets -> BOOLEAN]
        /\ ~may[s] => missed'[s]
        /\ \A o \in Sockets \ {s} : shown'[o] = shown[o] /\ missed'[o] = missed[o]
    BY <1>3 DEF AskForFigures, Shows, Missing, RealtimeTypes
  <2>4. /\ inbox' \in [Sockets -> Seq(Nat)] /\ \A o \in Sockets \ {s} : inbox'[o] = inbox[o]
        /\ \A i \in 1..Len(inbox'[s]) : inbox'[s][i] <= made
    <3>1. CASE sock[s] = "handling"
      <4>1. inbox[s] # <<>> /\ Handled(s)
        BY <1>3, <3>1 DEF AskForFigures, InPlace
      <4> QED
        BY <4>1, HandledInbox
    <3>2. CASE sock[s] # "handling"
      BY <1>3, <3>2, SocketColumns DEF AskForFigures, RealtimeTypes
    <3> QED
      BY <3>1, <3>2
  <2>5. InPlace(s)' /\ Follows(s)'
    BY <1>1, <2>1, <2>2, <2>3 DEF InPlace, Follows, Members
  <2>6. Counting(s)
    BY <1>3, NothingCounted DEF AskForFigures
  <2> QED
    BY <1>1, <2>2, <2>3, <2>4, <2>5, <2>6, SocketMoves, SocketColumns DEF RealtimeTypes
<1> QED
  BY <1>2, <1>3, <1>4, <1>5

LEMMA SendingStep ==
    ASSUME RealtimeInv, NEW s \in Sockets, SendAnnounced(s)
    PROVE  RealtimeInv'
<1> USE DEF RealtimeInv
<1>1. /\ room # "figures" /\ sock[s] = "handling" /\ inbox[s] # <<>>
      /\ sock' = [sock EXCEPT ![s] = "open"]
      /\ UNCHANGED <<room, may, made, barred, announced, stored, since, missed>> /\ Steady
      /\ Counting(s)
  BY NothingCounted DEF SendAnnounced, At, InPlace, Steady, people
<1> DEFINE q == inbox[s]
           content == (IF room = "chat" THEN shown[s] ELSE {}) \cup {Head(q)}
<1>2. q \in Seq(Nat) /\ content \in SUBSET Nat
  <2>1. q \in Seq(Nat) /\ shown[s] \in SUBSET Nat
    BY SocketColumns
  <2>2. Head(q) \in Nat
    BY <1>1, <2>1, Handles
  <2> QED
    BY <2>1, <2>2
<1>3. /\ inbox' \in [Sockets -> Seq(Nat)]
      /\ inbox'[s] = Tail(q) /\ \A o \in Sockets \ {s} : inbox'[o] = inbox[o]
      /\ \A i \in 1..Len(inbox'[s]) : inbox'[s][i] <= made
  BY <1>1, HandledInbox DEF SendAnnounced
<1>4. shown' = [shown EXCEPT ![s] = content]
  BY DEF SendAnnounced, Shows
<1> HIDE DEF content
<1>5. /\ sock' \in [Sockets -> Places]
      /\ shown' \in [Sockets -> SUBSET Nat]
      /\ sock'[s] = "open" /\ shown'[s] = content
      /\ \A o \in Sockets \ {s} : sock'[o] = sock[o] /\ shown'[o] = shown[o]
  BY <1>1, <1>2, <1>4 DEF RealtimeTypes, Places
<1>6. InPlace(s)'
  BY <1>1, <1>5 DEF InPlace, Members
<1>7. Follows(s)'
  <2> SUFFICES ASSUME ~missed[s] PROVE Follows(s)'
    BY <1>1 DEF Follows
  <2>0. s \in Members
    BY <1>1 DEF Members
  <2>1. /\ Tail(q) # <<>> => LastOf(Tail(q)) = LastOf(q)
        /\ Tail(q) = <<>> => LastOf(q) = Head(q)
        /\ \A x \in Nat : Waits(x, q) => x = Head(q) \/ Waits(x, Tail(q))
    BY <1>1, <1>2, Handles
  <2>2. CASE room = "chat"
    <3>1. \A v \in 1..made : v > since[s] => v \in shown[s] \/ Waits(v, q)
      BY <2>0, <2>2 DEF Follows
    <3>2. \A v \in 1..made : v > since[s] => v \in content \/ Waits(v, Tail(q))
      BY <2>1, <2>2, <3>1 DEF content
    <3> QED
      BY <1>1, <1>3, <1>5, <2>2, <3>2 DEF Follows
  <2>3. CASE room # "chat"
    <3>1. room \in {"tracking", "board"} /\ LastOf(q) = announced
      BY <1>1, <2>0, <2>3 DEF Follows, RealtimeTypes, Kinds
    <3>2. content = {Head(q)}
      BY <2>3 DEF content
    <3> HIDE DEF q
    <3> QED
      BY <1>1, <1>3, <1>5, <2>1, <3>1, <3>2 DEF Follows
  <2> QED
    BY <2>2, <2>3
<1> QED
  BY <1>1, <1>3, <1>5, <1>6, <1>7, SocketMoves, SocketColumns DEF RealtimeTypes
-----------------------------------------------------------------------------
(* Steps of those who change rights.                                       *)

LEMMA RightsStep ==
    ASSUME RealtimeInv, (\E s \in Sockets : SetAccess(s)) \/ \E stage : SetCourier(stage)
    PROVE  RealtimeInv'
<1> USE DEF RealtimeInv
<1>1. /\ UNCHANGED <<room, sock, inbox, shown, since, made, stored, pub, missed, announced,
                     disturbed, cached, tallied, drawn>>
      /\ may' \in [Sockets -> BOOLEAN] /\ barred' \in [Sockets -> SUBSET Nat]
      /\ \A s \in Sockets : barred'[s] = {} \/ (may'[s] = may[s] /\ barred'[s] = barred[s])
  BY DEF SetAccess, SetCourier, screens, caching, RealtimeTypes
<1>2. Latest' = Latest /\ Members' = Members
  BY <1>1 DEF Latest, Members
<1>3. RealtimeTypes'
  <2>1. \A s \in Sockets : \A v \in barred'[s] : v <= made
    BY <1>1 DEF RealtimeTypes
  <2> QED
    BY <1>1, <2>1 DEF RealtimeTypes
<1>4. StagesFit' /\ InTurn'
  BY <1>1, <1>2 DEF StagesFit, InTurn
<1>5. ASSUME NEW s \in Sockets PROVE InPlace(s)' /\ Follows(s)'
  BY <1>1, <1>2 DEF InPlace, Follows
<1> QED
  BY <1>3, <1>4, <1>5
-----------------------------------------------------------------------------
(* Steps of writers.                                                       *)

\* A change that is made bars only from itself.
Grows ==
    /\ made' \in Nat /\ made <= made' /\ UNCHANGED may
    /\ barred' \in [Sockets -> SUBSET Nat]
    /\ \A s \in Sockets : /\ may[s] => barred'[s] = barred[s]
                          /\ \A v \in barred'[s] : v <= made' /\ (v <= made => v \in barred[s])

LEMMA MakeGrows ==
    ASSUME RealtimeInv, Make, UNCHANGED may
    PROVE  Grows /\ made' = made + 1
<1>1. /\ made' = made + 1 /\ made \in Nat
      /\ barred' = [s \in Sockets |-> IF may[s] THEN barred[s] ELSE barred[s] \cup {made + 1}]
      /\ barred \in [Sockets -> SUBSET Nat]
      /\ \A s \in Sockets : \A v \in barred[s] : v <= made
  BY DEF Make, RealtimeInv, RealtimeTypes
<1>2. barred' \in [Sockets -> SUBSET Nat]
  BY <1>1
<1>3. ASSUME NEW s \in Sockets, NEW v \in barred'[s]
      PROVE  v <= made' /\ (v <= made => v \in barred[s])
  BY <1>1, <1>2, <1>3
<1> QED
  BY <1>1, <1>2, <1>3 DEF Grows

\* What a change does to the sockets that are not told of it.
LEMMA Undisturbing ==
    ASSUME RealtimeInv, Grows, UNCHANGED <<room, sock, inbox, shown, since>>, NEW s \in Sockets
    PROVE  InPlace(s)'
<1>1. CASE sock[s] = "handling"
  <2>1. inbox[s] # <<>> /\ inbox[s] \in Seq(Nat) /\ \A i \in 1..Len(inbox[s]) : inbox[s][i] <= made
    BY <1>1, SocketColumns DEF RealtimeInv, InPlace
  <2>2. Head(inbox[s]) <= made
    BY <2>1, Handles DEF Waits
  <2> QED
    BY <1>1, <2>1, <2>2 DEF RealtimeInv, InPlace, Grows, Members
<1>2. CASE sock[s] # "handling"
  BY <1>2 DEF RealtimeInv, InPlace, Grows, Members
<1> QED
  BY <1>1, <1>2

\* The types after a step of a writer.
LEMMA WriterTypes ==
    ASSUME RealtimeInv, Grows, UNCHANGED <<room, caching, sock, shown, since>>,
           inbox' \in [Sockets -> Seq(Nat)],
           \A s \in Sockets : \A i \in 1..Len(inbox'[s]) : inbox'[s][i] <= made',
           missed' \in [Sockets -> BOOLEAN], stored' \subseteq 1..made',
           pub' \in [Writers -> [stage : Stages, change : 0..made']],
           announced' \in 0..made', disturbed' \in BOOLEAN
    PROVE  RealtimeTypes'
<1>1. \A s \in Sockets : since[s] <= made'
  BY SocketColumns DEF Grows, RealtimeInv, RealtimeTypes
<1> QED
  BY <1>1 DEF RealtimeInv, RealtimeTypes, Grows, caching

LEMMA Wider ==
    ASSUME RealtimeInv, Grows
    PROVE  /\ pub \in [Writers -> [stage : Stages, change : 0..made']]
           /\ stored \subseteq 1..made' /\ announced \in 0..made'
           /\ \A s \in Sockets : \A i \in 1..Len(inbox[s]) : inbox[s][i] <= made'
<1>1. 0..made \subseteq 0..made' /\ 1..made \subseteq 1..made'
  BY DEF RealtimeInv, RealtimeTypes, Grows
<1>2. [stage : Stages, change : 0..made] \subseteq [stage : Stages, change : 0..made']
  BY <1>1
<1>3. ASSUME NEW s \in Sockets, NEW i \in 1..Len(inbox[s]) PROVE inbox[s][i] <= made'
  <2>1. inbox[s] \in Seq(Nat) /\ inbox[s][i] <= made
    BY SocketColumns
  <2>2. inbox[s][i] \in Nat
    BY <2>1, ElementOfSeq
  <2> QED
    BY <2>1, <2>2 DEF RealtimeInv, RealtimeTypes, Grows
<1> QED
  BY <1>1, <1>2, <1>3 DEF RealtimeInv, RealtimeTypes

\* A change that is stored, and that no socket is told of yet.
LEMMA SilentChange ==
    ASSUME RealtimeInv, Make, stored' = stored \cup {made'}, room # "chat",
           UNCHANGED <<room, caching, people, screens, missed, announced>>,
           room = "figures" => \E w \in Writers : pub'[w].stage = "made",
           pub' \in [Writers -> [stage : Stages, change : 0..made']],
           disturbed' \in BOOLEAN, StagesFit', Latest' = made' => InTurn'
    PROVE  RealtimeInv'
<1>1. Grows /\ made' = made + 1 /\ made \in Nat /\ announced <= made /\ announced \in Nat
  BY MakeGrows DEF people, RealtimeInv, RealtimeTypes
<1>2. UNCHANGED <<room, sock, inbox, shown, since, missed, announced>>
  BY DEF screens
<1>3. stored' \subseteq 1..made' /\ made' \in Nat
  BY <1>1, Wider
<1>4. Latest' = made'
  <2>1. Latest' \in stored' \cup {0} /\ \A v \in stored' : v <= Latest'
    BY <1>3, LatestOf DEF Latest
  <2> QED
    BY <1>1, <1>3, <2>1
<1>5. RealtimeTypes'
  BY <1>1, <1>2, <1>3, Wider, WriterTypes DEF RealtimeInv, RealtimeTypes
<1>6. ASSUME NEW s \in Sockets PROVE Follows(s)'
  <2>1. announced # Latest'
    BY <1>1, <1>4
  <2> QED
    BY <1>2, <2>1 DEF RealtimeInv, Follows, Members
<1> QED
  BY <1>1, <1>2, <1>4, <1>5, <1>6, Undisturbing DEF RealtimeInv

\* Everybody in the group is told, or misses it.
LEMMA Announced ==
    ASSUME RealtimeInv, Grows, NEW v \in 0..made', Announce(v),
           UNCHANGED <<room, sock, shown, since>>,
           room = "chat" => made' = made + 1 /\ v = made'
    PROVE  /\ inbox' \in [Sockets -> Seq(Nat)] /\ missed' \in [Sockets -> BOOLEAN]
           /\ \A s \in Sockets : \A i \in 1..Len(inbox'[s]) : inbox'[s][i] <= made'
           /\ \A s \in Sockets : InPlace(s)' /\ Follows(s)'
<1> USE DEF RealtimeInv
<1>1. /\ inbox \in [Sockets -> Seq(Nat)] /\ missed \in [Sockets -> BOOLEAN]
      /\ made \in Nat /\ made' \in Nat /\ v \in Nat
  BY DEF RealtimeTypes, Grows
<1>2. ASSUME NEW s \in Sockets
      PROVE  /\ s \notin Members => inbox'[s] = inbox[s] /\ missed'[s] = missed[s]
             /\ s \in Members /\ Len(inbox[s]) < Capacity =>
                    inbox'[s] = Append(inbox[s], v) /\ (missed'[s] <=> room = "chat" /\ missed[s])
             /\ s \in Members /\ ~(Len(inbox[s]) < Capacity) => inbox'[s] = inbox[s] /\ missed'[s]
  <2>1. Len(inbox[s]) \in Nat /\ Capacity \in Nat
    BY <1>1, RealtimeAssumption
  <2>2. (Len(inbox[s]) >= Capacity) = ~(Len(inbox[s]) < Capacity)
    BY <2>1
  <2>3. inbox'[s] = IF s \in Members /\ Len(inbox[s]) < Capacity THEN Append(inbox[s], v)
                                                              ELSE inbox[s]
    BY DEF Announce
  <2>4. missed'[s] = IF s \notin Members THEN missed[s]
                     ELSE ~(Len(inbox[s]) < Capacity) \/ (room = "chat" /\ missed[s])
    BY <2>2, Zenon DEF Announce
  <2> QED
    BY <2>3, <2>4, Zenon
<1>3. inbox' \in [Sockets -> Seq(Nat)]
  <2>1. \A s \in Sockets : Append(inbox[s], v) \in Seq(Nat)
    BY <1>1, Arrives
  <2> QED
    BY <1>1, <2>1 DEF Announce
<1>4. missed' \in [Sockets -> BOOLEAN]
  BY <1>1 DEF Announce
<1>5. ASSUME NEW s \in Sockets, NEW i \in 1..Len(inbox'[s]) PROVE inbox'[s][i] <= made'
  <2>1. \A j \in 1..Len(inbox[s]) : inbox[s][j] <= made'
    BY Wider
  <2>2. CASE inbox'[s] = inbox[s]
    BY <1>5, <2>1, <2>2
  <2>3. CASE inbox'[s] = Append(inbox[s], v)
    <3>1. inbox'[s][i] = v \/ Waits(inbox'[s][i], inbox[s])
      BY <1>1, <1>5, <2>3, Arrives
    <3> QED
      BY <2>1, <3>1 DEF Waits
  <2> QED
    BY <1>2, <2>2, <2>3
<1>6. ASSUME NEW s \in Sockets PROVE InPlace(s)'
  <2>1. s \in Members <=> s \in Members'
    BY DEF Members
  <2>2. CASE s \notin Members
    BY <1>2, <2>1, <2>2 DEF InPlace, Grows, Members
  <2>3. CASE s \in Members
    <3>1. ASSUME sock[s] = "handling"
          PROVE  inbox'[s] # <<>> /\ (room = "board" \/ Head(inbox'[s]) \notin barred'[s])
      <4>1. inbox[s] # <<>> /\ inbox[s] \in Seq(Nat) /\ \A i \in 1..Len(inbox[s]) : inbox[s][i] <= made
        BY <3>1, SocketColumns DEF InPlace
      <4>2. Head(inbox[s]) <= made
        BY <4>1, Handles DEF Waits
      <4>3. room = "board" \/ Head(inbox[s]) \notin barred'[s]
        BY <3>1, <4>2 DEF InPlace, Grows
      <4>4. inbox'[s] = inbox[s] \/ (inbox'[s] # <<>> /\ Head(inbox'[s]) = Head(inbox[s]))
        <5>1. inbox'[s] = inbox[s] \/ inbox'[s] = Append(inbox[s], v)
          BY <1>2, <2>3
        <5>2. Append(inbox[s], v) # <<>> /\ Head(Append(inbox[s], v)) = Head(inbox[s])
          BY <1>1, <4>1, Arrives
        <5> QED
          BY <5>1, <5>2
      <4> QED
        BY <4>1, <4>3, <4>4
    <3> QED
      BY <2>1, <2>3, <3>1 DEF InPlace, Grows
  <2> QED
    BY <2>2, <2>3
<1>7. ASSUME NEW s \in Sockets PROVE Follows(s)'
  <2> SUFFICES ASSUME s \in Members, ~missed'[s] PROVE Follows(s)'
    BY DEF Follows, Members
  <2>1. /\ inbox'[s] = Append(inbox[s], v) /\ announced' = v
        /\ room = "chat" => ~missed[s]
    BY <1>2 DEF Announce
  <2>2. inbox'[s] # <<>> /\ LastOf(inbox'[s]) = v /\ Waits(v, inbox'[s])
    BY <1>1, <2>1, Arrives
  <2>3. CASE room = "chat"
    <3>1. \A x \in 1..made : x > since[s] => x \in shown[s] \/ Waits(x, inbox[s])
      BY <2>1, <2>3 DEF Follows
    <3>2. \A x \in Nat : Waits(x, inbox[s]) => Waits(x, inbox'[s])
      BY <1>1, <2>1, Arrives
    <3>3. \A x \in 1..made' : x \in 1..made \/ x = v
      BY <1>1, <2>3
    <3> QED
      BY <1>1, <2>2, <2>3, <3>1, <3>2, <3>3 DEF Follows
  <2>4. CASE room # "chat"
    BY <2>1, <2>2, <2>4 DEF Follows
  <2> QED
    BY <2>3, <2>4
<1> QED
  BY <1>3, <1>4, <1>5, <1>6, <1>7

\* What a writer is doing next.
LEMMA WriterMoves ==
    ASSUME RealtimeInv, made' \in Nat, made <= made', NEW w \in Writers,
           NEW stage \in Stages, NEW change \in 0..made', Proceed(w, stage, change)
    PROVE  /\ pub' \in [Writers -> [stage : Stages, change : 0..made']]
           /\ pub'[w].stage = stage /\ pub'[w].change = change
           /\ \A o \in Writers \ {w} : pub'[o] = pub[o]
<1>1. pub \in [Writers -> [stage : Stages, change : 0..made']]
  <2>1. 0..made \subseteq 0..made'
    BY DEF RealtimeInv, RealtimeTypes
  <2>2. [stage : Stages, change : 0..made] \subseteq [stage : Stages, change : 0..made']
    BY <2>1
  <2> QED
    BY <2>2 DEF RealtimeInv, RealtimeTypes
<1>2. [stage |-> stage, change |-> change] \in [stage : Stages, change : 0..made']
  OBVIOUS
<1> QED
  BY <1>1, <1>2 DEF Proceed

LEMMA WriterRests ==
    ASSUME RealtimeInv, NEW w \in Writers, End(w), UNCHANGED made
    PROVE  /\ pub' \in [Writers -> [stage : Stages, change : 0..made']]
           /\ pub'[w] = Resting /\ pub'[w].stage = "idle"
           /\ \A o \in Writers \ {w} : pub'[o] = pub[o]
<1>1. Resting \in [stage : Stages, change : 0..made] /\ Resting.stage = "idle"
  BY DEF Resting, Stages, RealtimeInv, RealtimeTypes
<1>2. pub' \in [Writers -> [stage : Stages, change : 0..made]]
  BY <1>1 DEF End, RealtimeInv, RealtimeTypes
<1>3. pub'[w] = Resting /\ \A o \in Writers \ {w} : pub'[o] = pub[o]
  BY DEF End, RealtimeInv, RealtimeTypes
<1> QED
  BY <1>1, <1>2, <1>3

\* Only what writers are doing changes.
LEMMA QuietStep ==
    ASSUME RealtimeInv, room # "figures",
           UNCHANGED <<room, caching, people, screens, made, stored, missed, barred, announced>>,
           pub' \in [Writers -> [stage : Stages, change : 0..made']],
           disturbed' \in BOOLEAN, StagesFit', InTurn'
    PROVE  RealtimeInv'
<1>1. UNCHANGED <<room, may, sock, inbox, shown, since, made, stored, missed, barred, announced,
                  cached, tallied, drawn>>
  BY DEF people, screens, caching
<1>2. RealtimeTypes'
  BY <1>1 DEF RealtimeInv, RealtimeTypes
<1>3. Latest' = Latest
  BY <1>1 DEF Latest
<1>4. ASSUME NEW s \in Sockets PROVE InPlace(s)' /\ Follows(s)'
  BY <1>1, <1>3 DEF RealtimeInv, InPlace, Follows, Members
<1> QED
  BY <1>2, <1>4 DEF RealtimeInv

LEMMA AskStep ==
    ASSUME RealtimeInv, NEW w \in Writers, AskToPublish(w) \/ ReadOrder(w)
    PROVE  RealtimeInv'
<1> USE DEF RealtimeInv
<1>1. made \in Nat /\ Latest \in 0..made /\ disturbed \in BOOLEAN
  <2>1. made \in Nat /\ stored \subseteq 1..made /\ disturbed \in BOOLEAN
    BY DEF RealtimeTypes
  <2>2. Latest \in stored \cup {0}
    BY <2>1, LatestStored
  <2> QED
    BY <2>1, <2>2
<1>2. /\ UNCHANGED <<room, caching, people, screens, made, stored, missed, barred, announced>>
      /\ Latest' = Latest
  BY DEF AskToPublish, ReadOrder, Latest
<1>3. CASE AskToPublish(w)
  <2>1. /\ room = "tracking" /\ pub[w] = Resting /\ Proceed(w, "asked", 0)
        /\ disturbed' = (disturbed \/ \E o \in Writers \ {w} : pub[o] # Resting)
    BY <1>3 DEF AskToPublish, Begin, Proceed
  <2>2. /\ pub' \in [Writers -> [stage : Stages, change : 0..made']]
        /\ pub'[w].stage = "asked" /\ \A o \in Writers \ {w} : pub'[o] = pub[o]
    BY <1>1, <1>2, <2>1, WriterMoves DEF Stages
  <2>3. StagesFit'
    BY <1>2, <2>1, <2>2 DEF StagesFit
  <2>4. InTurn'
    <3>1. Resting.stage = "idle"
      BY DEF Resting
    <3>2. ~disturbed' => ~disturbed /\ \A o \in Writers \ {w} : pub[o] = Resting
      BY <2>1, Zenon
    <3>3. \A o \in Writers : ~disturbed' => pub[o] = Resting
      BY <2>1, <3>2
    <3> QED
      BY <1>2, <2>1, <2>2, <3>1, <3>2, <3>3 DEF InTurn
  <2>5. disturbed' \in BOOLEAN
    BY <2>1
  <2> QED
    BY <1>2, <2>1, <2>2, <2>3, <2>4, <2>5, QuietStep
<1>4. CASE ReadOrder(w)
  <2>1. /\ pub[w].stage = "committed" /\ Proceed(w, "made", Latest) /\ room = "board"
        /\ disturbed' = disturbed
    BY <1>4 DEF ReadOrder, StagesFit
  <2>2. /\ pub' \in [Writers -> [stage : Stages, change : 0..made']]
        /\ pub'[w].stage = "made" /\ pub'[w].change = Latest
        /\ \A o \in Writers \ {w} : pub'[o] = pub[o]
    BY <1>1, <1>2, <2>1, WriterMoves DEF Stages
  <2>3. StagesFit'
    BY <1>2, <2>1, <2>2 DEF StagesFit
  <2>4. InTurn'
    <3>1. Resting.stage = "idle"
      BY DEF Resting
    <3> QED
      BY <1>2, <2>1, <2>2, <3>1 DEF InTurn
  <2> QED
    BY <1>1, <1>2, <2>1, <2>2, <2>3, <2>4, QuietStep
<1> QED
  BY <1>3, <1>4

\* Changes that are announced later, or to nobody.
LEMMA SaveStep ==
    ASSUME RealtimeInv, NEW w \in Writers, SavePosition(w) \/ ChangeOrder(w) \/ SaveAlone(w)
    PROVE  RealtimeInv'
<1> USE DEF RealtimeInv
<1>1. /\ Make /\ stored' = stored \cup {made'}
      /\ UNCHANGED <<room, caching, people, screens, missed, announced>>
      /\ made' = made + 1 /\ made \in Nat /\ disturbed \in BOOLEAN
  BY MakeGrows DEF SavePosition, ChangeOrder, SaveAlone, Make, RealtimeTypes
<1>2. Resting.stage = "idle"
  BY DEF Resting
<1>3. CASE SavePosition(w)
  <2>1. pub[w].stage = "asked" /\ room = "tracking" /\ Proceed(w, "made", made') /\ disturbed' = disturbed
    BY <1>3 DEF SavePosition, StagesFit
  <2>2. /\ pub' \in [Writers -> [stage : Stages, change : 0..made']]
        /\ pub'[w].stage = "made" /\ pub'[w].change = made'
        /\ \A o \in Writers \ {w} : pub'[o] = pub[o]
    BY <1>1, <2>1, WriterMoves DEF Stages
  <2>3. StagesFit'
    BY <1>1, <2>1, <2>2 DEF StagesFit
  <2>4. Latest' = made' => InTurn'
    BY <1>1, <1>2, <2>1, <2>2 DEF InTurn
  <2> QED
    BY <1>1, <2>1, <2>2, <2>3, <2>4, SilentChange
<1>4. CASE ChangeOrder(w)
  <2>1. /\ room = "board" /\ pub[w] = Resting /\ Proceed(w, "committed", made')
        /\ disturbed' = (disturbed \/ \E o \in Writers \ {w} : pub[o] # Resting)
    BY <1>4 DEF ChangeOrder, Begin, Proceed
  <2>2. /\ pub' \in [Writers -> [stage : Stages, change : 0..made']]
        /\ pub'[w].stage = "committed" /\ \A o \in Writers \ {w} : pub'[o] = pub[o]
    BY <1>1, <2>1, WriterMoves DEF Stages
  <2>3. StagesFit'
    BY <1>1, <2>1, <2>2 DEF StagesFit
  <2>4. Latest' = made' => InTurn'
    <3>1. ~disturbed' => ~disturbed /\ \A o \in Writers \ {w} : pub[o] = Resting
      BY <2>1, Zenon
    <3> QED
      BY <1>1, <1>2, <2>1, <2>2, <3>1 DEF InTurn
  <2>5. disturbed' \in BOOLEAN
    BY <2>1
  <2> QED
    BY <1>1, <2>1, <2>2, <2>3, <2>4, <2>5, SilentChange
<1>5. CASE SaveAlone(w)
  <2>1. /\ room = "figures" /\ Proceed(w, "made", made') /\ disturbed' = disturbed
    BY <1>1, <1>5, Zenon DEF SaveAlone, Begin, Proceed
  <2>2. /\ pub' \in [Writers -> [stage : Stages, change : 0..made']]
        /\ pub'[w].stage = "made" /\ \A o \in Writers \ {w} : pub'[o] = pub[o]
    BY <1>1, <2>1, WriterMoves DEF Stages
  <2>3. StagesFit'
    BY <1>1, <2>1, <2>2 DEF StagesFit
  <2>4. InTurn'
    BY <1>1, <2>1 DEF InTurn
  <2> QED
    BY <1>1, <2>1, <2>2, <2>3, <2>4, SilentChange
<1> QED
  BY <1>3, <1>4, <1>5

LEMMA SilentStep ==
    ASSUME RealtimeInv, UpdateLocation \/ CancelOrder
    PROVE  RealtimeInv'
<1> USE DEF RealtimeInv
<1>1. /\ room \in {"tracking", "board"} /\ Make /\ stored' = stored \cup {made'}
      /\ disturbed' = TRUE /\ pub' = pub
      /\ UNCHANGED <<room, caching, people, screens, missed, announced>>
  BY DEF UpdateLocation, CancelOrder, ChangeInSilence
<1>2. Grows
  BY <1>1, MakeGrows DEF people
<1>3. pub' \in [Writers -> [stage : Stages, change : 0..made']]
  BY <1>1, <1>2, Wider
<1>4. StagesFit' /\ InTurn' /\ disturbed' \in BOOLEAN
  BY <1>1 DEF StagesFit, InTurn
<1> QED
  BY <1>1, <1>3, <1>4, SilentChange

\* A change that is announced before it is committed ...
LEMMA TransactionStep ==
    ASSUME RealtimeInv, NEW w \in Writers, ChangeInTransaction(w)
    PROVE  RealtimeInv'
<1> USE DEF RealtimeInv
<1>1. /\ room # "tracking" /\ pub[w] = Resting /\ Make /\ Announce(made')
      /\ Proceed(w, "uncommitted", made')
      /\ disturbed' = (disturbed \/ (room # "figures" /\ \E o \in Writers \ {w} : pub[o] # Resting))
      /\ UNCHANGED <<room, caching, may, sock, shown, since, stored>>
  BY DEF ChangeInTransaction, Begin, Proceed, people
<1>2. Grows /\ made' = made + 1 /\ made \in Nat /\ made' \in 0..made'
  BY <1>1, MakeGrows DEF Grows, RealtimeTypes
<1>3. /\ inbox' \in [Sockets -> Seq(Nat)] /\ missed' \in [Sockets -> BOOLEAN]
      /\ \A s \in Sockets : \A i \in 1..Len(inbox'[s]) : inbox'[s][i] <= made'
      /\ \A s \in Sockets : InPlace(s)' /\ Follows(s)'
  BY <1>1, <1>2, Announced
<1>4. /\ pub' \in [Writers -> [stage : Stages, change : 0..made']]
      /\ pub'[w].stage = "uncommitted" /\ pub'[w].change = made'
      /\ \A o \in Writers \ {w} : pub'[o] = pub[o]
  BY <1>1, <1>2, WriterMoves DEF Stages
<1>5. announced' = made' /\ announced' \in 0..made' /\ disturbed' \in BOOLEAN /\ stored' \subseteq 1..made'
  <2>1. announced' = made'
    BY <1>1 DEF Announce
  <2>2. disturbed' \in BOOLEAN
    BY <1>1
  <2> QED
    BY <1>1, <1>2, <2>1, <2>2, Wider
<1>6. RealtimeTypes'
  BY <1>1, <1>2, <1>3, <1>4, <1>5, WriterTypes
<1>7. StagesFit'
  BY <1>1, <1>2, <1>4 DEF StagesFit
<1>8. InTurn'
  <2>1. Resting.stage = "idle"
    BY DEF Resting
  <2>2. \A v \in stored' : v <= made'
    BY <1>2, <1>5
  <2>3. CASE room = "board"
    <3>1. ~disturbed' => ~disturbed /\ \A o \in Writers \ {w} : pub[o] = Resting
      BY <1>1, <2>3
    <3> QED
      BY <1>1, <1>4, <1>5, <2>1, <2>2, <3>1 DEF InTurn
  <2> QED
    BY <1>1, <2>3 DEF InTurn
<1> QED
  BY <1>3, <1>6, <1>7, <1>8

\* ... or rolled back.
LEMMA EndStep ==
    ASSUME RealtimeInv, NEW w \in Writers, NEW commits \in BOOLEAN, EndTransaction(w, commits)
    PROVE  RealtimeInv'
<1> USE DEF RealtimeInv
<1> DEFINE change == pub[w].change
<1>1. /\ pub[w].stage = "uncommitted" /\ End(w) /\ room # "tracking"
      /\ change \in 1..made /\ made \in Nat
      /\ UNCHANGED <<room, may, sock, inbox, shown, since, made, barred, announced, cached,
                     tallied, drawn>>
  <2>1. pub[w].change \in 0..made /\ made \in Nat
    BY DEF RealtimeTypes
  <2> QED
    BY <2>1 DEF EndTransaction, InTransaction, people, screens, caching, StagesFit
<1>2. /\ pub' \in [Writers -> [stage : Stages, change : 0..made']]
      /\ pub'[w] = Resting /\ pub'[w].stage = "idle" /\ \A o \in Writers \ {w} : pub'[o] = pub[o]
  BY <1>1, WriterRests
<1>3. /\ stored' = IF commits THEN stored \cup {change} ELSE stored
      /\ missed' = [s \in Sockets |->
            missed[s] \/ (/\ room = "figures" /\ commits
                          /\ sock[s] \in {"open", "computed"} /\ inbox[s] = <<>>)]
  BY DEF EndTransaction
<1>4. /\ disturbed' \in BOOLEAN /\ (~disturbed' => ~disturbed)
      /\ room = "board" /\ ~commits => disturbed'
  BY DEF EndTransaction
<1>5. stored' \subseteq 1..made /\ missed' \in [Sockets -> BOOLEAN]
  <2>1. stored \subseteq 1..made /\ missed \in [Sockets -> BOOLEAN]
    BY DEF RealtimeTypes
  <2>2. stored' \subseteq 1..made
    BY <1>1, <1>3, <2>1
  <2>3. missed' \in [Sockets -> BOOLEAN]
    BY <1>3, <2>1
  <2> QED
    BY <2>2, <2>3
<1>6. RealtimeTypes'
  BY <1>1, <1>2, <1>4, <1>5 DEF RealtimeTypes
<1>7. StagesFit'
  BY <1>1, <1>2 DEF StagesFit
<1>8. InTurn'
  <2> SUFFICES ASSUME ~disturbed', room = "board" PROVE InTurn'
    BY <1>1 DEF InTurn
  <2>1. commits /\ ~disturbed
    BY <1>4
  <2>2. \A o \in Writers \ {w} : pub[o] = Resting
    BY <1>1, <2>1 DEF InTurn, Resting
  <2>3. announced = change /\ \A v \in stored : v <= change
    BY <1>1, <2>1 DEF InTurn
  <2>4. Latest' = change
    <3>1. Latest' \in stored' \cup {0} /\ \A v \in stored' : v <= Latest'
      BY <1>1, <1>5, LatestOf DEF Latest
    <3>2. stored' = stored \cup {change} /\ stored \subseteq Nat
      BY <1>3, <2>1, SocketColumns DEF RealtimeTypes
    <3> QED
      BY <1>1, <2>3, <3>1, <3>2
  <2>5. Resting.stage = "idle"
    BY DEF Resting
  <2>6. \A o \in Writers : pub'[o] = Resting /\ pub'[o].stage = "idle"
    BY <1>2, <2>2, <2>5
  <2> QED
    BY <1>1, <2>3, <2>4, <2>6 DEF InTurn
<1>9. ASSUME NEW s \in Sockets PROVE InPlace(s)' /\ Follows(s)'
  <2>1. InPlace(s)'
    BY <1>1 DEF InPlace, Members
  <2>2. CASE room = "figures"
    <3>1. ASSUME ~missed'[s], sock[s] = "open", inbox[s] = <<>>,
                 \A o \in Writers : pub'[o].stage # "made"
          PROVE  shown[s] = stored'
      <4>1. ~missed[s] /\ ~commits
        BY <1>3, <2>2, <3>1
      <4>2. \A o \in Writers : pub[o].stage # "made"
        BY <1>1, <1>2, <3>1
      <4> QED
        BY <1>3, <2>2, <3>1, <4>1, <4>2 DEF Follows, Members
    <3> QED
      BY <1>1, <2>1, <2>2, <3>1 DEF Follows, Members
  <2>3. CASE room # "figures"
    <3>1. missed'[s] = missed[s]
      BY <1>3, <2>3 DEF RealtimeTypes
    <3> QED
      BY <1>1, <2>1, <2>3, <3>1 DEF Follows, Members
  <2> QED
    BY <2>1, <2>2, <2>3
<1> QED
  BY <1>6, <1>7, <1>8, <1>9

\* What was saved is announced, if the channel layer works.
LEMMA BroadcastStep ==
    ASSUME RealtimeInv, NEW w \in Writers, NEW reached \in BOOLEAN, Broadcast(w, reached)
    PROVE  RealtimeInv'
<1> USE DEF RealtimeInv
<1> DEFINE change == pub[w].change
<1>1. /\ pub[w].stage = "made" /\ End(w) /\ room # "chat" /\ change \in 0..made
      /\ UNCHANGED <<room, caching, may, sock, shown, since, made, stored, barred>>
  BY DEF Broadcast, people, StagesFit, RealtimeTypes
<1>2. /\ pub' \in [Writers -> [stage : Stages, change : 0..made']]
      /\ pub'[w] = Resting /\ pub'[w].stage = "idle" /\ \A o \in Writers \ {w} : pub'[o] = pub[o]
  BY <1>1, WriterRests
<1>3. Grows /\ Latest' = Latest
  BY <1>1 DEF Grows, RealtimeTypes, Latest
<1>4. StagesFit'
  BY <1>1, <1>2 DEF StagesFit
<1>5. CASE reached
  <2>1. Announce(change) /\ disturbed' = disturbed /\ announced' = change
    BY <1>5 DEF Broadcast, Announce
  <2>2. /\ inbox' \in [Sockets -> Seq(Nat)] /\ missed' \in [Sockets -> BOOLEAN]
        /\ \A s \in Sockets : \A i \in 1..Len(inbox'[s]) : inbox'[s][i] <= made'
        /\ \A s \in Sockets : InPlace(s)' /\ Follows(s)'
    BY <1>1, <1>3, <2>1, Announced
  <2>3. disturbed' \in BOOLEAN /\ announced' \in 0..made' /\ stored' \subseteq 1..made'
    BY <1>1, <2>1 DEF RealtimeTypes
  <2>4. RealtimeTypes'
    BY <1>1, <1>2, <1>3, <2>2, <2>3, WriterTypes
  <2>5. InTurn'
    <3> SUFFICES ASSUME ~disturbed, room \in {"tracking", "board"} PROVE InTurn'
      BY <1>1, <2>1 DEF InTurn
    <3>1. change = Latest
      BY <1>1 DEF InTurn
    <3>2. \A o \in Writers \ {w} : pub[o] = Resting
      BY <1>1 DEF InTurn, Resting
    <3>3. Resting.stage = "idle"
      BY DEF Resting
    <3>4. \A o \in Writers : pub'[o] = Resting /\ pub'[o].stage = "idle"
      BY <1>2, <3>2, <3>3
    <3> QED
      BY <1>3, <2>1, <3>1, <3>4 DEF InTurn
  <2> QED
    BY <1>4, <2>2, <2>4, <2>5
<1>6. CASE ~reached
  <2>1. /\ missed' = [s \in Sockets |-> missed[s] \/ s \in Members]
        /\ disturbed' = (disturbed \/ room # "figures") /\ UNCHANGED <<inbox, announced>>
    BY <1>6 DEF Broadcast
  <2>2. missed' \in [Sockets -> BOOLEAN] /\ disturbed' \in BOOLEAN
    BY <2>1
  <2>3. RealtimeTypes'
    BY <1>1, <1>2, <2>1, <2>2 DEF RealtimeTypes, caching
  <2>4. InTurn'
    BY <1>1, <2>1 DEF InTurn
  <2>5. ASSUME NEW s \in Sockets PROVE InPlace(s)' /\ Follows(s)'
    <3>1. s \in Members => missed'[s]
      BY <2>1
    <3>2. InPlace(s)'
      BY <1>1, <2>1 DEF InPlace, Members
    <3> QED
      BY <1>1, <3>1, <3>2 DEF Follows, Members
  <2> QED
    BY <1>4, <2>3, <2>4, <2>5
<1> QED
  BY <1>5, <1>6
-----------------------------------------------------------------------------
\* What dashboards and time do to the cache.
CacheMoves == \/ CountForDashboard \/ ExpireFigures
              \/ \E content \in tallied : KeepForDashboard(content)

LEMMA CacheStep ==
    ASSUME CacheMoves
    PROVE  /\ UNCHANGED <<room, courier, may, sock, inbox, shown, since, made, stored, pub, missed,
                          barred, announced, disturbed, drawn>>
           /\ cached' \subseteq cached \cup tallied /\ tallied' \subseteq tallied \cup {stored}
           /\ cached' = cached \/ \E content : cached' \subseteq {content}
<1>1. CASE CountForDashboard
  BY <1>1 DEF CountForDashboard, people, screens
<1>2. CASE ExpireFigures
  BY <1>2 DEF ExpireFigures, people, screens
<1>3. CASE \E content \in tallied : KeepForDashboard(content)
  BY <1>3 DEF KeepForDashboard, people, screens
<1> QED
  BY <1>1, <1>2, <1>3 DEF CacheMoves

LEMMA RealtimeInvStep ==
    ASSUME RealtimeInv, [RealtimeNext]_realtimeVars, \A s \in Sockets : Draws(s)
    PROVE  RealtimeInv'
<1>1. ASSUME NEW s \in Sockets,
             \/ SetAccess(s)
             \/ Connect(s) \/ Join(s) \/ Disconnect(s)
             \/ SendPosition(s)
             \/ AskForFigures(s) \/ SendCached(s) \/ CountFigures(s) \/ SendFigures(s)
             \/ Handle(s) \/ SendAnnounced(s)
      PROVE  RealtimeInv'
  <2>1. CASE SetAccess(s)
    BY <2>1, RightsStep
  <2>2. CASE Connect(s) \/ Join(s)
    BY <2>2, ConnectStep
  <2>3. CASE Disconnect(s)
    BY <2>3, LeaveStep DEF Disconnect
  <2>4. CASE SendPosition(s)
    BY <2>4, PositionStep
  <2>5. CASE AskForFigures(s) \/ SendCached(s) \/ CountFigures(s) \/ SendFigures(s)
    BY <2>5, FiguresStep
  <2>6. CASE Handle(s)
    BY <2>6, HandleStep
  <2>7. CASE SendAnnounced(s)
    BY <2>7, SendingStep
  <2> QED
    BY <1>1, <2>1, <2>2, <2>3, <2>4, <2>5, <2>6, <2>7
<1>2. ASSUME NEW w \in Writers,
             \/ AskToPublish(w) \/ SavePosition(w)
             \/ ChangeOrder(w) \/ ReadOrder(w)
             \/ ChangeInTransaction(w) \/ SaveAlone(w)
             \/ \E b \in BOOLEAN : EndTransaction(w, b) \/ Broadcast(w, b)
      PROVE  RealtimeInv'
  <2>1. CASE AskToPublish(w) \/ ReadOrder(w)
    BY <2>1, AskStep
  <2>2. CASE SavePosition(w) \/ ChangeOrder(w) \/ SaveAlone(w)
    BY <2>2, SaveStep
  <2>3. CASE ChangeInTransaction(w)
    BY <2>3, TransactionStep
  <2>4. CASE \E b \in BOOLEAN : EndTransaction(w, b) \/ Broadcast(w, b)
    BY <2>4, EndStep, BroadcastStep
  <2> QED
    BY <1>2, <2>1, <2>2, <2>3, <2>4
<1>3. CASE \E stage \in {"none", "accepted", "underway"} : SetCourier(stage)
  BY <1>3, RightsStep
<1>4. CASE UpdateLocation \/ CancelOrder
  BY <1>4, SilentStep
<1>5. CASE UNCHANGED realtimeVars \/ CacheMoves
  <2>0. /\ UNCHANGED <<room, may, sock, inbox, shown, since, made, stored, pub, missed, barred,
                       announced, disturbed, drawn>>
        /\ cached' \cup tallied' \subseteq SUBSET Nat
    <3>1. cached \cup tallied \subseteq SUBSET Nat /\ stored \in SUBSET Nat
      BY DEF RealtimeInv, RealtimeTypes
    <3>2. CASE UNCHANGED realtimeVars
      BY <3>1, <3>2 DEF realtimeVars, people, screens, caching
    <3>3. CASE CacheMoves
      BY <3>1, <3>3, CacheStep
    <3> QED
      BY <1>5, <3>2, <3>3
  <2>1. UNCHANGED <<room, may, sock, inbox, shown, since, made, stored, pub, missed, barred,
                    announced, disturbed, drawn>>
    BY <2>0
  <2>2. Latest' = Latest
    BY <2>1 DEF Latest
  <2>3. RealtimeTypes' /\ StagesFit' /\ InTurn'
    BY <2>0, <2>1, <2>2 DEF RealtimeInv, RealtimeTypes, StagesFit, InTurn
  <2>4. ASSUME NEW s \in Sockets PROVE InPlace(s)' /\ Follows(s)'
    BY <2>1, <2>2 DEF RealtimeInv, InPlace, Follows, Members
  <2> QED
    BY <2>3, <2>4 DEF RealtimeInv
<1> QED
  BY <1>1, <1>2, <1>3, <1>4, <1>5 DEF RealtimeNext, CacheMoves

\* An announcement reaches a socket of the group, or is missed.
LEMMA Tells ==
    ASSUME RealtimeInv, NEW s \in Sockets, NEW v \in Nat, Announce(v), s \in Members
    PROVE  inbox'[s] # <<>> \/ missed'[s]
<1>1. Len(inbox[s]) \in Nat /\ Capacity \in Nat /\ inbox[s] \in Seq(Nat)
  BY RealtimeAssumption DEF RealtimeInv, RealtimeTypes
<1>2. CASE Len(inbox[s]) < Capacity
  <2>1. inbox'[s] = Append(inbox[s], v)
    BY <1>2, Zenon DEF Announce
  <2> QED
    BY <1>1, <2>1, Arrives
<1>3. CASE ~(Len(inbox[s]) < Capacity)
  <2>1. Len(inbox[s]) >= Capacity
    BY <1>1, <1>3
  <2>2. missed'[s] = TRUE
    BY <2>1, Zenon DEF Announce
  <2> QED
    BY <2>2
<1> QED
  BY <1>2, <1>3

LEMMA DrawsStep ==
    ASSUME RealtimeInv, [RealtimeNext]_realtimeVars, \A s \in Sockets : Draws(s), NEW s \in Sockets
    PROVE  Draws(s)'
<1> USE DEF RealtimeInv
<1>1. /\ sock \in [Sockets -> Places] /\ drawn \in [Sockets -> SUBSET Nat]
      /\ missed \in [Sockets -> BOOLEAN] /\ inbox \in [Sockets -> Seq(Nat)]
  BY DEF RealtimeTypes
<1>2. CASE \E o \in Sockets : CountFigures(o)
  <2>1. PICK o \in Sockets : CountFigures(o)
    BY <1>2
  <2>2. /\ drawn' = [drawn EXCEPT ![o] = stored] /\ sock' = [sock EXCEPT ![o] = "computed"]
        /\ missed' = [missed EXCEPT ![o] = FALSE] /\ UNCHANGED <<inbox, pub, stored>>
    BY <2>1 DEF CountFigures, At, Missing, Steady
  <2>3. CASE o = s
    BY <1>1, <2>2, <2>3 DEF Draws
  <2>4. CASE o # s
    BY <1>1, <2>2, <2>4 DEF Draws
  <2> QED
    BY <2>3, <2>4
<1>3. CASE \E o \in Sockets :
              \/ Connect(o) \/ Join(o) \/ Disconnect(o) \/ SendPosition(o) \/ AskForFigures(o)
              \/ SendCached(o) \/ SendFigures(o) \/ Handle(o) \/ SendAnnounced(o)
  <2>1. PICK o \in Sockets :
              \/ Connect(o) \/ Join(o) \/ Disconnect(o) \/ SendPosition(o) \/ AskForFigures(o)
              \/ SendCached(o) \/ SendFigures(o) \/ Handle(o) \/ SendAnnounced(o)
    BY <1>3
  <2>2. UNCHANGED <<pub, stored>>
    BY <2>1 DEF Connect, Join, Disconnect, SendPosition, AskForFigures, SendCached, SendFigures,
       Handle, SendAnnounced, Leave, Steady
  <2>3. PICK place \in Places \ {"computed"} : sock' = [sock EXCEPT ![o] = place]
    BY <2>1 DEF Connect, Join, Disconnect, SendPosition, AskForFigures, SendCached, SendFigures,
       Handle, SendAnnounced, Leave, At, Places
  <2>4. CASE o = s
    BY <1>1, <2>3, <2>4 DEF Draws
  <2>5. CASE o # s
    <3>1. /\ inbox'[s] = inbox[s]
      BY <1>1, <2>1, <2>5 DEF Connect, Join, Disconnect, SendPosition, AskForFigures, SendCached,
         SendFigures, Handle, SendAnnounced, Leave, Handled
    <3>2. missed'[s] = missed[s]
      BY <1>1, <2>1, <2>5 DEF Connect, Join, Disconnect, SendPosition, AskForFigures, SendCached,
         SendFigures, Handle, SendAnnounced, Leave, Missing
    <3>3. drawn'[s] = drawn[s]
      BY <1>1, <2>1, <2>5 DEF Connect, Join, Disconnect, SendPosition, AskForFigures, SendCached,
         SendFigures, Handle, SendAnnounced, Leave, caching
    <3> QED
      BY <1>1, <2>2, <2>3, <2>5, <3>1, <3>2, <3>3 DEF Draws
  <2> QED
    BY <2>4, <2>5
<1>4. CASE UNCHANGED <<sock, inbox, missed, drawn, stored, pub>>
  BY <1>4 DEF Draws
<1>5. CASE \/ UNCHANGED realtimeVars \/ CacheMoves \/ \E o \in Sockets : SetAccess(o)
           \/ \E stage \in {"none", "accepted", "underway"} : SetCourier(stage)
  BY <1>4, <1>5, CacheStep DEF realtimeVars, screens, caching, SetAccess, SetCourier
<1>6. CASE UNCHANGED sock /\ room # "figures"
  BY <1>6 DEF Draws, InPlace
<1>7. CASE UpdateLocation \/ CancelOrder
  BY <1>6, <1>7 DEF UpdateLocation, CancelOrder, ChangeInSilence, screens
<1>8. ASSUME NEW w \in Writers,
             AskToPublish(w) \/ SavePosition(w) \/ ChangeOrder(w) \/ ReadOrder(w)
      PROVE  Draws(s)'
  BY <1>6, <1>8 DEF AskToPublish, SavePosition, ChangeOrder, ReadOrder, screens, StagesFit
<1>9. ASSUME NEW w \in Writers, SaveAlone(w) PROVE Draws(s)'
  <2>1. Proceed(w, "made", made') /\ made \in Nat /\ made' \in 0..made' /\ made <= made'
    BY <1>9 DEF SaveAlone, Begin, Proceed, Make, RealtimeTypes
  <2>2. pub'[w].stage = "made"
    BY <2>1, WriterMoves DEF Stages
  <2> QED
    BY <2>2 DEF Draws
<1>10. ASSUME NEW w \in Writers, ChangeInTransaction(w) PROVE Draws(s)'
  <2>1. Announce(made') /\ made' \in Nat /\ UNCHANGED sock
    BY <1>10 DEF ChangeInTransaction, Make, RealtimeTypes
  <2> QED
    BY <2>1, Tells DEF Draws, Members
<1>11. ASSUME NEW w \in Writers, NEW reached \in BOOLEAN, Broadcast(w, reached) PROVE Draws(s)'
  <2>1. UNCHANGED sock /\ pub[w].change \in Nat
    BY <1>11 DEF Broadcast, RealtimeTypes
  <2>2. s \in Members => inbox'[s] # <<>> \/ missed'[s]
    BY <1>1, <1>11, <2>1, Tells DEF Broadcast
  <2> QED
    BY <2>1, <2>2 DEF Draws, Members
<1>12. ASSUME NEW w \in Writers, NEW commits \in BOOLEAN, EndTransaction(w, commits) PROVE Draws(s)'
  <2>1. /\ UNCHANGED <<room, sock, inbox, drawn>> /\ pub[w].stage = "uncommitted"
        /\ stored' = (IF commits THEN stored \cup {pub[w].change} ELSE stored)
        /\ End(w) /\ UNCHANGED made
        /\ missed'[s] = (missed[s] \/ (/\ room = "figures" /\ commits
                                       /\ sock[s] \in {"open", "computed"} /\ inbox[s] = <<>>))
    BY <1>12, Zenon DEF EndTransaction, InTransaction, screens, caching
  <2>2. ASSUME sock[s] = "computed", ~missed'[s], inbox[s] = <<>>,
               \A o \in Writers : pub'[o].stage # "made"
        PROVE  drawn[s] = stored'
    <3>1. room = "figures"
      BY <2>2 DEF InPlace
    <3>2. ~missed[s] /\ ~commits
      BY <2>1, <2>2, <3>1
    <3>3. \A o \in Writers : pub[o].stage # "made"
      BY <2>1, <2>2, WriterRests
    <3> QED
      BY <2>1, <2>2, <3>2, <3>3 DEF Draws
  <2> QED
    BY <2>1, <2>2 DEF Draws
<1> QED
  BY <1>2, <1>3, <1>5, <1>7, <1>8, <1>9, <1>10, <1>11, <1>12 DEF RealtimeNext, CacheMoves

LEMMA RealtimeInvariant == RealtimeSpec => []RealtimeInv
<1> DEFINE AllDraw == \A s \in Sockets : Draws(s)
<1>1. RealtimeInit => RealtimeInv /\ AllDraw
  BY RealtimeInitInv DEF RealtimeInit, Draws
<1>2. RealtimeInv /\ AllDraw /\ [RealtimeNext]_realtimeVars => RealtimeInv' /\ AllDraw'
  BY RealtimeInvStep, DrawsStep
<1> QED
  BY <1>1, <1>2, PTL DEF RealtimeSpec

\* A screen that misses nothing for a reason which ScreensFollow names follows what is
\* stored, whatever the number of sockets and writers and the capacity of an inbox:
\* group_send of every room, what the consumers of delivery/consumers.py,
\* orders/consumers.py, vendors/consumers.py and backend/consumers/admin_stats.py make of
\* it, and the cache of figures of accounts/actions/admin_actions.py, whose age is one of
\* the reasons.
THEOREM ScreensAreCurrent == RealtimeSpec => []ScreensFollow
<1>1. RealtimeInv => ScreensFollow
  <2> SUFFICES ASSUME RealtimeInv, NEW s \in Sockets, sock[s] = "open", inbox[s] = <<>>,
                      ~missed[s], \A w \in Writers : pub[w] = Resting
               PROVE  CASE room = "chat"    -> {v \in stored : v > since[s]} \subseteq shown[s]
                        [] room = "figures" -> shown[s] = stored
                        [] OTHER            ->
                              /\ disturbed \/ announced = Latest
                              /\ announced = Latest =>
                                    \/ shown[s] = {announced}
                                    \/ room = "board" /\ announced <= since[s] /\ shown[s] = {}
    BY DEF ScreensFollow
  <2>1. Follows(s) /\ InTurn /\ s \in Members /\ ~missed[s]
    BY DEF RealtimeInv, Members
  <2>2. Resting.stage = "idle"
    BY DEF Resting
  <2>3. \A v : ~Waits(v, inbox[s])
    <3>1. Len(inbox[s]) = 0
      BY EmptySeq, Zenon
    <3> QED
      BY <3>1 DEF Waits
  <2>4. stored \subseteq 1..made /\ room \in Kinds
    BY DEF RealtimeInv, RealtimeTypes
  <2>5. CASE room = "chat"
    BY <2>1, <2>3, <2>4, <2>5 DEF Follows
  <2>6. CASE room = "figures"
    BY <2>1, <2>2, <2>6 DEF Follows
  <2>7. CASE room \in {"tracking", "board"}
    BY <2>1, <2>7 DEF Follows, InTurn
  <2> QED
    BY <2>4, <2>5, <2>6, <2>7 DEF Kinds
<1> QED
  BY <1>1, RealtimeInvariant, PTL

\* Nobody is sent what came about after they were barred from a room, but by a board and
\* by what a socket reads itself between asking and sending: the checks of access that
\* the handlers of the consumers repeat before they send.
THEOREM SentToTheEntitled == RealtimeSpec => SentWhileEntitled
<1> DEFINE Entitled(s) == (shown'[s] \ shown[s]) \cap barred[s] # {} =>
                        \/ room = "board"
                        \/ sock[s] = "joined" /\ room = "tracking"
                        \/ sock[s] \in {"allowed", "computed"}
<1>1. RealtimeInv /\ [RealtimeNext]_realtimeVars => \A s \in Sockets : Entitled(s)
  <2> SUFFICES ASSUME RealtimeInv, [RealtimeNext]_realtimeVars, NEW s \in Sockets PROVE Entitled(s)
    OBVIOUS
  <2>1. shown \in [Sockets -> SUBSET Nat]
    BY DEF RealtimeInv, RealtimeTypes
  <2>2. CASE \E o \in Sockets : SendPosition(o)
    <3>1. PICK o \in Sockets : SendPosition(o)
      BY <2>2
    <3>2. /\ room = "tracking" /\ sock[o] = "joined"
          /\ shown' = [shown EXCEPT ![o] = {Latest}] \/ shown' = shown
      BY <3>1 DEF SendPosition, Shows
    <3> QED
      BY <2>1, <3>2
  <2>3. CASE \E o \in Sockets : SendCached(o) \/ SendFigures(o)
    <3>1. PICK o \in Sockets : /\ sock[o] \in {"allowed", "computed"}
                               /\ \E content : shown' = [shown EXCEPT ![o] = content]
      BY <2>3 DEF SendCached, SendFigures, Shows
    <3> QED
      BY <2>1, <3>1
  <2>4. CASE \E o \in Sockets : SendAnnounced(o)
    <3>1. PICK o \in Sockets : SendAnnounced(o)
      BY <2>4
    <3> DEFINE content == (IF room = "chat" THEN shown[o] ELSE {}) \cup {Head(inbox[o])}
    <3>2. shown' = [shown EXCEPT ![o] = content] /\ sock[o] = "handling"
      BY <3>1 DEF SendAnnounced, Shows
    <3>3. room = "board" \/ Head(inbox[o]) \notin barred[o]
      BY <3>2 DEF RealtimeInv, InPlace
    <3>4. o = s => shown'[s] \ shown[s] \subseteq {Head(inbox[o])}
      BY <2>1, <3>2
    <3>5. o # s => shown'[s] = shown[s]
      BY <2>1, <3>2
    <3> QED
      BY <3>3, <3>4, <3>5
  <2>5. CASE \E o \in Sockets : AskForFigures(o) \/ Disconnect(o) \/ Handle(o)
    <3>1. PICK o \in Sockets : AskForFigures(o) \/ Disconnect(o) \/ Handle(o)
      BY <2>5
    <3>2. shown' = [shown EXCEPT ![o] = {}] \/ shown' = shown
      BY <3>1 DEF AskForFigures, Disconnect, Handle, Leave, Shows
    <3> QED
      BY <2>1, <3>2
  <2>6. CASE \E o \in Sockets : SetAccess(o) \/ Connect(o) \/ Join(o) \/ CountFigures(o)
    BY <2>6 DEF SetAccess, Connect, Join, CountFigures, screens
  <2>9. CASE CacheMoves
    BY <2>9, CacheStep
  <2>7. CASE \/ UpdateLocation \/ CancelOrder \/ UNCHANGED realtimeVars
             \/ \E stage \in {"none", "accepted", "underway"} : SetCourier(stage)
    BY <2>7 DEF UpdateLocation, CancelOrder, ChangeInSilence, SetCourier, screens, realtimeVars
  <2>8. CASE \E w \in Writers :
                \/ AskToPublish(w) \/ SavePosition(w)
                \/ ChangeOrder(w) \/ ReadOrder(w)
                \/ ChangeInTransaction(w) \/ SaveAlone(w)
                \/ \E b \in BOOLEAN : EndTransaction(w, b) \/ Broadcast(w, b)
    BY <2>8 DEF AskToPublish, SavePosition, ChangeOrder, ReadOrder, ChangeInTransaction,
                SaveAlone, EndTransaction, Broadcast, screens
  <2> QED
    BY <2>2, <2>3, <2>4, <2>5, <2>6, <2>7, <2>8, <2>9 DEF RealtimeNext, CacheMoves
<1>2. RealtimeInv /\ [RealtimeNext]_realtimeVars
        => [\A s \in Sockets : Entitled(s)]_realtimeVars
  BY <1>1
<1> QED
  BY <1>2, RealtimeInvariant, PTL DEF RealtimeSpec, SentWhileEntitled
-----------------------------------------------------------------------------
(* Inboxes and the number of changes are bounded.                          *)

RealtimeBounds ==
    /\ courier \in {"none", "accepted", "underway"}
    /\ made <= MaxMade
    /\ \A s \in Sockets : Len(inbox[s]) <= Capacity
    /\ \A s \in Sockets : \A v \in shown[s] : v <= made
    /\ cached \cup tallied \subseteq SUBSET (1..made) /\ \A s \in Sockets : drawn[s] \subseteq 1..made
    /\ \A a, b \in cached : a = b

LEMMA RealtimeBoundsInit == RealtimeInit => RealtimeBounds
<1> SUFFICES ASSUME RealtimeInit PROVE RealtimeBounds
  OBVIOUS
<1>1. \A s \in Sockets : Len(inbox[s]) = 0 /\ shown[s] = {}
  <2>1. Len(<<>>) = 0
    BY EmptySeq
  <2> QED
    BY <2>1, Zenon DEF RealtimeInit
<1>2. made = 0 /\ courier = "underway"
  BY DEF RealtimeInit
<1>3. cached = {} /\ tallied = {} /\ \A s \in Sockets : drawn[s] = {}
  BY DEF RealtimeInit
<1> QED
  BY <1>1, <1>2, <1>3, RealtimeAssumption DEF RealtimeBounds

\* Inboxes grow only below their capacity.
LEMMA InboxFits ==
    ASSUME RealtimeInv, RealtimeBounds, [RealtimeNext]_realtimeVars, NEW s \in Sockets
    PROVE  Len(inbox'[s]) <= Capacity
<1>1. /\ inbox \in [Sockets -> Seq(Nat)] /\ inbox[s] \in Seq(Nat) /\ Len(inbox[s]) \in Nat
      /\ Len(inbox[s]) <= Capacity /\ Capacity \in Nat
  BY RealtimeAssumption DEF RealtimeInv, RealtimeTypes, RealtimeBounds
<1>2. ASSUME NEW v, Announce(v) PROVE Len(inbox'[s]) <= Capacity
  <2>1. inbox'[s] = IF s \in Members /\ Len(inbox[s]) < Capacity THEN Append(inbox[s], v) ELSE inbox[s]
    BY <1>2 DEF Announce
  <2>2. CASE s \in Members /\ Len(inbox[s]) < Capacity
    <3>1. Len(Append(inbox[s], v)) = Len(inbox[s]) + 1
      BY <1>1
    <3> QED
      BY <1>1, <2>1, <2>2, <3>1
  <2>3. CASE ~(s \in Members /\ Len(inbox[s]) < Capacity)
    BY <1>1, <2>1, <2>3
  <2> QED
    BY <2>2, <2>3
<1>3. ASSUME NEW o \in Sockets, inbox[o] # <<>>, Handled(o) PROVE Len(inbox'[s]) <= Capacity
  <2>1. inbox' = [inbox EXCEPT ![o] = Tail(inbox[o])]
    BY <1>1, <1>3 DEF Handled
  <2>2. CASE o = s
    <3>1. Len(Tail(inbox[s])) = Len(inbox[s]) - 1
      BY <1>1, <1>3, <2>2
    <3>2. inbox'[s] = Tail(inbox[s])
      BY <1>1, <2>1, <2>2
    <3> QED
      BY <1>1, <3>1, <3>2
  <2>3. CASE o # s
    BY <1>1, <2>1, <2>3
  <2> QED
    BY <2>2, <2>3
<1>4. ASSUME NEW o \in Sockets, Leave(o) PROVE Len(inbox'[s]) <= Capacity
  <2>1. inbox' = [inbox EXCEPT ![o] = <<>>] /\ Len(<<>>) = 0
    BY <1>4, EmptySeq DEF Leave
  <2>2. inbox'[s] = <<>> \/ inbox'[s] = inbox[s]
    BY <1>1, <2>1
  <2> QED
    BY <1>1, <2>1, <2>2
<1>5. ASSUME UNCHANGED inbox PROVE Len(inbox'[s]) <= Capacity
  BY <1>1, <1>5
<1>6. ASSUME NEW o \in Sockets,
             \/ SetAccess(o)
             \/ Connect(o) \/ Join(o) \/ Disconnect(o)
             \/ SendPosition(o)
             \/ AskForFigures(o) \/ SendCached(o) \/ CountFigures(o) \/ SendFigures(o)
             \/ Handle(o) \/ SendAnnounced(o)
      PROVE  Len(inbox'[s]) <= Capacity
  <2>1. CASE \/ SetAccess(o) \/ Connect(o) \/ Join(o) \/ SendPosition(o)
             \/ SendCached(o) \/ CountFigures(o) \/ SendFigures(o)
    BY <1>5, <2>1 DEF SetAccess, Connect, Join, SendPosition, SendCached, CountFigures,
       SendFigures, screens
  <2>2. CASE Disconnect(o)
    BY <1>4, <2>2 DEF Disconnect
  <2>3. CASE AskForFigures(o) \/ SendAnnounced(o)
    <3>1. sock[o] = "handling" => inbox[o] # <<>>
      BY DEF RealtimeInv, InPlace
    <3> QED
      BY <1>3, <1>5, <2>3, <3>1 DEF AskForFigures, SendAnnounced
  <2>4. CASE Handle(o)
    BY <1>4, <1>5, <2>4 DEF Handle
  <2> QED
    BY <1>6, <2>1, <2>2, <2>3, <2>4
<1>7. ASSUME NEW w \in Writers,
             \/ AskToPublish(w) \/ SavePosition(w)
             \/ ChangeOrder(w) \/ ReadOrder(w)
             \/ ChangeInTransaction(w) \/ SaveAlone(w)
             \/ \E b \in BOOLEAN : EndTransaction(w, b) \/ Broadcast(w, b)
      PROVE  Len(inbox'[s]) <= Capacity
  BY <1>2, <1>5, <1>7 DEF AskToPublish, SavePosition, ChangeOrder, ReadOrder, ChangeInTransaction,
     SaveAlone, EndTransaction, Broadcast, screens
<1>8. CASE (\E stage \in {"none", "accepted", "underway"} : SetCourier(stage))
           \/ UpdateLocation \/ CancelOrder \/ CacheMoves \/ UNCHANGED realtimeVars
  BY <1>5, <1>8, CacheStep DEF SetCourier, UpdateLocation, CancelOrder, ChangeInSilence, screens,
     realtimeVars
<1> QED
  BY <1>6, <1>7, <1>8 DEF RealtimeNext, CacheMoves

\* Changes are made up to the bound of the model, one after another.
LEMMA MadeFits ==
    ASSUME RealtimeInv, RealtimeBounds, [RealtimeNext]_realtimeVars
    PROVE  made' \in Nat /\ made <= made' /\ made' <= MaxMade
<1>1. made \in Nat /\ made <= MaxMade /\ MaxMade \in Nat
  BY RealtimeAssumption DEF RealtimeInv, RealtimeTypes, RealtimeBounds
<1>2. Make \/ UNCHANGED made
  <2>1. CASE UNCHANGED realtimeVars
    BY <2>1 DEF realtimeVars
  <2>2. CASE RealtimeNext
    BY <2>2, CacheStep DEF RealtimeNext, CacheMoves, SetAccess, Connect, Join, Disconnect,
       SendPosition, AskForFigures, SendCached, CountFigures, SendFigures, Handle, SendAnnounced, Leave, Steady, SetCourier, UpdateLocation, CancelOrder,
       ChangeInSilence, AskToPublish, SavePosition, ChangeOrder, ReadOrder, ChangeInTransaction,
       SaveAlone, EndTransaction, Broadcast
  <2> QED
    BY <2>1, <2>2
<1> QED
  BY <1>1, <1>2 DEF Make

\* What a screen shows came about.
LEMMA ShownFits ==
    ASSUME RealtimeInv, RealtimeBounds, [RealtimeNext]_realtimeVars,
           NEW s \in Sockets, NEW v \in shown'[s]
    PROVE  v <= made'
<1>1. made \in Nat /\ made' \in Nat /\ made <= made'
  BY MadeFits DEF RealtimeInv, RealtimeTypes
<1>2. /\ shown \in [Sockets -> SUBSET Nat] /\ stored \subseteq 1..made
      /\ \A x \in shown[s] : x <= made
  BY DEF RealtimeInv, RealtimeTypes, RealtimeBounds
<1>3. ASSUME UNCHANGED shown PROVE v <= made'
  BY <1>1, <1>2, <1>3
<1>4. ASSUME NEW o \in Sockets, NEW content, Shows(o, content),
             \A x \in content : x \in 0..made
      PROVE  v <= made'
  <2>1. shown'[s] = content \/ shown'[s] = shown[s]
    BY <1>2, <1>4 DEF Shows
  <2>2. v \in 0..made \/ v \in shown[s]
    BY <1>4, <2>1
  <2> QED
    BY <1>1, <1>2, <2>2
<1>5. ASSUME NEW o \in Sockets, Leave(o) PROVE v <= made'
  <2>1. Shows(o, {})
    BY <1>5 DEF Leave
  <2> QED
    BY <1>4, <2>1
<1>6. ASSUME NEW o \in Sockets, SendAnnounced(o) PROVE v <= made'
  <2>1. /\ inbox[o] # <<>> /\ inbox[o] \in Seq(Nat)
        /\ \A i \in 1..Len(inbox[o]) : inbox[o][i] <= made
    BY <1>6, SocketColumns DEF SendAnnounced, RealtimeInv, InPlace
  <2>2. Head(inbox[o]) \in 0..made
    <3>1. Head(inbox[o]) \in Nat /\ Head(inbox[o]) <= made
      BY <2>1, Handles DEF Waits
    <3> QED
      BY <1>1, <3>1
  <2>3. \A x \in shown[o] : x \in 0..made
    BY <1>1, <1>2 DEF RealtimeBounds
  <2>4. PICK content : /\ content = (IF room = "chat" THEN shown[o] ELSE {}) \cup {Head(inbox[o])}
                       /\ Shows(o, content)
    BY <1>6 DEF SendAnnounced
  <2>5. \A x \in content : x \in 0..made
    BY <2>2, <2>3, <2>4
  <2> QED
    BY <1>4, <2>4, <2>5
<1>11. ASSUME NEW o \in Sockets, SendCached(o) \/ SendFigures(o) PROVE v <= made'
  <2>1. PICK content : Shows(o, content) /\ (content \in cached \/ content = drawn[o])
    BY <1>11 DEF SendCached, SendFigures
  <2>2. \A x \in content : x \in 0..made
    BY <1>1, <2>1 DEF RealtimeBounds
  <2> QED
    BY <1>4, <2>1, <2>2
<1>7. ASSUME NEW o \in Sockets, SendPosition(o) \/ AskForFigures(o)
      PROVE  v <= made'
  <2>1. Latest \in 0..made /\ stored \subseteq 0..made
    <3>1. Latest \in stored \cup {0}
      BY <1>1, <1>2, LatestStored
    <3> QED
      BY <1>1, <1>2, <3>1
  <2>2. UNCHANGED shown \/ \E content \in {{Latest}, {}} : Shows(o, content)
    BY <1>7 DEF SendPosition, AskForFigures
  <2> QED
    BY <1>3, <1>4, <2>1, <2>2
<1>8. ASSUME NEW o \in Sockets,
             \/ SetAccess(o)
             \/ Connect(o) \/ Join(o) \/ Disconnect(o)
             \/ Handle(o) \/ CountFigures(o)
      PROVE  v <= made'
  BY <1>3, <1>5, <1>8 DEF SetAccess, Connect, Join, Disconnect, Handle, CountFigures, screens
<1>9. ASSUME NEW w \in Writers,
             \/ AskToPublish(w) \/ SavePosition(w)
             \/ ChangeOrder(w) \/ ReadOrder(w)
             \/ ChangeInTransaction(w) \/ SaveAlone(w)
             \/ \E b \in BOOLEAN : EndTransaction(w, b) \/ Broadcast(w, b)
      PROVE  v <= made'
  BY <1>3, <1>9 DEF AskToPublish, SavePosition, ChangeOrder, ReadOrder, ChangeInTransaction,
     SaveAlone, EndTransaction, Broadcast, screens
<1>10. CASE (\E stage \in {"none", "accepted", "underway"} : SetCourier(stage))
            \/ UpdateLocation \/ CancelOrder \/ CacheMoves \/ UNCHANGED realtimeVars
  BY <1>3, <1>10, CacheStep DEF SetCourier, UpdateLocation, CancelOrder, ChangeInSilence, screens,
     realtimeVars
<1> QED
  BY <1>6, <1>7, <1>8, <1>9, <1>10, <1>11 DEF RealtimeNext, CacheMoves

LEMMA CourierFits ==
    ASSUME RealtimeBounds, [RealtimeNext]_realtimeVars
    PROVE  courier' \in {"none", "accepted", "underway"}
<1>1. CASE \E stage \in {"none", "accepted", "underway"} : SetCourier(stage)
  BY <1>1 DEF SetCourier
<1>2. ASSUME UNCHANGED courier PROVE courier' \in {"none", "accepted", "underway"}
  BY <1>2 DEF RealtimeBounds
<1>3. CASE UNCHANGED realtimeVars
  BY <1>2, <1>3 DEF realtimeVars, people
<1>4. CASE RealtimeNext /\ ~\E stage \in {"none", "accepted", "underway"} : SetCourier(stage)
  BY <1>2, <1>4, CacheStep DEF RealtimeNext, CacheMoves, SetAccess, Connect, Join, Disconnect,
     SendPosition, AskForFigures, SendCached, CountFigures, SendFigures, Handle, SendAnnounced, Leave, Steady, UpdateLocation, CancelOrder,
     ChangeInSilence, AskToPublish, SavePosition, ChangeOrder, ReadOrder, ChangeInTransaction,
     SaveAlone, EndTransaction, Broadcast, people
<1> QED
  BY <1>1, <1>3, <1>4

\* What is counted, cached or about to be sent came about.
LEMMA FiguresFit ==
    ASSUME RealtimeInv, RealtimeBounds, [RealtimeNext]_realtimeVars
    PROVE  /\ cached' \cup tallied' \subseteq SUBSET (1..made')
           /\ \A s \in Sockets : drawn'[s] \subseteq 1..made'
           /\ \A a, b \in cached' : a = b
<1>1. made \in Nat /\ made' \in Nat /\ made <= made' /\ stored \subseteq 1..made
  BY MadeFits DEF RealtimeInv, RealtimeTypes
<1>2. 1..made \subseteq 1..made' /\ SUBSET (1..made) \subseteq SUBSET (1..made')
  BY <1>1
<1>3. /\ cached \cup tallied \subseteq SUBSET (1..made)
      /\ \A s \in Sockets : drawn[s] \subseteq 1..made
      /\ \A a, b \in cached : a = b
      /\ drawn \in [Sockets -> SUBSET Nat]
  BY DEF RealtimeBounds, RealtimeInv, RealtimeTypes
<1>4. ASSUME UNCHANGED caching
      PROVE  /\ cached' \cup tallied' \subseteq SUBSET (1..made')
             /\ \A s \in Sockets : drawn'[s] \subseteq 1..made'
             /\ \A a, b \in cached' : a = b
  BY <1>2, <1>3, <1>4 DEF caching
<1>5. ASSUME NEW o \in Sockets, NEW content \in SUBSET (1..made),
             drawn' = [drawn EXCEPT ![o] = content], UNCHANGED tallied,
             cached' = cached \/ cached' = {drawn[o]}
      PROVE  /\ cached' \cup tallied' \subseteq SUBSET (1..made')
             /\ \A s \in Sockets : drawn'[s] \subseteq 1..made'
             /\ \A a, b \in cached' : a = b
  <2>1. \A s \in Sockets : drawn'[s] = content \/ drawn'[s] = drawn[s]
    BY <1>3, <1>5
  <2>2. drawn[o] \in SUBSET (1..made)
    BY <1>3
  <2>3. CASE cached' = cached
    BY <1>2, <1>3, <1>5, <2>1, <2>3
  <2>4. CASE cached' = {drawn[o]}
    <3>1. cached' \subseteq SUBSET (1..made) /\ \A a, b \in cached' : a = b
      BY <2>2, <2>4
    <3>2. \A s \in Sockets : drawn'[s] \subseteq 1..made
      BY <1>3, <1>5, <2>1
    <3> QED
      BY <1>2, <1>3, <1>5, <3>1, <3>2
  <2> QED
    BY <1>5, <2>3, <2>4
<1>6. CASE CacheMoves
  BY <1>1, <1>2, <1>3, <1>6, CacheStep
<1>7. CASE \E o \in Sockets : Disconnect(o) \/ Handle(o)
  BY <1>4, <1>5, <1>7 DEF Disconnect, Handle, Leave
<1>8. CASE \E o \in Sockets : CountFigures(o)
  <2>1. stored \in SUBSET (1..made)
    BY <1>1
  <2> QED
    BY <1>5, <1>8, <2>1 DEF CountFigures
<1>9. CASE \E o \in Sockets : SendFigures(o)
  BY <1>5, <1>9 DEF SendFigures
<1>10. CASE UNCHANGED realtimeVars
  BY <1>4, <1>10 DEF realtimeVars
<1>11. CASE \/ \E o \in Sockets :
                 \/ SetAccess(o) \/ Connect(o) \/ Join(o) \/ SendPosition(o)
                 \/ AskForFigures(o) \/ SendCached(o) \/ SendAnnounced(o)
            \/ \E stage \in {"none", "accepted", "underway"} : SetCourier(stage)
            \/ UpdateLocation \/ CancelOrder
  BY <1>4, <1>11 DEF SetAccess, Connect, Join, SendPosition, AskForFigures, SendCached,
     SendAnnounced, SetCourier, UpdateLocation, CancelOrder, ChangeInSilence
<1>12. CASE \E w \in Writers :
                \/ AskToPublish(w) \/ SavePosition(w)
                \/ ChangeOrder(w) \/ ReadOrder(w)
                \/ ChangeInTransaction(w) \/ SaveAlone(w)
                \/ \E b \in BOOLEAN : EndTransaction(w, b) \/ Broadcast(w, b)
  BY <1>4, <1>12 DEF AskToPublish, SavePosition, ChangeOrder, ReadOrder, ChangeInTransaction,
     SaveAlone, EndTransaction, Broadcast
<1> QED
  BY <1>6, <1>7, <1>8, <1>9, <1>10, <1>11, <1>12 DEF RealtimeNext, CacheMoves

LEMMA RealtimeBounded == RealtimeInv /\ RealtimeBounds => RealtimeTypeOK
<1> SUFFICES ASSUME RealtimeInv, RealtimeBounds PROVE RealtimeTypeOK
  OBVIOUS
<1>1. made \in Nat /\ MaxMade \in Nat /\ made <= MaxMade
  BY RealtimeAssumption DEF RealtimeInv, RealtimeTypes, RealtimeBounds
<1>2. ASSUME NEW s \in Sockets
      PROVE  inbox[s] \in Seq(0..made) /\ Len(inbox[s]) <= Capacity
  <2>1. /\ inbox[s] \in Seq(Nat) /\ Len(inbox[s]) \in Nat
        /\ \A i \in 1..Len(inbox[s]) : inbox[s][i] \in Nat /\ inbox[s][i] <= made
    BY SocketColumns, ElementOfSeq
  <2>2. \A i \in 1..Len(inbox[s]) : inbox[s][i] \in 0..made
    BY <1>1, <2>1
  <2>3. inbox[s] \in [1..Len(inbox[s]) -> 0..made]
    BY <2>1, <2>2
  <2>4. inbox[s] \in Seq(0..made)
    <3>1. \E n \in Nat : inbox[s] \in [1..n -> 0..made]
      BY <2>1, <2>3
    <3>2. Seq(0..made) = UNION {[1..n -> 0..made] : n \in Nat}
      BY SeqDef, Zenon
    <3> QED
      BY <3>1, <3>2, Zenon
  <2> QED
    BY <2>4 DEF RealtimeBounds
<1>3. ASSUME NEW s \in Sockets PROVE shown[s] \cup barred[s] \subseteq 0..made
  <2>1. /\ shown[s] \subseteq Nat /\ \A v \in shown[s] : v <= made
        /\ barred[s] \subseteq Nat /\ \A v \in barred[s] : v <= made
    BY DEF RealtimeInv, RealtimeTypes, RealtimeBounds
  <2> QED
    BY <1>1, <2>1
<1>4. \A w \in Writers : pub[w].change \in 0..made
  BY DEF RealtimeInv, RealtimeTypes
<1> QED
  BY <1>1, <1>2, <1>3, <1>4 DEF RealtimeTypeOK, RealtimeInv, RealtimeTypes, RealtimeBounds, Places

\* No inbox holds more announcements than its capacity, and no screen shows what never came
\* about, for any sockets, writers and capacity (group_send, which drops what does not fit).
THEOREM RealtimeBoundsKept == RealtimeSpec => []RealtimeTypeOK
<1>1. RealtimeBounds /\ RealtimeInv /\ [RealtimeNext]_realtimeVars => RealtimeBounds'
  BY InboxFits, MadeFits, ShownFits, CourierFits, FiguresFit DEF RealtimeBounds
<1>2. RealtimeInv /\ RealtimeBounds => RealtimeTypeOK
  BY RealtimeBounded
<1> QED
  BY <1>1, <1>2, RealtimeBoundsInit, RealtimeInvariant, PTL DEF RealtimeSpec
-----------------------------------------------------------------------------
(***************************************************************************)
(* Notices: the release of scheduled orders, and receipts.                 *)
(***************************************************************************)

\* The runs under way, and those that are about to write a notice of an order.
Running == {w \in Workers : Busy(w)}
Finders(o) == {w \in Workers : run[w].found = o}

\* A run knows only orders that were due, and their windows do not change any more.
WindowsReached ==
    \A o \in Bookings :
        releases[o] > 0 \/ (\E w \in Workers : o \in run[w].due \/ run[w].found = o) =>
            booking[o] # "none" /\ window[o] \in 1..clock

\* Those who are about to write count already: when the first of them looked there was
\* no notice, so there are no more of them than runs under way.
FindersCounted ==
    /\ Cardinality(Running) <= most
    /\ \A o \in Bookings : /\ kept[o] <= releases[o]
                           /\ releases[o] + Cardinality(Finders(o)) <= most * (1 + Erased(o))

ReleaseInv == NoticesTypeOK /\ WindowsReached /\ FindersCounted

\* Who looks, finds nothing and is going to add a receipt.
One(b) == IF b THEN 1 ELSE 0
Printed(o) == \E p \in Printers : <<o, p>> \in printing

ReceiptInv ==
    /\ \A o \in Bookings, p, q \in Printers : <<o, p>> \in printing /\ <<o, q>> \in printing => p = q
    /\ \A o \in Bookings : receipts[o] + One(job[o] = "creating") + One(Printed(o))
                              <= IF o \in crossed THEN 2 ELSE 1
-----------------------------------------------------------------------------
LEMMA WorkersFinite ==
    \A S \in SUBSET Workers : IsFiniteSet(S) /\ Cardinality(S) \in Nat
BY NoticesAssumption, FS_Subset, FS_CardinalityType

LEMMA RunsFit ==
    ASSUME NoticesTypeOK
    PROVE  Cardinality(Running) \in 0..Cardinality(Workers) /\ Cardinality(Workers) \in Nat
<1>1. Running \subseteq Workers /\ IsFiniteSet(Workers)
  BY NoticesAssumption DEF Running
<1> QED
  BY <1>1, FS_Subset, FS_CardinalityType

\* Counts and products.
LEMMA Products ==
    ASSUME NEW m \in Nat, NEW n \in Nat, NEW e \in Nat
    PROVE  /\ m * (1 + e) \in Nat
           /\ m <= n => m * (1 + e) <= n * (1 + e)
           /\ m * (1 + e) <= m * (1 + (e + 1))
           /\ m > 0 => m + e <= m * (1 + e)
<1>1. \A a, b \in Nat : a * b \in Nat
  OBVIOUS
<1>2. m * (1 + e) = m + m * e /\ m * e \in Nat
  BY <1>1
<1>3. ASSUME m <= n PROVE m * (1 + e) <= n * (1 + e)
  <2>1. (n - m) * (1 + e) \in Nat
    BY <1>1, <1>3
  <2>2. (n - m) * (1 + e) = n * (1 + e) - m * (1 + e)
    OBVIOUS
  <2> QED
    BY <1>1, <2>1, <2>2
<1>4. m * (1 + (e + 1)) = m * (1 + e) + m
  OBVIOUS
<1>5. ASSUME m > 0 PROVE m + e <= m * (1 + e)
  <2>1. (m - 1) * e \in Nat
    BY <1>1, <1>5
  <2>2. (m - 1) * e = m * e - e
    OBVIOUS
  <2> QED
    BY <1>2, <2>1, <2>2
<1> QED
  BY <1>2, <1>3, <1>4, <1>5

\* What the bounds say of numbers.
LEMMA Counts ==
    ASSUME ReleaseInv, NEW o \in Bookings
    PROVE  /\ releases[o] \in Nat /\ kept[o] \in Nat /\ Erased(o) \in Nat
           /\ most \in Nat /\ Cardinality(Finders(o)) \in Nat /\ IsFiniteSet(Finders(o))
           /\ Cardinality(Running) \in Nat
<1>1. releases[o] \in Nat /\ kept[o] \in Nat /\ kept[o] <= releases[o]
  BY DEF ReleaseInv, NoticesTypeOK, FindersCounted
<1>2. Finders(o) \subseteq Workers
  BY DEF Finders
<1>3. most \in Nat
  BY RunsFit DEF ReleaseInv, NoticesTypeOK
<1> QED
  BY <1>1, <1>2, <1>3, WorkersFinite, RunsFit DEF ReleaseInv, Erased

LEMMA ReleaseInit == NoticesInit => ReleaseInv
<1> SUFFICES ASSUME NoticesInit PROVE ReleaseInv
  OBVIOUS
<1>1. NoticesTypeOK
  <2>1. Cardinality(Workers) \in Nat
    BY WorkersFinite
  <2> QED
    BY <2>1, NoticesAssumption DEF NoticesInit, NoticesTypeOK, Idle, BookingStatuses, JobStates
<1>2. WindowsReached
  BY NoticesAssumption DEF NoticesInit, WindowsReached, Idle
<1>3. Running = {} /\ \A o \in Bookings : Finders(o) = {}
  BY NoticesAssumption DEF NoticesInit, Running, Finders, Busy, Idle
<1>4. Cardinality({}) = 0
  BY FS_EmptySet
<1>5. FindersCounted
  BY <1>3, <1>4 DEF NoticesInit, FindersCounted, Erased
<1> QED
  BY <1>1, <1>2, <1>5 DEF ReleaseInv
-----------------------------------------------------------------------------
(* Steps that concern no run.                                              *)

LEMMA BookingsMove ==
    ASSUME ReleaseInv, NoticesTypeOK', UNCHANGED <<run, releases, kept, most>>, clock' >= clock,
           \A o \in Bookings : booking[o] # "none" => booking'[o] # "none" /\ window'[o] = window[o]
    PROVE  ReleaseInv'
<1>1. FindersCounted'
  BY DEF ReleaseInv, FindersCounted, Running, Finders, Busy, Erased
<1>2. WindowsReached'
  <2>1. ASSUME NEW o \in Bookings, releases[o] > 0 \/ \E w \in Workers : o \in run[w].due \/ run[w].found = o
        PROVE  booking'[o] # "none" /\ window'[o] \in 1..clock'
    <3>1. booking[o] # "none" /\ window[o] \in 1..clock
      BY <2>1 DEF ReleaseInv, WindowsReached
    <3>2. clock \in Nat /\ clock' \in Nat
      BY NoticesAssumption DEF ReleaseInv, NoticesTypeOK
    <3> QED
      BY <3>1, <3>2
  <2> QED
    BY <2>1 DEF WindowsReached
<1> QED
  BY <1>1, <1>2 DEF ReleaseInv

LEMMA PlacementTypes ==
    ASSUME NoticesTypeOK, PlacementNext
    PROVE  NoticesTypeOK'
<1>1. UNCHANGED <<clock, run, releases, kept, most, deaths, receipts, printing, crossed>>
  BY DEF PlacementNext, AnnounceBooking, CommitBooking, RollBackBooking, MoveOn, CancelBooking,
         releaseVars, receiptVars
<1>2. /\ booking' \in [Bookings -> BookingStatuses]
      /\ window' \in [Bookings -> Windows \cup {0}]
      /\ told' \subseteq Bookings /\ job' \in [Bookings -> JobStates]
  BY DEF PlacementNext, AnnounceBooking, CommitBooking, RollBackBooking, MoveOn, CancelBooking,
         releaseVars, receiptVars, NoticesTypeOK, BookingStatuses, JobStates
<1> QED
  BY <1>1, <1>2 DEF NoticesTypeOK

LEMMA PlacementStep ==
    ASSUME ReleaseInv, PlacementNext
    PROVE  ReleaseInv'
<1>1. NoticesTypeOK'
  BY PlacementTypes DEF ReleaseInv
<1>2. UNCHANGED <<clock, run, releases, kept, most>> /\ clock \in Nat
  BY NoticesAssumption DEF PlacementNext, AnnounceBooking, CommitBooking, RollBackBooking, MoveOn,
     CancelBooking, releaseVars, receiptVars, ReleaseInv, NoticesTypeOK
<1>3. \A o \in Bookings : booking[o] # "none" => booking'[o] # "none" /\ window'[o] = window[o]
  BY DEF PlacementNext, AnnounceBooking, CommitBooking, RollBackBooking, MoveOn, CancelBooking,
         releaseVars, receiptVars, ReleaseInv, NoticesTypeOK
<1> QED
  BY <1>1, <1>2, <1>3, BookingsMove

LEMMA ReceiptTypes ==
    ASSUME NoticesTypeOK, ReceiptNext
    PROVE  NoticesTypeOK' /\ UNCHANGED <<booking, window, told, clock, run, releases, kept, most, deaths>>
<1>1. PICK o \in Bookings :
         \/ JobLooks(o) \/ JobCreates(o)
         \/ \E s \in {"failed", "mailed"} : JobEnds(o, s)
         \/ \E p \in Printers : \/ PrintReceipt(o, p)
                                \/ \E rendered \in BOOLEAN : ReceiptPrinted(o, p, rendered)
  BY DEF ReceiptNext
<1>2. /\ job \in [Bookings -> JobStates] /\ receipts \in [Bookings -> Nat]
      /\ printing \subseteq Bookings \X Printers /\ crossed \subseteq Bookings
  BY DEF NoticesTypeOK
<1> DEFINE Unmoved == UNCHANGED <<booking, window, told, clock, run, releases, kept, most, deaths>>
           Types == /\ job' \in [Bookings -> JobStates] /\ receipts' \in [Bookings -> Nat]
                    /\ printing' \subseteq Bookings \X Printers /\ crossed' \subseteq Bookings
<1>3. ASSUME JobLooks(o) PROVE Unmoved /\ Types
  BY <1>2, <1>3 DEF JobLooks, JobStates, releaseVars
<1>4. ASSUME JobCreates(o) \/ \E s \in {"failed", "mailed"} : JobEnds(o, s) PROVE Unmoved /\ Types
  BY <1>2, <1>4 DEF JobCreates, JobEnds, JobStates, releaseVars
<1>5. ASSUME \E p \in Printers : PrintReceipt(o, p) PROVE Unmoved /\ Types
  BY <1>2, <1>5 DEF PrintReceipt, releaseVars
<1>6. ASSUME \E p \in Printers, rendered \in BOOLEAN : ReceiptPrinted(o, p, rendered)
      PROVE  Unmoved /\ Types
  BY <1>2, <1>6 DEF ReceiptPrinted, releaseVars
<1>7. Unmoved /\ Types
  BY <1>1, <1>3, <1>4, <1>5, <1>6
<1> QED
  BY <1>7 DEF NoticesTypeOK

LEMMA ReceiptStep ==
    ASSUME ReleaseInv, ReceiptNext
    PROVE  ReleaseInv'
<1>1. UNCHANGED <<booking, window, clock, run, releases, kept, most>> /\ clock \in Nat
  BY ReceiptTypes, NoticesAssumption DEF ReleaseInv, NoticesTypeOK
<1>2. NoticesTypeOK'
  BY ReceiptTypes DEF ReleaseInv
<1> QED
  BY <1>1, <1>2, BookingsMove
-----------------------------------------------------------------------------
(* Steps of the release job.                                               *)

LEMMA TickStep ==
    ASSUME ReleaseInv, Tick
    PROVE  ReleaseInv'
<1>1. clock \in Nat /\ clock' \in 1..MaxClock /\ clock' >= clock
  BY NoticesAssumption DEF Tick, ReleaseInv, NoticesTypeOK
<1>2. NoticesTypeOK'
  BY <1>1 DEF Tick, ReleaseInv, NoticesTypeOK, receiptVars
<1> QED
  BY <1>1, <1>2, BookingsMove DEF Tick

LEMMA StartStep ==
    ASSUME ReleaseInv, NEW w \in Workers, StartRun(w)
    PROVE  ReleaseInv'
<1> DEFINE due == {o \in Bookings : Due(o)}
           busy == Cardinality(Running) + 1
<1>1. /\ ~Busy(w) /\ due # {} /\ run' = [run EXCEPT ![w].due = due]
      /\ most' = (IF busy > most THEN busy ELSE most)
      /\ UNCHANGED <<booking, window, told, clock, releases, kept, deaths, receiptVars>>
  BY DEF StartRun, Running
<1>2. /\ run \in [Workers -> [due : SUBSET Bookings, found : Bookings \cup {NoBooking}]]
      /\ run[w] = Idle /\ run'[w].due = due /\ run'[w].found = NoBooking
      /\ \A v \in Workers \ {w} : run'[v] = run[v]
  BY <1>1 DEF ReleaseInv, NoticesTypeOK, Busy, Idle
<1>3. Running' = Running \cup {w} /\ w \notin Running
  <2>1. run'[w] # Idle
    BY <1>1, <1>2 DEF Idle
  <2> QED
    BY <1>1, <1>2, <2>1 DEF Running, Busy, Idle
<1>4. Cardinality(Running') = busy /\ busy \in 1..Cardinality(Workers)
  <2>1. Running \subseteq Workers /\ Running' \subseteq Workers
    BY DEF Running
  <2>2. Cardinality(Running') = Cardinality(Running) + 1
    BY <1>3, <2>1, WorkersFinite, FS_AddElement
  <2>3. Cardinality(Running') <= Cardinality(Workers)
    BY <2>1, NoticesAssumption, FS_Subset
  <2> QED
    BY <2>2, <2>3, RunsFit DEF ReleaseInv
<1>5. most \in 0..Cardinality(Workers) /\ Cardinality(Workers) \in Nat
  BY RunsFit DEF ReleaseInv, NoticesTypeOK
<1>6. most' \in 0..Cardinality(Workers) /\ most' >= most /\ busy <= most'
  <2> HIDE DEF busy
  <2> QED
    BY <1>1, <1>4, <1>5
<1>7. NoticesTypeOK'
  <2>1. [run[w] EXCEPT !.due = due] \in [due : SUBSET Bookings, found : Bookings \cup {NoBooking}]
    BY <1>2
  <2>2. run' \in [Workers -> [due : SUBSET Bookings, found : Bookings \cup {NoBooking}]]
    BY <1>1, <1>2, <2>1
  <2> QED
    BY <1>1, <1>6, <2>2 DEF ReleaseInv, NoticesTypeOK, receiptVars
<1>8. ASSUME NEW o \in Bookings PROVE Finders(o)' = Finders(o)
  BY <1>2, NoticesAssumption DEF Finders, Idle
<1>9. FindersCounted'
  <2>1. ASSUME NEW o \in Bookings
        PROVE  /\ kept'[o] <= releases'[o]
               /\ releases'[o] + Cardinality(Finders(o)') <= most' * (1 + Erased(o)')
    <3>1. /\ kept[o] <= releases[o]
          /\ releases[o] + Cardinality(Finders(o)) <= most * (1 + Erased(o))
      BY DEF ReleaseInv, FindersCounted
    <3>2. Erased(o)' = Erased(o)
      BY <1>1 DEF Erased
    <3>3. most * (1 + Erased(o)) <= most' * (1 + Erased(o)) /\ most' \in Nat
      BY <1>5, <1>6, Counts, Products
    <3>4. most * (1 + Erased(o)) \in Nat /\ most' * (1 + Erased(o)) \in Nat
      BY <3>3, Counts, Products
    <3> QED
      BY <1>1, <1>8, <3>1, <3>2, <3>3, <3>4, Counts
  <2> QED
    BY <1>4, <1>6, <2>1 DEF FindersCounted
<1>10. WindowsReached'
  <2>1. ASSUME NEW o \in Bookings, NEW v \in Workers, o \in run'[v].due \/ run'[v].found = o
        PROVE  booking[o] # "none" /\ window[o] \in 1..clock
    <3>1. CASE v = w
      <4>1. Due(o)
        BY <1>2, <2>1, <3>1, NoticesAssumption
      <4>2. window[o] \in Nat /\ clock \in Nat
        <5>1. window[o] \in Windows \cup {0} /\ clock \in 1..MaxClock
          BY DEF ReleaseInv, NoticesTypeOK
        <5>2. Windows \cup {0} \subseteq Nat /\ 1..MaxClock \subseteq Nat
          BY NoticesAssumption
        <5> QED
          BY <5>1, <5>2
      <4> QED
        BY <4>1, <4>2 DEF Due, Waiting
    <3>2. CASE v # w
      BY <1>2, <2>1, <3>2 DEF ReleaseInv, WindowsReached
    <3> QED
      BY <3>1, <3>2
  <2> QED
    BY <1>1, <2>1 DEF ReleaseInv, WindowsReached
<1> QED
  BY <1>7, <1>9, <1>10 DEF ReleaseInv

\* A run that looks, writes or dies knows no order that was not known.
LEMMA RunMoves ==
    ASSUME ReleaseInv, NEW w \in Workers,
           UNCHANGED <<booking, window, told, clock, most, receiptVars>>,
           run' \in [Workers -> [due : SUBSET Bookings, found : Bookings \cup {NoBooking}]],
           \A v \in Workers \ {w} : run'[v] = run[v],
           \A o \in Bookings : o \in run'[w].due \/ run'[w].found = o
                                  => o \in run[w].due \/ run[w].found = o,
           releases' \in [Bookings -> Nat], kept' \in [Bookings -> Nat], deaths' \in 0..MaxDeaths,
           \A o \in Bookings : releases'[o] > 0 => releases[o] > 0 \/ run[w].found = o,
           Busy(w), FindersCounted'
    PROVE  ReleaseInv'
<1>1. NoticesTypeOK'
  BY DEF ReleaseInv, NoticesTypeOK, receiptVars
<1>2. WindowsReached'
  <2>1. ASSUME NEW o \in Bookings,
               releases'[o] > 0 \/ \E v \in Workers : o \in run'[v].due \/ run'[v].found = o
        PROVE  releases[o] > 0 \/ \E v \in Workers : o \in run[v].due \/ run[v].found = o
    BY <2>1
  <2> QED
    BY <2>1 DEF ReleaseInv, WindowsReached
<1> QED
  BY <1>1, <1>2 DEF ReleaseInv

\* No run more is under way.
LEMMA NoRunMore ==
    ASSUME ReleaseInv, NEW w \in Workers, Busy(w), most' = most,
           \A v \in Workers \ {w} : run'[v] = run[v]
    PROVE  Cardinality(Running') <= most'
<1>1. Running' \subseteq Running /\ Running \subseteq Workers
  BY DEF Running, Busy
<1>2. Cardinality(Running') <= Cardinality(Running)
  BY <1>1, WorkersFinite, FS_Subset
<1>3. Cardinality(Running') \in Nat /\ Cardinality(Running) \in Nat /\ most \in Nat
  <2>1. Running' \subseteq Workers
    BY <1>1
  <2> QED
    BY <1>1, <2>1, WorkersFinite, RunsFit DEF ReleaseInv, NoticesTypeOK
<1> QED
  BY <1>2, <1>3 DEF ReleaseInv, FindersCounted

LEMMA LookStep ==
    ASSUME ReleaseInv, NEW w \in Workers, NEW o \in Bookings, LookForNotice(w, o)
    PROVE  ReleaseInv'
<1> DEFINE found == IF kept[o] > 0 THEN NoBooking ELSE o
<1>1. /\ o \in run[w].due /\ run[w].found = NoBooking
      /\ run' = [run EXCEPT ![w] = [due |-> run[w].due \ {o}, found |-> found]]
      /\ UNCHANGED <<booking, window, told, clock, releases, kept, most, deaths, receiptVars>>
  BY DEF LookForNotice
<1>2. /\ run \in [Workers -> [due : SUBSET Bookings, found : Bookings \cup {NoBooking}]]
      /\ releases \in [Bookings -> Nat] /\ kept \in [Bookings -> Nat] /\ deaths \in 0..MaxDeaths
  BY DEF ReleaseInv, NoticesTypeOK
<1>3. /\ run' \in [Workers -> [due : SUBSET Bookings, found : Bookings \cup {NoBooking}]]
      /\ run'[w].due = run[w].due \ {o} /\ run'[w].found = found
      /\ \A v \in Workers \ {w} : run'[v] = run[v]
  BY <1>1, <1>2
<1>4. Busy(w)
  BY <1>1 DEF Busy, Idle
<1>5. FindersCounted'
  <2>1. ASSUME NEW b \in Bookings
        PROVE  releases[b] + Cardinality(Finders(b)') <= most * (1 + Erased(b))
    <3>1. releases[b] + Cardinality(Finders(b)) <= most * (1 + Erased(b))
      BY DEF ReleaseInv, FindersCounted
    <3>2. CASE b # o \/ kept[o] > 0
      <4>1. Finders(b)' = Finders(b)
        BY <1>1, <1>3, <3>2, NoticesAssumption DEF Finders
      <4> QED
        BY <3>1, <4>1
    <3>3. CASE b = o /\ ~(kept[o] > 0)
      <4>1. Finders(o)' = Finders(o) \cup {w} /\ w \notin Finders(o)
        BY <1>1, <1>3, <3>3, NoticesAssumption DEF Finders
      <4>2. Cardinality(Finders(o)') = Cardinality(Finders(o)) + 1
        BY <4>1, Counts, FS_AddElement
      <4>3. Finders(o)' \subseteq Running /\ Running \subseteq Workers
        BY <1>4, <4>1, NoticesAssumption DEF Finders, Running, Busy, Idle
      <4>4. Cardinality(Finders(o)') <= Cardinality(Running)
        BY <4>3, WorkersFinite, FS_Subset
      <4>5. Cardinality(Running) <= most
        BY DEF ReleaseInv, FindersCounted
      <4>6. releases[o] = Erased(o)
        BY <3>3, Counts DEF Erased
      <4>7. most > 0
        BY <4>2, <4>4, <4>5, Counts
      <4>8. most + Erased(o) <= most * (1 + Erased(o)) /\ most * (1 + Erased(o)) \in Nat
        BY <4>7, Counts, Products
      <4> QED
        BY <3>3, <4>2, <4>4, <4>5, <4>6, <4>8, Counts
    <3> QED
      BY <3>2, <3>3
  <2>2. Cardinality(Running') <= most'
    BY <1>1, <1>3, <1>4, NoRunMore
  <2>3. \A b \in Bookings : Erased(b)' = Erased(b) /\ kept[b] <= releases[b]
    BY <1>1 DEF Erased, ReleaseInv, FindersCounted
  <2> QED
    BY <1>1, <2>1, <2>2, <2>3 DEF FindersCounted
<1>6. \A b \in Bookings : b \in run'[w].due \/ run'[w].found = b => b \in run[w].due \/ run[w].found = b
  BY <1>1, <1>3, NoticesAssumption
<1> QED
  BY <1>1, <1>2, <1>3, <1>4, <1>5, <1>6, RunMoves

LEMMA WriteStep ==
    ASSUME ReleaseInv, NEW w \in Workers, WriteNotice(w)
    PROVE  ReleaseInv'
<1>1. /\ run \in [Workers -> [due : SUBSET Bookings, found : Bookings \cup {NoBooking}]]
      /\ releases \in [Bookings -> Nat] /\ kept \in [Bookings -> Nat] /\ deaths \in 0..MaxDeaths
  BY DEF ReleaseInv, NoticesTypeOK
<1>0. PICK o \in Bookings : run[w].found = o
  BY <1>1 DEF WriteNotice
<1>2. /\ run[w].found = o /\ run' = [run EXCEPT ![w].found = NoBooking]
      /\ releases' = [releases EXCEPT ![o] = @ + 1] /\ kept' = [kept EXCEPT ![o] = @ + 1]
      /\ UNCHANGED <<booking, window, told, clock, most, deaths, receiptVars>>
  BY <1>0, <1>1 DEF WriteNotice
<1>3. /\ run' \in [Workers -> [due : SUBSET Bookings, found : Bookings \cup {NoBooking}]]
      /\ run'[w].due = run[w].due /\ run'[w].found = NoBooking
      /\ \A v \in Workers \ {w} : run'[v] = run[v]
  BY <1>1, <1>2
<1>4. Busy(w)
  BY <1>2, NoticesAssumption DEF Busy, Idle
<1>5. /\ releases' \in [Bookings -> Nat] /\ kept' \in [Bookings -> Nat]
      /\ releases'[o] = releases[o] + 1 /\ kept'[o] = kept[o] + 1
      /\ \A b \in Bookings \ {o} : releases'[b] = releases[b] /\ kept'[b] = kept[b]
  BY <1>1, <1>2
<1>6. FindersCounted'
  <2>1. ASSUME NEW b \in Bookings
        PROVE  /\ kept'[b] <= releases'[b] /\ Erased(b)' = Erased(b)
               /\ releases'[b] + Cardinality(Finders(b)') <= most * (1 + Erased(b))
    <3>1. kept[b] <= releases[b] /\ releases[b] + Cardinality(Finders(b)) <= most * (1 + Erased(b))
      BY DEF ReleaseInv, FindersCounted
    <3>2. CASE b # o
      <4>1. Finders(b)' = Finders(b)
        BY <1>2, <1>3, <3>2, NoticesAssumption DEF Finders
      <4> QED
        BY <1>5, <3>1, <3>2, <4>1 DEF Erased
    <3>3. CASE b = o
      <4>1. Finders(o)' = Finders(o) \ {w} /\ w \in Finders(o)
        BY <1>2, <1>3, NoticesAssumption DEF Finders
      <4>2. Cardinality(Finders(o)') = Cardinality(Finders(o)) - 1
        BY <1>2, <4>1, Counts, FS_RemoveElement
      <4>3. Erased(o)' = Erased(o) /\ kept'[o] <= releases'[o]
        BY <1>5, <3>1, <3>3, Counts DEF Erased
      <4> QED
        BY <1>5, <3>1, <3>3, <4>2, <4>3, Counts
    <3> QED
      BY <3>2, <3>3
  <2>2. Cardinality(Running') <= most'
    BY <1>2, <1>3, <1>4, NoRunMore
  <2> QED
    BY <1>2, <2>1, <2>2 DEF FindersCounted
<1>7. \A b \in Bookings : b \in run'[w].due \/ run'[w].found = b => b \in run[w].due \/ run[w].found = b
  BY <1>3, NoticesAssumption
<1>8. \A b \in Bookings : releases'[b] > 0 => releases[b] > 0 \/ run[w].found = b
  BY <1>2, <1>5
<1> QED
  BY <1>1, <1>2, <1>3, <1>4, <1>5, <1>6, <1>7, <1>8, RunMoves

LEMMA DeathStep ==
    ASSUME ReleaseInv, NEW w \in Workers, WorkerDies(w)
    PROVE  ReleaseInv'
<1>1. /\ Busy(w) /\ run' = [run EXCEPT ![w] = Idle]
      /\ UNCHANGED <<booking, window, told, clock, releases, kept, most, receiptVars>>
  BY DEF WorkerDies
<1>2. /\ run \in [Workers -> [due : SUBSET Bookings, found : Bookings \cup {NoBooking}]]
      /\ releases \in [Bookings -> Nat] /\ kept \in [Bookings -> Nat] /\ deaths' \in 0..MaxDeaths
  BY NoticesAssumption DEF ReleaseInv, NoticesTypeOK, WorkerDies
<1>3. /\ run' \in [Workers -> [due : SUBSET Bookings, found : Bookings \cup {NoBooking}]]
      /\ run'[w].due = {} /\ run'[w].found = NoBooking
      /\ \A v \in Workers \ {w} : run'[v] = run[v]
  BY <1>1, <1>2 DEF Idle
<1>4. FindersCounted'
  <2>1. ASSUME NEW b \in Bookings
        PROVE  /\ Erased(b)' = Erased(b)
               /\ releases[b] + Cardinality(Finders(b)') <= most * (1 + Erased(b))
    <3>1. Finders(b)' \subseteq Finders(b) /\ Finders(b)' \subseteq Workers
      BY <1>3, NoticesAssumption DEF Finders
    <3>2. Cardinality(Finders(b)') <= Cardinality(Finders(b)) /\ Cardinality(Finders(b)') \in Nat
      BY <3>1, Counts, FS_Subset, WorkersFinite
    <3>3. Erased(b)' = Erased(b)
      BY <1>1 DEF Erased
    <3>4. most * (1 + Erased(b)) \in Nat
      BY Counts, Products
    <3>5. releases[b] + Cardinality(Finders(b)) <= most * (1 + Erased(b))
      BY DEF ReleaseInv, FindersCounted
    <3> QED
      BY <3>2, <3>3, <3>4, <3>5, Counts
  <2>2. Cardinality(Running') <= most'
    BY <1>1, <1>3, NoRunMore
  <2> QED
    BY <1>1, <2>1, <2>2 DEF ReleaseInv, FindersCounted
<1>5. \A b \in Bookings : b \in run'[w].due \/ run'[w].found = b => b \in run[w].due \/ run[w].found = b
  BY <1>3, NoticesAssumption
<1> QED
  BY <1>1, <1>2, <1>3, <1>4, <1>5, RunMoves

LEMMA EraseStep ==
    ASSUME ReleaseInv, NEW o \in Bookings, EraseNotice(o)
    PROVE  ReleaseInv'
<1>1. /\ kept[o] > 0 /\ kept' = [kept EXCEPT ![o] = @ - 1]
      /\ UNCHANGED <<booking, window, told, clock, run, releases, most, deaths, receiptVars>>
  BY DEF EraseNotice
<1>2. /\ kept' \in [Bookings -> Nat] /\ kept'[o] = kept[o] - 1
      /\ \A b \in Bookings \ {o} : kept'[b] = kept[b]
  BY <1>1 DEF ReleaseInv, NoticesTypeOK
<1>3. NoticesTypeOK'
  BY <1>1, <1>2 DEF ReleaseInv, NoticesTypeOK, receiptVars
<1>4. Running' = Running /\ \A b \in Bookings : Finders(b)' = Finders(b)
  BY <1>1 DEF Running, Busy, Finders
<1>5. ASSUME NEW b \in Bookings
      PROVE  /\ kept'[b] <= releases[b]
             /\ releases[b] + Cardinality(Finders(b)) <= most * (1 + Erased(b)')
  <2>1. kept[b] <= releases[b] /\ releases[b] + Cardinality(Finders(b)) <= most * (1 + Erased(b))
    BY DEF ReleaseInv, FindersCounted
  <2>2. CASE b # o
    <3>1. Erased(b)' = Erased(b)
      BY <1>1, <1>2, <2>2 DEF Erased
    <3> QED
      BY <1>2, <2>1, <2>2, <3>1
  <2>3. CASE b = o
    <3>1. Erased(o)' = Erased(o) + 1
      BY <1>1, <1>2, Counts DEF Erased
    <3>2. /\ most * (1 + Erased(o)) <= most * (1 + (Erased(o) + 1))
          /\ most * (1 + Erased(o)) \in Nat
      BY Counts, Products
    <3>3. most * (1 + (Erased(o) + 1)) \in Nat
      <4>1. Erased(o) + 1 \in Nat
        BY Counts
      <4> QED
        BY <4>1, Counts, Products
    <3> QED
      BY <1>2, <2>1, <2>3, <3>1, <3>2, <3>3, Counts
  <2> QED
    BY <2>2, <2>3
<1>6. FindersCounted'
  BY <1>1, <1>4, <1>5 DEF ReleaseInv, FindersCounted
<1>7. WindowsReached'
  BY <1>1 DEF ReleaseInv, WindowsReached
<1> QED
  BY <1>3, <1>6, <1>7 DEF ReleaseInv

LEMMA ReleaseInvStep == ReleaseInv /\ [NoticesNext]_noticeVars => ReleaseInv'
<1> SUFFICES ASSUME ReleaseInv, [NoticesNext]_noticeVars PROVE ReleaseInv'
  OBVIOUS
<1>1. CASE ReleaseNext
  BY <1>1, TickStep, StartStep, LookStep, WriteStep, DeathStep, EraseStep DEF ReleaseNext, RunStep
<1>2. CASE UNCHANGED noticeVars
  <2>1. /\ UNCHANGED <<booking, window, told, clock, run, releases, kept, most, deaths>>
        /\ UNCHANGED <<job, receipts, printing, crossed>>
    BY <1>2 DEF noticeVars, releaseVars, receiptVars
  <2>2. NoticesTypeOK' /\ WindowsReached'
    BY <2>1 DEF ReleaseInv, NoticesTypeOK, WindowsReached
  <2>3. FindersCounted'
    BY <2>1 DEF ReleaseInv, FindersCounted, Running, Finders, Busy, Erased
  <2> QED
    BY <2>2, <2>3 DEF ReleaseInv
<1> QED
  BY <1>1, <1>2, PlacementStep, ReceiptStep DEF NoticesNext

LEMMA ReleaseInvariant == NoticesSafe => []ReleaseInv
BY ReleaseInit, ReleaseInvStep, PTL DEF NoticesSafe

\* Orders, notices, receipts, runs and requests are what Notices says they are, for any
\* number of each.
THEOREM NoticesTypes == NoticesSafe => []NoticesTypeOK
BY ReleaseInvariant, PTL DEF ReleaseInv
-----------------------------------------------------------------------------
(* Receipts.                                                               *)

LEMMA ReceiptInit == NoticesInit => ReceiptInv
BY DEF NoticesInit, ReceiptInv, One, Printed

LEMMA ReceiptInvStep == NoticesTypeOK /\ ReceiptInv /\ [NoticesNext]_noticeVars => ReceiptInv'
<1> SUFFICES ASSUME NoticesTypeOK, ReceiptInv, [NoticesNext]_noticeVars PROVE ReceiptInv'
  OBVIOUS
<1>0. /\ job \in [Bookings -> JobStates] /\ receipts \in [Bookings -> Nat]
      /\ printing \subseteq Bookings \X Printers /\ crossed \subseteq Bookings
  BY DEF NoticesTypeOK
\* Only one order is concerned.
<1>1. ASSUME NEW o \in Bookings,
             \A b \in Bookings \ {o} :
                 /\ job'[b] = job[b] /\ receipts'[b] = receipts[b]
                 /\ (b \in crossed' <=> b \in crossed)
                 /\ \A p \in Printers : <<b, p>> \in printing' <=> <<b, p>> \in printing,
             \A p, q \in Printers : <<o, p>> \in printing' /\ <<o, q>> \in printing' => p = q,
             receipts'[o] + One(job'[o] = "creating") + One(Printed(o)')
                 <= IF o \in crossed' THEN 2 ELSE 1
      PROVE  ReceiptInv'
  <2>1. ASSUME NEW b \in Bookings \ {o}
        PROVE  /\ receipts'[b] + One(job'[b] = "creating") + One(Printed(b)')
                     <= IF b \in crossed' THEN 2 ELSE 1
               /\ \A p, q \in Printers : <<b, p>> \in printing' /\ <<b, q>> \in printing' => p = q
    <3>1. Printed(b)' <=> Printed(b)
      BY <1>1 DEF Printed
    <3>2. One(Printed(b)') = One(Printed(b)) /\ One(job'[b] = "creating") = One(job[b] = "creating")
      BY <1>1, <3>1 DEF One
    <3> QED
      BY <1>1, <3>2 DEF ReceiptInv
  <2> QED
    BY <1>1, <2>1 DEF ReceiptInv
<1>2. CASE PlacementNext
  <2>1. PICK o \in Bookings :
           \/ \E w \in Windows \cup {0} : AnnounceBooking(o, w)
           \/ CommitBooking(o) \/ RollBackBooking(o)
           \/ \E s \in BookingStatuses : MoveOn(o, s)
           \/ CancelBooking(o)
    BY <1>2 DEF PlacementNext
  <2>2. /\ UNCHANGED <<receipts, printing, crossed>>
        /\ job' = [job EXCEPT ![o] = "queued"] \/ job' = job
    BY <2>1 DEF AnnounceBooking, CommitBooking, RollBackBooking, MoveOn, CancelBooking, receiptVars
  <2>3. Printed(o)' = Printed(o)
    BY <2>2, Zenon DEF Printed
  <2>4. One(job'[o] = "creating") <= One(job[o] = "creating")
    BY <1>0, <2>2 DEF One
  <2>5. receipts[o] + One(job[o] = "creating") + One(Printed(o)) <= IF o \in crossed THEN 2 ELSE 1
    BY DEF ReceiptInv
  <2>6. receipts'[o] + One(job'[o] = "creating") + One(Printed(o)') <= IF o \in crossed' THEN 2 ELSE 1
    <3>1. /\ One(job'[o] = "creating") \in {0, 1} /\ One(job[o] = "creating") \in {0, 1}
          /\ One(Printed(o)) \in {0, 1} /\ receipts[o] \in Nat
      BY <1>0 DEF One
    <3>2. One(Printed(o)') = One(Printed(o))
      BY <2>3
    <3> QED
      BY <2>2, <2>4, <2>5, <3>1, <3>2
  <2>7. \A p, q \in Printers : <<o, p>> \in printing' /\ <<o, q>> \in printing' => p = q
    BY <2>2 DEF ReceiptInv
  <2>8. \A b \in Bookings \ {o} : job'[b] = job[b]
    BY <1>0, <2>2
  <2> QED
    BY <1>1, <2>2, <2>6, <2>7, <2>8
<1>3. CASE ReceiptNext
  <2>1. PICK o \in Bookings :
           \/ JobLooks(o) \/ JobCreates(o)
           \/ \E s \in {"failed", "mailed"} : JobEnds(o, s)
           \/ \E p \in Printers : \/ PrintReceipt(o, p)
                                  \/ \E rendered \in BOOLEAN : ReceiptPrinted(o, p, rendered)
    BY <1>3 DEF ReceiptNext
  <2>2. receipts[o] + One(job[o] = "creating") + One(Printed(o)) <= IF o \in crossed THEN 2 ELSE 1
    BY DEF ReceiptInv
  <2>3. receipts[o] \in Nat /\ \A p, q \in Printers : <<o, p>> \in printing /\ <<o, q>> \in printing => p = q
    BY <1>0 DEF ReceiptInv
  <2>4. CASE JobLooks(o)
    <3>1. /\ job[o] = "queued" /\ UNCHANGED <<receipts, printing>>
          /\ job' = [job EXCEPT ![o] = CASE ~Committed(o) -> "failed"
                                         [] receipts[o] = 0 -> "creating"
                                         [] OTHER -> "rendering"]
          /\ crossed' = IF job'[o] = "creating" /\ Printed(o) THEN crossed \cup {o} ELSE crossed
      BY <2>4 DEF JobLooks, Printed
    <3>2. job'[o] = "creating" => receipts[o] = 0
      BY <1>0, <3>1
    <3>3. Printed(o)' <=> Printed(o)
      BY <3>1 DEF Printed
    <3>4. \A b \in Bookings \ {o} : job'[b] = job[b] /\ (b \in crossed' <=> b \in crossed)
      BY <1>0, <3>1
    <3>5. receipts'[o] + One(job'[o] = "creating") + One(Printed(o)') <= IF o \in crossed' THEN 2 ELSE 1
      BY <2>2, <2>3, <3>1, <3>2, <3>3 DEF One
    <3> QED
      BY <1>1, <2>3, <3>1, <3>4, <3>5
  <2>5. CASE JobCreates(o) \/ \E s \in {"failed", "mailed"} : JobEnds(o, s)
    <3>1. /\ UNCHANGED <<printing, crossed>> /\ job'[o] # "creating"
          /\ \A b \in Bookings \ {o} : job'[b] = job[b] /\ receipts'[b] = receipts[b]
          /\ receipts'[o] = receipts[o] \/ (job[o] = "creating" /\ receipts'[o] = receipts[o] + 1)
      BY <1>0, <2>5 DEF JobCreates, JobEnds
    <3>2. Printed(o)' <=> Printed(o)
      BY <3>1 DEF Printed
    <3>3. receipts'[o] + One(job'[o] = "creating") + One(Printed(o)') <= IF o \in crossed' THEN 2 ELSE 1
      BY <2>2, <2>3, <3>1, <3>2 DEF One
    <3> QED
      BY <1>1, <2>3, <3>1, <3>3
  <2>6. CASE \E p \in Printers : PrintReceipt(o, p)
    <3>1. PICK p \in Printers : PrintReceipt(o, p)
      BY <2>6
    <3>2. /\ receipts[o] = 0 /\ (\A q \in Printers : <<o, q>> \notin printing)
          /\ printing' = printing \cup {<<o, p>>} /\ UNCHANGED <<job, receipts>>
          /\ crossed' = IF job[o] = "creating" THEN crossed \cup {o} ELSE crossed
      BY <3>1 DEF PrintReceipt
    <3>3. receipts'[o] + One(job'[o] = "creating") + One(Printed(o)') <= IF o \in crossed' THEN 2 ELSE 1
      BY <2>2, <3>2 DEF One
    <3>4. \A x, q \in Printers : <<o, x>> \in printing' /\ <<o, q>> \in printing' => x = q
      BY <3>2
    <3>5. \A b \in Bookings \ {o} : /\ (b \in crossed' <=> b \in crossed)
                                    /\ \A q \in Printers : <<b, q>> \in printing' <=> <<b, q>> \in printing
      BY <3>2
    <3> QED
      BY <1>1, <3>2, <3>3, <3>4, <3>5
  <2>7. CASE \E p \in Printers, rendered \in BOOLEAN : ReceiptPrinted(o, p, rendered)
    <3>1. PICK p \in Printers, rendered \in BOOLEAN : ReceiptPrinted(o, p, rendered)
      BY <2>7
    <3>2. /\ <<o, p>> \in printing /\ printing' = printing \ {<<o, p>>} /\ UNCHANGED <<job, crossed>>
          /\ receipts'[o] \in {receipts[o], receipts[o] + 1}
          /\ \A b \in Bookings \ {o} : receipts'[b] = receipts[b]
      BY <1>0, <3>1 DEF ReceiptPrinted
    <3>3. Printed(o) /\ ~Printed(o)'
      BY <2>3, <3>2 DEF Printed
    <3>4. receipts'[o] + One(job'[o] = "creating") + One(Printed(o)') <= IF o \in crossed' THEN 2 ELSE 1
      BY <2>2, <2>3, <3>2, <3>3 DEF One
    <3>5. /\ \A x, q \in Printers : <<o, x>> \in printing' /\ <<o, q>> \in printing' => x = q
          /\ \A b \in Bookings \ {o} : \A q \in Printers : <<b, q>> \in printing' <=> <<b, q>> \in printing
      BY <2>3, <3>2
    <3> QED
      BY <1>1, <3>2, <3>4, <3>5
  <2> QED
    BY <2>1, <2>4, <2>5, <2>6, <2>7
<1>4. CASE UNCHANGED receiptVars
  BY <1>4 DEF receiptVars, ReceiptInv, Printed
<1> QED
  BY <1>2, <1>3, <1>4 DEF NoticesNext, ReleaseNext, noticeVars, Tick, StartRun, RunStep, LookForNotice,
     WriteNotice, WorkerDies, EraseNotice

\* A store is told to prepare an order at most as often as runs of the release job were
\* under way together, once more as often for each notice that was deleted, and an order
\* has one receipt, or two where the job and a request crossed; for any number of runs,
\* deaths, deletions, orders and requests.
THEOREM NobodyToldTwice == NoticesSafe => []ToldOnce
<1>1. ReleaseInv => ReleasesBounded
  <2> SUFFICES ASSUME ReleaseInv, NEW o \in Bookings
               PROVE  /\ releases[o] <= most * (1 + Erased(o))
                      /\ releases[o] > 0 => window[o] \in 1..clock
    BY DEF ReleasesBounded
  <2>1. releases[o] + Cardinality(Finders(o)) <= most * (1 + Erased(o))
    BY DEF ReleaseInv, FindersCounted
  <2>2. most * (1 + Erased(o)) \in Nat
    BY Counts, Products
  <2> QED
    BY <2>1, <2>2, Counts DEF ReleaseInv, WindowsReached
<1>2. NoticesTypeOK /\ ReceiptInv => ReceiptsBounded
  <2> SUFFICES ASSUME NoticesTypeOK, ReceiptInv, NEW o \in Bookings
               PROVE  receipts[o] <= IF o \in crossed THEN 2 ELSE 1
    BY DEF ReceiptsBounded
  <2>1. /\ receipts[o] + One(job[o] = "creating") + One(Printed(o)) <= IF o \in crossed THEN 2 ELSE 1
        /\ receipts[o] \in Nat /\ One(job[o] = "creating") \in {0, 1} /\ One(Printed(o)) \in {0, 1}
    BY DEF NoticesTypeOK, ReceiptInv, One
  <2> QED
    BY <2>1
<1>3. ReleaseInv => NoticesTypeOK
  BY DEF ReleaseInv
<1> QED
  BY <1>1, <1>2, <1>3, ReleaseInvariant, ReceiptInit, ReceiptInvStep, PTL DEF NoticesSafe, ToldOnce
-----------------------------------------------------------------------------
(***************************************************************************)
(* Aftercare: refunds, support cases and ratings of delivered orders.      *)
(***************************************************************************)

\* The amounts of rows are natural numbers, so their sums are.
LEMMA RowAmount ==
    ASSUME AftercareTypeOK, NEW r \in Refunds
    PROVE  ledger[r].amount \in Nat /\ ledger[r].amount \in Int
<1>1. ledger[r].amount \in Amounts \cup {0}
  BY DEF AftercareTypeOK
<1>2. Amounts \cup {0} \subseteq Nat
  BY AftercareAssumption
<1> QED
  BY <1>1, <1>2

LEMMA RefundAmounts ==
    ASSUME AftercareTypeOK, NEW S \in SUBSET Refunds
    PROVE  IsFiniteSet(S) /\ SumOf(S) \in Nat
<1>1. IsFiniteSet(S)
  BY AftercareAssumption, FS_Subset
<1>2. \A r \in S : [x \in Refunds |-> ledger[x].amount][r] \in Nat
  BY RowAmount
<1> QED
  BY <1>1, <1>2, SumNat DEF SumOf

\* One row of the ledger changes: the sum of an order counts the other rows as before.
LEMMA OutstandingAfter ==
    ASSUME AftercareTypeOK, AftercareTypeOK', NEW r \in Refunds, NEW o \in Deliveries,
           \A x \in Refunds \ {r} : ledger'[x] = ledger[x]
    PROVE  /\ r \in Outstanding(o)' => SumOf(Outstanding(o))' = Reserved(o, r) + ledger'[r].amount
           /\ r \notin Outstanding(o)' => SumOf(Outstanding(o))' = Reserved(o, r)
<1> DEFINE amount  == [x \in Refunds |-> ledger[x].amount]
           amount2 == [x \in Refunds |-> ledger'[x].amount]
           S == Outstanding(o) \ {r}
           T == Outstanding(o)'
<1>1. S \subseteq Refunds /\ T \subseteq Refunds /\ IsFiniteSet(S) /\ S = T \ {r}
  <2>1. S \subseteq Refunds /\ T \subseteq Refunds /\ S = T \ {r}
    BY DEF Outstanding
  <2> QED
    BY <2>1, AftercareAssumption, FS_Subset
<1>2. /\ \A x \in Refunds : amount2[x] \in Int
      /\ \A x \in S : amount[x] = amount2[x]
  <2>1. \A x \in Refunds : ledger'[x].amount \in Int
    <3>1. ASSUME NEW x \in Refunds PROVE ledger'[x].amount \in Int
      <4>1. ledger'[x].amount \in Amounts \cup {0}
        BY DEF AftercareTypeOK
      <4>2. Amounts \cup {0} \subseteq Int
        BY AftercareAssumption
      <4> QED
        BY <4>1, <4>2
    <3> QED
      BY <3>1
  <2>2. \A x \in S : ledger[x].amount = ledger'[x].amount
    BY <1>1
  <2> QED
    BY <1>1, <2>1, <2>2
<1>3. SumFunctionOnSet(amount, S) = SumFunctionOnSet(amount2, S)
  <2> HIDE DEF amount, amount2, S
  <2> QED
    BY <1>1, <1>2, SumSame
<1>4. /\ Reserved(o, r) = SumFunctionOnSet(amount2, S)
      /\ SumOf(Outstanding(o))' = SumFunctionOnSet(amount2, T)
  BY <1>3 DEF Reserved, SumOf
<1>5. CASE r \in T
  <2>1. T = S \cup {r} /\ r \notin S
    BY <1>1, <1>5
  <2>2. SumFunctionOnSet(amount2, S \cup {r}) = SumFunctionOnSet(amount2, S) + amount2[r]
    <3> HIDE DEF amount2, S, T
    <3> QED
      BY <1>1, <1>2, <2>1, SumAdd
  <2> QED
    BY <1>4, <1>5, <2>1, <2>2
<1>6. CASE r \notin T
  <2>1. T = S
    BY <1>1, <1>6
  <2> QED
    BY <1>4, <1>6, <2>1
<1> QED
  BY <1>5, <1>6

\* The types hold throughout.
LEMMA AftercareTypeInit == AftercareInit => AftercareTypeOK
BY DEF AftercareInit, AftercareTypeOK, NoRefund, NoIssue, RefundMethods, IssueStatuses

LEMMA LedgerTypes ==
    ASSUME AftercareTypeOK, LedgerNext
    PROVE  AftercareTypeOK'
<1>1. PICK r \in Refunds :
         \/ \E o \in Deliveries, amount \in Amounts, method \in RefundMethods :
                RequestRefund(r, o, amount, method)
         \/ \E s \in RefundStatuses : MoveRefund(r, s)
  BY DEF LedgerNext
<1> DEFINE Rows == [status : RefundStatuses \cup {"none"}, order : Deliveries \cup {NoDelivery},
                    amount : Amounts \cup {0}, method : RefundMethods]
<1>2. CASE \E o \in Deliveries, amount \in Amounts, method \in RefundMethods :
              RequestRefund(r, o, amount, method)
  <2>1. PICK o \in Deliveries, amount \in Amounts, method \in RefundMethods :
           RequestRefund(r, o, amount, method)
    BY <1>2
  <2>2. [status |-> "requested", order |-> o, amount |-> amount, method |-> method] \in Rows
    BY DEF RefundStatuses
  <2> QED
    BY <2>1, <2>2 DEF RequestRefund, AftercareTypeOK, cases, reviews
<1>3. CASE \E s \in RefundStatuses : MoveRefund(r, s)
  <2>1. PICK s \in RefundStatuses : MoveRefund(r, s)
    BY <1>3
  <2>2. [ledger[r] EXCEPT !.status = s] \in Rows
    BY DEF AftercareTypeOK
  <2> QED
    BY <2>1, <2>2 DEF MoveRefund, AftercareTypeOK, cases, reviews
<1> QED
  BY <1>1, <1>2, <1>3

\* What a count of reviews finds.
LEMMA ReviewsCounted == IsFiniteSet(Reviewed) /\ Cardinality(Reviewed) \in Nat
<1>1. Reviewed \subseteq Deliveries
  BY DEF Reviewed
<1> QED
  BY <1>1, AftercareAssumption, FS_Subset, FS_CardinalityType

LEMMA OtherTypes ==
    ASSUME AftercareTypeOK, CaseNext \/ RatingNext
    PROVE  AftercareTypeOK'
<1>1. CASE CaseNext
  <2>1. PICK i \in Issues : \/ RaiseIssue(i) \/ MessageReads(i) \/ MessageSaves(i)
                            \/ \E s \in IssueStatuses : UpdateCase(i, s)
    BY <1>1 DEF CaseNext
  <2>2. /\ issue' \in [Issues -> [status : IssueStatuses, resolver : BOOLEAN]]
        /\ writing' \subseteq Issues /\ overtaken' \subseteq Issues
        /\ UNCHANGED <<ledger, rating, counted, ratings>>
    <3>1. CASE RaiseIssue(i) \/ MessageReads(i) \/ MessageSaves(i)
      BY <3>1 DEF RaiseIssue, MessageReads, MessageSaves, AftercareTypeOK, reviews, IssueStatuses
    <3>2. CASE \E s \in IssueStatuses : UpdateCase(i, s)
      <4>1. PICK s \in IssueStatuses : UpdateCase(i, s)
        BY <3>2
      <4>2. (s \in Resolved) \in BOOLEAN
        OBVIOUS
      <4>3. [status |-> s, resolver |-> s \in Resolved] \in [status : IssueStatuses, resolver : BOOLEAN]
        BY <4>2
      <4> QED
        BY <4>1, <4>3 DEF UpdateCase, AftercareTypeOK, reviews
    <3> QED
      BY <2>1, <3>1, <3>2
  <2> QED
    BY <2>2 DEF AftercareTypeOK
<1>2. CASE RatingNext
  <2>1. Cardinality(Reviewed) + 1 \in Nat
    BY ReviewsCounted
  <2> QED
    BY <1>2, <2>1 DEF RatingNext, SubmitRating, CountReviews, SaveAverage, AftercareTypeOK, cases
<1> QED
  BY <1>1, <1>2

LEMMA AftercareTypeStep == AftercareTypeOK /\ [AftercareNext]_aftercare => AftercareTypeOK'
<1> SUFFICES ASSUME AftercareTypeOK, [AftercareNext]_aftercare PROVE AftercareTypeOK'
  OBVIOUS
<1>1. CASE UNCHANGED aftercare
  BY <1>1 DEF aftercare, AftercareTypeOK
<1> QED
  BY <1>1, LedgerTypes, OtherTypes DEF AftercareNext

\* Refunds, cases, ratings and the records of a delivery are what Aftercare says they are,
\* for any deliveries, rows and amounts.
THEOREM AftercareTypes == AftercareSpec => []AftercareTypeOK
BY AftercareTypeInit, AftercareTypeStep, PTL DEF AftercareSpec
-----------------------------------------------------------------------------
(* The ledger of refunds.                                                  *)

LEMMA RefundsInit == AftercareInit => RefundsWithinTotal
<1> SUFFICES ASSUME AftercareInit, NEW o \in Deliveries PROVE SumOf(Outstanding(o)) <= Total
  BY DEF RefundsWithinTotal
<1>1. Outstanding(o) = {}
  BY AftercareAssumption DEF AftercareInit, Outstanding, NoRefund
<1>2. SumOf(Outstanding(o)) = 0
  BY <1>1, SumEmpty DEF SumOf
<1> QED
  BY <1>2, AftercareAssumption

LEMMA RefundsStep ==
    ASSUME AftercareTypeOK, AftercareTypeOK', RefundsWithinTotal, [AftercareNext]_aftercare
    PROVE  RefundsWithinTotal'
<1> SUFFICES ASSUME NEW o \in Deliveries PROVE SumOf(Outstanding(o))' <= Total
  BY DEF RefundsWithinTotal
<1>1. SumOf(Outstanding(o)) <= Total /\ Total \in Nat
  BY AftercareAssumption DEF RefundsWithinTotal
\* The sum without a row is no larger.
<1>2. ASSUME NEW r \in Refunds
      PROVE  Reserved(o, r) <= Total /\ Reserved(o, r) \in Nat
  <2>1. Reserved(o, r) \in Nat /\ SumOf(Outstanding(o)) \in Nat
    BY RefundAmounts DEF Reserved, Outstanding
  <2>2. CASE r \in Outstanding(o)
    <3>1. SumOf(Outstanding(o)) = ledger[r].amount + Reserved(o, r)
      <4> DEFINE amount == [x \in Refunds |-> ledger[x].amount]
                 S == Outstanding(o)
      <4>1. /\ IsFiniteSet(S) /\ r \in S
            /\ \A x \in S : amount[x] \in Int
        <5>1. S \in SUBSET Refunds
          BY DEF Outstanding
        <5>2. \A x \in Refunds : amount[x] \in Int
          BY RowAmount
        <5> QED
          BY <2>2, <5>1, <5>2, RefundAmounts
      <4>2. SumFunctionOnSet(amount, S) = amount[r] + SumFunctionOnSet(amount, S \ {r})
        <5> HIDE DEF amount, S
        <5> QED
          BY <4>1, SumRemove
      <4> QED
        BY <4>2 DEF SumOf, Reserved
    <3>2. ledger[r].amount \in Nat
      BY RowAmount
    <3> QED
      BY <1>1, <2>1, <3>1, <3>2
  <2>3. CASE r \notin Outstanding(o)
    <3>1. Outstanding(o) \ {r} = Outstanding(o)
      BY <2>3
    <3> QED
      BY <1>1, <2>1, <3>1 DEF Reserved
  <2> QED
    BY <2>2, <2>3
<1>3. ASSUME NEW r \in Refunds, NEW p \in Deliveries, NEW amount \in Amounts,
             NEW method \in RefundMethods, RequestRefund(r, p, amount, method)
      PROVE  SumOf(Outstanding(o))' <= Total
  <2>1. /\ \A x \in Refunds \ {r} : ledger'[x] = ledger[x]
        /\ ledger'[r].order = p /\ ledger'[r].amount = amount
        /\ Reserved(p, r) + amount <= Total
    BY <1>3 DEF RequestRefund, Fits, AftercareTypeOK
  <2>2. r \in Outstanding(o)' => p = o
    BY <2>1 DEF Outstanding
  <2> QED
    BY <1>1, <1>2, <2>1, <2>2, OutstandingAfter
<1>4. ASSUME NEW r \in Refunds, NEW s \in RefundStatuses, MoveRefund(r, s)
      PROVE  SumOf(Outstanding(o))' <= Total
  <2>1. /\ \A x \in Refunds \ {r} : ledger'[x] = ledger[x]
        /\ ledger'[r].order = ledger[r].order /\ ledger'[r].amount = ledger[r].amount
        /\ Reserved(ledger[r].order, r) + ledger[r].amount <= Total
    BY <1>4 DEF MoveRefund, Fits, AftercareTypeOK
  <2>2. r \in Outstanding(o)' => ledger[r].order = o
    BY <2>1 DEF Outstanding
  <2> QED
    BY <1>1, <1>2, <2>1, <2>2, OutstandingAfter
<1>5. CASE UNCHANGED ledger
  BY <1>1, <1>5 DEF SumOf, Outstanding
<1> QED
  BY <1>3, <1>4, <1>5 DEF AftercareNext, LedgerNext, CaseNext, RatingNext, aftercare, RaiseIssue,
     MessageReads, MessageSaves, UpdateCase, SubmitRating, CountReviews, SaveAverage

\* The refunds of an order stay within its total, for any number of refunds and amounts:
\* MutateRefundLedgerAction checks the sum at every change of a row.
THEOREM RefundsCovered == AftercareSpec => []RefundsWithinTotal
BY AftercareTypes, RefundsInit, RefundsStep, PTL DEF AftercareSpec
-----------------------------------------------------------------------------
(* Cases and ratings.                                                      *)

\* A count that is under way found what was reviewed by then, and itself.
CountsSound == \A o \in Deliveries :
    rating[o] = "counting" => counted[o] \in 1..Cardinality(Reviewed) + 1

LEMMA RecordsInit == AftercareInit => RecordsKept /\ CountsSound
<1> SUFFICES ASSUME AftercareInit PROVE RecordsKept /\ CountsSound
  OBVIOUS
<1>1. ResolutionStands
  BY DEF AftercareInit, ResolutionStands, Resolved, NoIssue
<1>2. Reviewed = {}
  BY DEF AftercareInit, Reviewed
<1>3. RatingsCounted
  BY <1>2, ReviewsCounted DEF AftercareInit, RatingsCounted
<1> QED
  BY <1>1, <1>3 DEF RecordsKept, CountsSound, AftercareInit

LEMMA ResolutionStep ==
    ASSUME AftercareTypeOK, ResolutionStands, [AftercareNext]_aftercare
    PROVE  ResolutionStands'
<1>1. ASSUME NEW i \in Issues, NEW s \in IssueStatuses, UpdateCase(i, s)
      PROVE  ResolutionStands'
  <2>1. /\ issue'[i].status = s /\ (issue'[i].resolver <=> s \in Resolved) /\ i \notin overtaken'
        /\ \A j \in Issues \ {i} : issue'[j] = issue[j] /\ (j \in overtaken' <=> j \in overtaken)
    BY <1>1 DEF UpdateCase, AftercareTypeOK
  <2> QED
    BY <2>1 DEF ResolutionStands
<1>2. ASSUME NEW i \in Issues, RaiseIssue(i) \/ MessageReads(i) \/ MessageSaves(i)
      PROVE  ResolutionStands'
  <2>1. CASE MessageReads(i)
    BY <2>1 DEF MessageReads, ResolutionStands
  <2>2. CASE RaiseIssue(i) \/ MessageSaves(i)
    <3>1. /\ issue'[i].status \notin Resolved /\ issue'[i].resolver = issue[i].resolver
          /\ \A j \in Issues \ {i} : issue'[j] = issue[j] /\ (j \in overtaken' <=> j \in overtaken)
      BY <2>2 DEF RaiseIssue, MessageSaves, AftercareTypeOK, Resolved
    <3>2. issue[i].resolver <=> i \in overtaken'
      BY <2>2 DEF RaiseIssue, MessageSaves, ResolutionStands, Resolved, AftercareTypeOK
    <3> QED
      BY <3>1, <3>2 DEF ResolutionStands
  <2> QED
    BY <1>2, <2>1, <2>2
<1>3. CASE UNCHANGED cases
  BY <1>3 DEF cases, ResolutionStands
<1> QED
  BY <1>1, <1>2, <1>3 DEF AftercareNext, LedgerNext, CaseNext, RatingNext, aftercare, cases,
     RequestRefund, MoveRefund, SubmitRating, CountReviews, SaveAverage

LEMMA RatingsStep ==
    ASSUME AftercareTypeOK, RatingsCounted, CountsSound, [AftercareNext]_aftercare
    PROVE  RatingsCounted' /\ CountsSound'
<1> DEFINE n == Cardinality(Reviewed)
<1>1. n \in Nat /\ IsFiniteSet(Reviewed)
  BY ReviewsCounted
<1>2. ASSUME NEW o \in Deliveries, SubmitRating(o) \/ CountReviews(o)
      PROVE  RatingsCounted' /\ CountsSound'
  <2>1. Reviewed' = Reviewed /\ ratings' = ratings
    BY <1>2 DEF SubmitRating, CountReviews, Reviewed, AftercareTypeOK
  <2>2. ASSUME NEW p \in Deliveries, rating'[p] = "counting"
        PROVE  counted'[p] \in 1..n + 1
    <3>1. p # o => rating[p] = "counting" /\ counted'[p] = counted[p]
      BY <1>2, <2>2 DEF SubmitRating, CountReviews, AftercareTypeOK
    <3>2. p = o => counted'[p] = n + 1
      BY <1>2, <2>2 DEF SubmitRating, CountReviews, AftercareTypeOK
    <3> QED
      BY <1>1, <3>1, <3>2 DEF CountsSound
  <2> QED
    BY <2>1, <2>2 DEF RatingsCounted, CountsSound
<1>3. ASSUME NEW o \in Deliveries, SaveAverage(o)
      PROVE  RatingsCounted' /\ CountsSound'
  <2>1. Reviewed' = Reviewed \cup {o} /\ o \notin Reviewed /\ ratings' = counted[o]
    BY <1>3 DEF SaveAverage, Reviewed, AftercareTypeOK
  <2>2. Cardinality(Reviewed') = n + 1
    BY <1>1, <2>1, FS_AddElement
  <2>3. counted[o] \in 1..n + 1
    BY <1>3 DEF SaveAverage, CountsSound
  <2>4. ASSUME NEW p \in Deliveries, rating'[p] = "counting"
        PROVE  counted'[p] \in 1..(n + 1) + 1
    <3>1. rating[p] = "counting" /\ counted'[p] = counted[p]
      BY <1>3, <2>4 DEF SaveAverage, AftercareTypeOK
    <3>2. counted[p] \in 1..n + 1
      BY <3>1 DEF CountsSound
    <3> QED
      BY <1>1, <3>1, <3>2
  <2> QED
    BY <1>1, <2>1, <2>2, <2>3, <2>4 DEF RatingsCounted, CountsSound
<1>4. CASE UNCHANGED reviews
  BY <1>4 DEF reviews, RatingsCounted, CountsSound, Reviewed
<1> QED
  BY <1>2, <1>3, <1>4 DEF AftercareNext, LedgerNext, CaseNext, RatingNext, aftercare, reviews,
     RequestRefund, MoveRefund, RaiseIssue, MessageReads, MessageSaves, UpdateCase

\* A resolution keeps its resolver but for a message that overtakes it, and a store's
\* number of ratings counts no review twice: UpdateSupportCaseAction, AddIssueMessageAction
\* and VendorReview.save in any order.
THEOREM RecordsSurvive == AftercareSpec => []RecordsKept
<1>1. AftercareTypeOK /\ (RecordsKept /\ CountsSound) /\ [AftercareNext]_aftercare
        => (RecordsKept /\ CountsSound)'
  BY ResolutionStep, RatingsStep DEF RecordsKept
<1> QED
  BY <1>1, RecordsInit, AftercareTypes, PTL DEF AftercareSpec
=============================================================================
