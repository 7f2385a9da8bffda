------------------------------ MODULE Realtime ------------------------------
(***************************************************************************)
(* The screens that are kept up to date over websockets: the tracking of   *)
(* an order (delivery/consumers.py), the chat of a case                    *)
(* (orders/consumers.py), a store's board of orders (vendors/consumers.py) *)
(* and the administrators' figures (backend/consumers/admin_stats.py).     *)
(*                                                                         *)
(* Whoever changes something announces it to a group of the channel layer, *)
(* which puts the announcement into the inbox of every socket of that      *)
(* group; a socket handles one after another.  Positions, messages and     *)
(* orders are sent as they were announced, figures are read when the       *)
(* announcement is handled: from the cache, where whoever counted them     *)
(* left them for fifteen seconds, if they are still there                  *)
(* (accounts/actions/admin_actions.py).                                    *)
(*                                                                         *)
(* One room, of any kind.  A change is known by its number: content is the *)
(* set of the changes that it shows.                                       *)
(***************************************************************************)
EXTENDS Integers, Sequences, FiniteSetsExt

CONSTANTS
    Sockets,    \* each of one user; a socket that is closed may be opened again
    Writers,    \* requests, jobs and the courier's sockets
    Capacity,   \* of an inbox
    MaxMade     \* changes

ASSUME RealtimeAssumption == Capacity \in Nat \ {0} /\ MaxMade \in Nat

VARIABLES
    room,       \* the kind of room
    may,        \* may the user of a socket see the room now?
    courier,    \* of a tracked order: "none", "accepted" it, or it is "underway"
    sock,       \* where a socket is
    inbox,      \* its announcements, the one that it handles first
    shown,      \* what its screen shows
    made,       \* the number of changes
    stored,     \* those that are committed
    pub,        \* what a writer is doing
    cached,     \* the figures in the cache: none or one content
    tallied,    \* what dashboard requests have counted, and not yet left in the cache
    drawn,      \* what a socket has counted
    \* for the properties:
    missed,     \* the screen may lack something, and no announcement is to come
    since,      \* the changes made before a socket joined
    barred,     \* the changes made since the user may no longer see the room
    announced,  \* the last change that was announced
    disturbed   \* an announcement of a position or an order was left out, lost or undone,
                \* or overlapped with another

people == <<may, courier>>
screens == <<sock, inbox, shown, since>>
caching == <<cached, tallied, drawn>>
realtimeVars == <<room, caching, people, screens, made, stored, pub, missed, barred, announced, disturbed>>
-----------------------------------------------------------------------------
Kinds == {"tracking", "chat", "board", "figures"}

Resting == [stage |-> "idle", change |-> 0]
InTransaction(w) == pub[w].stage = "uncommitted"

\* The row of an order, or of a courier's position, as it is committed
Latest == Max(stored \cup {0})

\* group_add; a socket that is asking is not yet in the group
Members == {s \in Sockets : sock[s] \notin {"none", "asked"}}

\* Mutant of AsksAgain: like the board, no room asks again.
NeverAsks == FALSE

\* A socket asks again before it sends what was announced.
AsksAgain == room # "board"

RealtimeTypeOK ==
    /\ room \in Kinds /\ may \in [Sockets -> BOOLEAN] /\ courier \in {"none", "accepted", "underway"}
    /\ sock \in [Sockets -> {"none", "asked", "joined", "allowed", "computed", "open", "handling"}]
    /\ \A s \in Sockets : inbox[s] \in Seq(0..made) /\ Len(inbox[s]) <= Capacity
    /\ \A s \in Sockets : shown[s] \cup barred[s] \subseteq 0..made
    /\ made \in 0..MaxMade /\ stored \subseteq 1..made
    /\ \A w \in Writers : pub[w].change \in 0..made
    /\ cached \cup tallied \subseteq SUBSET (1..made) /\ \A s \in Sockets : drawn[s] \subseteq 1..made
    /\ \A a, b \in cached : a = b

RealtimeInit ==
    /\ room \in Kinds
    /\ may = [s \in Sockets |-> TRUE] /\ courier = "underway"
    /\ sock = [s \in Sockets |-> "none"]
    /\ inbox = [s \in Sockets |-> <<>>]
    /\ shown = [s \in Sockets |-> {}]
    /\ made = 0 /\ stored = {}
    /\ pub = [w \in Writers |-> Resting]
    /\ cached = {} /\ tallied = {} /\ drawn = [s \in Sockets |-> {}]
    /\ missed = [s \in Sockets |-> FALSE]
    /\ since = [s \in Sockets |-> 0]
    /\ barred = [s \in Sockets |-> {}]
    /\ announced = 0 /\ disturbed = FALSE
-----------------------------------------------------------------------------
(* Rights come and go: accounts are disabled, passwords and grants change, *)
(* orders are reassigned and delivered.                                    *)

SetAccess(s) ==
    /\ may' = [may EXCEPT ![s] = ~@]
    /\ barred' = [barred EXCEPT ![s] = {}]
    /\ UNCHANGED <<room, caching, courier, screens, made, stored, pub, missed, announced, disturbed>>

SetCourier(stage) ==
    /\ room = "tracking" /\ stage # courier
    /\ courier' = stage
    /\ UNCHANGED <<room, caching, may, screens, made, stored, pub, missed, barred, announced, disturbed>>
-----------------------------------------------------------------------------
(* Changes and their announcements.                                        *)

\* A change is made; whoever may not see it is barred from it.
Make ==
    /\ made < MaxMade
    /\ made' = made + 1
    /\ barred' = [s \in Sockets |-> IF may[s] THEN barred[s] ELSE barred[s] \cup {made'}]

Begin(w, stage, change) ==
    /\ pub' = [pub EXCEPT ![w] = [stage |-> stage, change |-> change]]
    /\ disturbed' = (disturbed \/ (room # "figures" /\ \E o \in Writers \ {w} : pub[o] # Resting))

Proceed(w, stage, change) ==
    pub' = [pub EXCEPT ![w] = [stage |-> stage, change |-> change]]

End(w) == pub' = [pub EXCEPT ![w] = Resting]

\* group_send: a full inbox drops it in silence.
Announce(v) ==
    /\ inbox' = [s \in Sockets |->
                    IF s \in Members /\ Len(inbox[s]) < Capacity THEN Append(inbox[s], v) ELSE inbox[s]]
    /\ missed' = [s \in Sockets |->
                    IF s \notin Members THEN missed[s]
                    ELSE Len(inbox[s]) >= Capacity \/ (room = "chat" /\ missed[s])]
    /\ announced' = v

\* The courier's socket: may it publish, ...
AskToPublish(w) ==
    /\ room = "tracking" /\ pub[w] = Resting /\ courier # "none"
    /\ Begin(w, "asked", 0)
    /\ UNCHANGED <<room, caching, people, screens, made, stored, missed, barred, announced>>

\* ... its position is saved, and announced later.
SavePosition(w) ==
    /\ pub[w].stage = "asked"
    /\ Make
    /\ stored' = stored \cup {made'}
    /\ Proceed(w, "made", made')
    /\ UNCHANGED <<room, caching, people, screens, missed, announced, disturbed>>

\* A position that is saved by request is announced to nobody, ...
ChangeInSilence ==
    /\ Make
    /\ stored' = stored \cup {made'}
    /\ disturbed' = TRUE
    /\ UNCHANGED <<room, caching, people, screens, pub, missed, announced>>

UpdateLocation == room = "tracking" /\ ChangeInSilence

\* ... and the board is not told of an order that its customer cancels.
CancelOrder ==
    /\ room = "board" /\ \A w \in Writers : ~InTransaction(w)
    /\ ChangeInSilence

\* An order is changed and announced once that is committed, as it then is: on_commit ...
ChangeOrder(w) ==
    /\ room = "board" /\ pub[w] = Resting
    /\ \A o \in Writers : ~InTransaction(o)
    /\ Make
    /\ stored' = stored \cup {made'}
    /\ Begin(w, "committed", made')
    /\ UNCHANGED <<room, caching, people, screens, missed, announced>>

ReadOrder(w) ==
    /\ pub[w].stage = "committed"
    /\ Proceed(w, "made", Latest)
    /\ UNCHANGED <<room, caching, people, screens, made, stored, missed, barred, announced, disturbed>>

\* ... or while the row is still locked, like a message of a chat and a row that figures
\* are made of: announced, and then committed or rolled back.
ChangeInTransaction(w) ==
    /\ room # "tracking" /\ pub[w] = Resting
    /\ room = "board" => \A o \in Writers : ~InTransaction(o)
    /\ Make
    /\ Begin(w, "uncommitted", made')
    /\ Announce(made')
    /\ UNCHANGED <<room, caching, people, sock, shown, since, stored>>

\* Figures that were counted before the commit lack it.
EndTransaction(w, commits) ==
    /\ InTransaction(w)
    /\ stored' = IF commits THEN stored \cup {pub[w].change} ELSE stored
    /\ disturbed' = (disturbed \/ (room = "board" /\ ~commits))
    /\ missed' = [s \in Sockets |->
          missed[s] \/ (/\ room = "figures" /\ commits
                        /\ sock[s] \in {"open", "computed"} /\ inbox[s] = <<>>)]
    /\ End(w)
    /\ UNCHANGED <<room, caching, people, screens, made, barred, announced>>

\* Mutant of SaveAlone: no receiver is connected for that model.
SaveUnheard(w) ==
    /\ room = "figures" /\ pub[w] = Resting
    /\ Make
    /\ stored' = stored \cup {made'}
    /\ UNCHANGED <<room, caching, people, screens, pub, missed, announced, disturbed>>

\* A save outside a transaction is committed before its signal.
SaveAlone(w) ==
    /\ room = "figures" /\ pub[w] = Resting
    /\ Make
    /\ stored' = stored \cup {made'}
    /\ Begin(w, "made", made')
    /\ UNCHANGED <<room, caching, people, screens, missed, announced>>

\* The channel layer may fail.
Broadcast(w, reached) ==
    /\ pub[w].stage = "made"
    /\ IF reached THEN Announce(pub[w].change) /\ UNCHANGED disturbed
       ELSE /\ missed' = [s \in Sockets |-> missed[s] \/ s \in Members]
            /\ disturbed' = (disturbed \/ room # "figures")
            /\ UNCHANGED <<inbox, announced>>
    /\ End(w)
    /\ UNCHANGED <<room, caching, people, sock, shown, since, made, stored, barred>>
-----------------------------------------------------------------------------
(* Sockets.                                                                *)

At(s, place) == sock' = [sock EXCEPT ![s] = place]
Shows(s, content) == shown' = [shown EXCEPT ![s] = content]
Handled(s) == inbox' = [inbox EXCEPT ![s] = Tail(@)]
Missing(s, lacks) == missed' = [missed EXCEPT ![s] = lacks]

Steady == UNCHANGED <<room, people, made, stored, pub, barred, announced, disturbed>>

Connect(s) ==
    /\ sock[s] = "none" /\ may[s]
    /\ At(s, "asked")
    /\ Steady /\ UNCHANGED <<caching, inbox, shown, since, missed>>

\* group_add and accept
Join(s) ==
    /\ sock[s] = "asked"
    /\ At(s, IF room \in {"tracking", "figures"} THEN "joined" ELSE "open")
    /\ since' = [since EXCEPT ![s] = made]
    /\ Missing(s, FALSE)
    /\ Steady /\ UNCHANGED <<caching, inbox, shown>>

\* latest_location: the courier's position is sent at once, whoever asks by now.
SendPosition(s) ==
    /\ room = "tracking" /\ sock[s] = "joined"
    /\ At(s, "open")
    /\ IF courier = "underway" /\ stored # {} THEN Shows(s, {Latest}) /\ UNCHANGED missed
                                 ELSE UNCHANGED shown /\ Missing(s, TRUE)
    /\ Steady /\ UNCHANGED <<caching, inbox, since>>

\* get_stats asks again and answers nothing at all to who may not, ...
AskForFigures(s) ==
    /\ room = "figures" /\ sock[s] \in {"joined", "handling"}
    /\ IF may[s] THEN At(s, "allowed") /\ UNCHANGED <<shown, missed>>
       ELSE At(s, "open") /\ Shows(s, {}) /\ Missing(s, TRUE)
    /\ IF sock[s] = "handling" THEN Handled(s) ELSE UNCHANGED inbox
    /\ Steady /\ UNCHANGED <<caching, since>>

\* ... and then takes what is in the cache, though a change may have been committed since, ...
SendCached(s) ==
    /\ sock[s] = "allowed"
    /\ At(s, "open")
    /\ \E content \in cached : Shows(s, content) /\ Missing(s, content # stored)
    /\ Steady /\ UNCHANGED <<caching, inbox, since>>

\* ... or counts, ...
CountFigures(s) ==
    /\ sock[s] = "allowed" /\ cached = {}
    /\ At(s, "computed")
    /\ drawn' = [drawn EXCEPT ![s] = stored]
    /\ Missing(s, FALSE)
    /\ Steady /\ UNCHANGED <<cached, tallied, inbox, shown, since>>

\* ... leaves that in the cache and sends it.
SendFigures(s) ==
    /\ sock[s] = "computed"
    /\ At(s, "open")
    /\ cached' = {drawn[s]} /\ drawn' = [drawn EXCEPT ![s] = {}]
    /\ Shows(s, drawn[s])
    /\ Steady /\ UNCHANGED <<tallied, inbox, since, missed>>

\* AdminStatsView does the same for a dashboard.
CountForDashboard ==
    /\ room = "figures" /\ cached = {}
    /\ tallied' = tallied \cup {stored}
    /\ UNCHANGED <<room, cached, drawn, people, screens, made, stored, pub, missed, barred,
                   announced, disturbed>>

KeepForDashboard(content) ==
    /\ cached' = {content}
    /\ tallied' \in {tallied, tallied \ {content}}
    /\ UNCHANGED <<room, drawn, people, screens, made, stored, pub, missed, barred,
                   announced, disturbed>>

\* Nothing empties the cache but time.
ExpireFigures ==
    /\ cached # {} /\ cached' = {}
    /\ UNCHANGED <<room, tallied, drawn, people, screens, made, stored, pub, missed, barred,
                   announced, disturbed>>

Leave(s) ==
    /\ At(s, "none")
    /\ inbox' = [inbox EXCEPT ![s] = <<>>]
    /\ drawn' = [drawn EXCEPT ![s] = {}]
    /\ Shows(s, {}) /\ Missing(s, FALSE)
    /\ Steady /\ UNCHANGED <<cached, tallied, since>>

\* An announcement is handled: may the user still see it?
Handle(s) ==
    /\ sock[s] = "open" /\ inbox[s] # <<>>
    /\ IF AsksAgain /\ ~may[s] THEN Leave(s)
       ELSE /\ At(s, "handling")
            /\ Steady /\ UNCHANGED <<caching, inbox, shown, since, missed>>

SendAnnounced(s) ==
    /\ room # "figures" /\ sock[s] = "handling"
    /\ At(s, "open")
    /\ Shows(s, (IF room = "chat" THEN shown[s] ELSE {}) \cup {Head(inbox[s])})
    /\ Handled(s)
    /\ Steady /\ UNCHANGED <<caching, since, missed>>

Disconnect(s) == sock[s] # "none" /\ Leave(s)
-----------------------------------------------------------------------------
RealtimeNext ==
    \/ \E s \in Sockets :
          \/ SetAccess(s)
          \/ Connect(s) \/ Join(s) \/ Disconnect(s)
          \/ SendPosition(s)
          \/ AskForFigures(s) \/ SendCached(s) \/ CountFigures(s) \/ SendFigures(s)
          \/ Handle(s) \/ SendAnnounced(s)
    \/ \E stage \in {"none", "accepted", "underway"} : SetCourier(stage)
    \/ UpdateLocation \/ CancelOrder
    \/ CountForDashboard \/ (\E content \in tallied : KeepForDashboard(content)) \/ ExpireFigures
    \/ \E w \in Writers :
          \/ AskToPublish(w) \/ SavePosition(w)
          \/ ChangeOrder(w) \/ ReadOrder(w)
          \/ ChangeInTransaction(w) \/ SaveAlone(w)
          \/ \E b \in BOOLEAN : EndTransaction(w, b) \/ Broadcast(w, b)

RealtimeSpec == RealtimeInit /\ [][RealtimeNext]_realtimeVars
-----------------------------------------------------------------------------
(* Properties.                                                             *)

\* Nobody is sent what came about after they were barred from the room, but for a board,
\* which never asks again, and for what a socket reads itself between asking and sending.
SentWhileEntitled ==
    [][\A s \in Sockets :
          (shown'[s] \ shown[s]) \cap barred[s] # {} =>
             \/ room = "board"
             \/ sock[s] = "joined" /\ room = "tracking"
             \/ sock[s] \in {"allowed", "computed"}]_realtimeVars

\* When nothing is under way, a screen that misses nothing for a reason that is named shows
\* what is stored: the position and the order that were announced last, which is the
\* latest unless something disturbed it, the figures of all rows, and every message of a
\* case that was written since the socket joined.  The reasons: an announcement that the
\* channel layer lost or a full inbox dropped, no position yet to send, a user who may not
\* have figures; figures counted before the commit of what had been announced; and figures
\* that came from the cache and were older than a change which was committed by then, so
\* that whatever follows a change within fifteen seconds may stay unseen until the next.
ScreensFollow ==
    \A s \in Sockets :
        /\ sock[s] = "open" /\ inbox[s] = <<>> /\ ~missed[s]
        /\ \A w \in Writers : pub[w] = Resting
        => CASE room = "chat"    -> {v \in stored : v > since[s]} \subseteq shown[s]
             [] room = "figures" -> shown[s] = stored
             [] OTHER            ->
                   /\ disturbed \/ announced = Latest
                   /\ announced = Latest =>
                         \/ shown[s] = {announced}
                         \/ room = "board" /\ announced <= since[s] /\ shown[s] = {}
=============================================================================
