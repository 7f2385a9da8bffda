------------------------------ MODULE Notices ------------------------------
(***************************************************************************)
(* What goes out about an order: the notices of its placement              *)
(* (notifications/signals.py, sent before the checkout commits), the       *)
(* notice that tells a store to prepare a scheduled order                  *)
(* (notifications/scheduled_tasks.py, release_due_scheduled_orders) and    *)
(* the customer's receipt, which requests make under the order's lock      *)
(* (invoices/actions/invoice_actions.py) and a job queued by the placement *)
(* makes without it (notifications/tasks.py).                              *)
(*                                                                         *)
(* The release job looks for its own notice before it writes one, in two   *)
(* statements without a transaction; runs of it may overlap, die between   *)
(* two orders, and start over.                                             *)
(***************************************************************************)
EXTENDS Integers, FiniteSets

CONSTANTS
    Bookings,    \* orders of one store
    Windows,     \* ticks at which a scheduled order may enter the store's buffer
    MaxClock,    \* bound on the clock
    Workers,     \* processes that may run the release job
    MaxDeaths,   \* bound on workers that die in a run
    MaxErasures, \* bound on notices the back office deletes
    Printers,    \* requests for a receipt
    NoBooking

ASSUME NoticesAssumption ==
    /\ Windows \subseteq Nat \ {0}
    /\ MaxClock \in Nat \ {0}
    /\ MaxDeaths \in Nat
    /\ MaxErasures \in Nat
    /\ NoBooking \notin Bookings
    /\ IsFiniteSet(Workers)

VARIABLES
    booking,   \* status of an order
    window,    \* when it enters the buffer: scheduled_for less the buffer; 0: at once
    told,      \* orders with the store's notice "New Order Received"
    clock,
    run,       \* the orders a run of the release job has left, and the one it found untold
    releases,  \* release notices ever written about an order
    kept,      \* those still there
    most,      \* most runs that were under way at the same time
    deaths,
    job,       \* the receipt job of an order
    receipts,  \* its customer_receipt rows
    printing,  \* requests that have locked the order, found no receipt and render one
    crossed    \* orders whose job and a request both looked before either had written

releaseVars == <<clock, run, releases, kept, most, deaths>>
receiptVars == <<job, receipts, printing, crossed>>
noticeVars  == <<booking, window, told, releaseVars, receiptVars>>
-----------------------------------------------------------------------------
\* "announced": the checkout has not committed; "preparing": that or later; "gone": the
\* checkout was rolled back.
BookingStatuses == {"none", "announced", "placed", "confirmed", "preparing", "cancelled", "gone"}

JobStates == {"none", "queued", "creating", "rendering", "mailed", "failed"}

Idle == [due |-> {}, found |-> NoBooking]

NoticesTypeOK ==
    /\ booking \in [Bookings -> BookingStatuses]
    /\ window \in [Bookings -> Windows \cup {0}]
    /\ told \subseteq Bookings
    /\ clock \in 1..MaxClock
    /\ run \in [Workers -> [due : SUBSET Bookings, found : Bookings \cup {NoBooking}]]
    /\ releases \in [Bookings -> Nat]
    /\ kept \in [Bookings -> Nat]
    /\ most \in 0..Cardinality(Workers)
    /\ deaths \in 0..MaxDeaths
    /\ job \in [Bookings -> JobStates]
    /\ receipts \in [Bookings -> Nat]
    /\ printing \subseteq Bookings \X Printers
    /\ crossed \subseteq Bookings

NoticesInit ==
    /\ booking = [o \in Bookings |-> "none"]
    /\ window = [o \in Bookings |-> 0]
    /\ told = {}
    /\ clock = 1
    /\ run = [w \in Workers |-> Idle]
    /\ releases = [o \in Bookings |-> 0]
    /\ kept = [o \in Bookings |-> 0]
    /\ most = 0
    /\ deaths = 0
    /\ job = [o \in Bookings |-> "none"]
    /\ receipts = [o \in Bookings |-> 0]
    /\ printing = {}
    /\ crossed = {}

Committed(o) == booking[o] \in {"placed", "confirmed", "preparing", "cancelled"}
-----------------------------------------------------------------------------
(* Placement.  order_placed is sent inside the checkout's transaction: the *)
(* pushes, the e-mail and the queued job are out before it commits, and    *)
(* stay out when it rolls back.                                            *)

\* notify_order_placed: the store is told now of what it has to prepare now.
TellsStore(w) == w <= clock

AnnounceBooking(o, w) ==
    /\ booking[o] = "none"
    /\ booking' = [booking EXCEPT ![o] = "announced"]
    /\ window' = [window EXCEPT ![o] = w]
    /\ told' = IF TellsStore(w) THEN told \cup {o} ELSE told
    /\ job' = [job EXCEPT ![o] = "queued"]
    /\ UNCHANGED <<releaseVars, receipts, printing, crossed>>

CommitBooking(o) ==
    /\ booking[o] = "announced"
    /\ booking' = [booking EXCEPT ![o] = "placed"]
    /\ UNCHANGED <<window, told, releaseVars, receiptVars>>

\* The paid amount does not match, or a later receiver fails: the rows go, the job and
\* what was pushed stay.
RollBackBooking(o) ==
    /\ booking[o] = "announced"
    /\ booking' = [booking EXCEPT ![o] = "gone"]
    /\ told' = told \ {o}
    /\ UNCHANGED <<window, releaseVars, receiptVars>>

\* The store moves an order on; what the code asks is its status, not its window.
MoveOn(o, s) ==
    /\ <<booking[o], s>> \in {<<"placed", "confirmed">>, <<"confirmed", "preparing">>}
    /\ booking' = [booking EXCEPT ![o] = s]
    /\ UNCHANGED <<window, told, releaseVars, receiptVars>>

CancelBooking(o) ==
    /\ booking[o] \in {"placed", "confirmed", "preparing"}
    /\ booking' = [booking EXCEPT ![o] = "cancelled"]
    /\ UNCHANGED <<window, told, releaseVars, receiptVars>>
-----------------------------------------------------------------------------
(* The release job.                                                        *)

Tick ==
    /\ clock < MaxClock
    /\ clock' = clock + 1
    /\ UNCHANGED <<booking, window, told, run, releases, kept, most, deaths, receiptVars>>

Waiting(o) == booking[o] \in {"placed", "confirmed"}

\* Mutant of Due: only what enters its buffer at this tick.
DueThisTick(o) == Waiting(o) /\ window[o] = clock

Due(o) == Waiting(o) /\ window[o] > 0 /\ window[o] <= clock

Busy(w) == run[w] # Idle

\* A run reads the orders, and the time, once.
StartRun(w) ==
    LET due == {o \in Bookings : Due(o)}
        busy == Cardinality({v \in Workers : Busy(v)}) + 1
    IN  /\ ~Busy(w)
        /\ due # {}
        /\ run' = [run EXCEPT ![w].due = due]
        /\ most' = IF busy > most THEN busy ELSE most
        /\ UNCHANGED <<booking, window, told, clock, releases, kept, deaths, receiptVars>>

\* Mutant of LookForNotice: a run trusts the status it read.
DoNotLook(w, o) ==
    /\ o \in run[w].due /\ run[w].found = NoBooking
    /\ run' = [run EXCEPT ![w] = [due |-> run[w].due \ {o}, found |-> o]]
    /\ UNCHANGED <<booking, window, told, clock, releases, kept, most, deaths, receiptVars>>

\* It looks for the notice of one of them ...
LookForNotice(w, o) ==
    /\ o \in run[w].due /\ run[w].found = NoBooking
    /\ run' = [run EXCEPT ![w] = [due   |-> run[w].due \ {o},
                                  found |-> IF kept[o] > 0 THEN NoBooking ELSE o]]
    /\ UNCHANGED <<booking, window, told, clock, releases, kept, most, deaths, receiptVars>>

\* ... and writes it where there was none, whatever the order has become.
WriteNotice(w) ==
    LET o == run[w].found
    IN  /\ o # NoBooking
        /\ run' = [run EXCEPT ![w].found = NoBooking]
        /\ releases' = [releases EXCEPT ![o] = @ + 1]
        /\ kept' = [kept EXCEPT ![o] = @ + 1]
        /\ UNCHANGED <<booking, window, told, clock, most, deaths, receiptVars>>

\* The worker dies: the notices it wrote stay, and the next run starts over.
WorkerDies(w) ==
    /\ Busy(w) /\ deaths < MaxDeaths
    /\ run' = [run EXCEPT ![w] = Idle]
    /\ deaths' = deaths + 1
    /\ UNCHANGED <<booking, window, told, clock, releases, kept, most, receiptVars>>

Erased(o) == releases[o] - kept[o]

\* DeleteAdminNotificationAction
EraseNotice(o) ==
    /\ kept[o] > 0 /\ Erased(o) < MaxErasures
    /\ kept' = [kept EXCEPT ![o] = @ - 1]
    /\ UNCHANGED <<booking, window, told, clock, run, releases, most, deaths, receiptVars>>

RunStep(w) == (\E o \in Bookings : LookForNotice(w, o)) \/ WriteNotice(w)
-----------------------------------------------------------------------------
(* Receipts.                                                               *)

\* The job does not find the order before its checkout commits, and fails for good;
\* else it looks for a receipt ...
JobLooks(o) ==
    /\ job[o] = "queued"
    /\ job' = [job EXCEPT ![o] = CASE ~Committed(o)    -> "failed"
                                   [] receipts[o] = 0  -> "creating"
                                   [] OTHER            -> "rendering"]
    /\ crossed' = IF job'[o] = "creating" /\ \E p \in Printers : <<o, p>> \in printing
                  THEN crossed \cup {o} ELSE crossed
    /\ UNCHANGED <<booking, window, told, releaseVars, receipts, printing>>

\* ... and get_or_create writes one where it found none.
JobCreates(o) ==
    /\ job[o] = "creating"
    /\ job' = [job EXCEPT ![o] = "rendering"]
    /\ receipts' = [receipts EXCEPT ![o] = @ + 1]
    /\ UNCHANGED <<booking, window, told, releaseVars, printing, crossed>>

JobEnds(o, s) ==
    /\ \/ job[o] \in {"creating", "rendering"} /\ s = "failed"
       \/ job[o] = "rendering" /\ s = "mailed"
    /\ job' = [job EXCEPT ![o] = s]
    /\ UNCHANGED <<booking, window, told, releaseVars, receipts, printing, crossed>>

\* GenerateInvoiceAction locks the order, so one request at a time looks and renders;
\* one that finds a receipt hands it out.
PrintReceipt(o, p) ==
    /\ Committed(o)
    /\ receipts[o] = 0
    /\ \A q \in Printers : <<o, q>> \notin printing
    /\ printing' = printing \cup {<<o, p>>}
    /\ crossed' = IF job[o] = "creating" THEN crossed \cup {o} ELSE crossed
    /\ UNCHANGED <<booking, window, told, releaseVars, job, receipts>>

\* The row is committed with its PDF, or deleted when rendering fails.
ReceiptPrinted(o, p, rendered) ==
    /\ <<o, p>> \in printing
    /\ printing' = printing \ {<<o, p>>}
    /\ receipts' = IF rendered THEN [receipts EXCEPT ![o] = @ + 1] ELSE receipts
    /\ UNCHANGED <<booking, window, told, releaseVars, job, crossed>>
-----------------------------------------------------------------------------
PlacementNext ==
    \E o \in Bookings :
        \/ \E w \in Windows \cup {0} : AnnounceBooking(o, w)
        \/ CommitBooking(o)
        \/ RollBackBooking(o)
        \/ \E s \in BookingStatuses : MoveOn(o, s)
        \/ CancelBooking(o)

ReleaseNext ==
    \/ Tick
    \/ \E w \in Workers : StartRun(w) \/ RunStep(w) \/ WorkerDies(w)
    \/ \E o \in Bookings : EraseNotice(o)

ReceiptNext ==
    \E o \in Bookings :
        \/ JobLooks(o)
        \/ JobCreates(o)
        \/ \E s \in {"failed", "mailed"} : JobEnds(o, s)
        \/ \E p \in Printers : \/ PrintReceipt(o, p)
                               \/ \E rendered \in BOOLEAN : ReceiptPrinted(o, p, rendered)

NoticesNext == PlacementNext \/ ReleaseNext \/ ReceiptNext

NoticesSafe == NoticesInit /\ [][NoticesNext]_noticeVars

\* The scheduler starts the job again and again, and a run that does not die goes on.
NoticesSpec ==
    /\ NoticesSafe
    /\ \A w \in Workers : WF_noticeVars(StartRun(w)) /\ WF_noticeVars(RunStep(w))
-----------------------------------------------------------------------------
(* Properties.                                                             *)

\* However often the release job runs, dies and starts over, a store is told to prepare
\* an order at most as often as runs were ever under way together, once more as often
\* for each notice the back office deletes, and never before its window.
ReleasesBounded == \A o \in Bookings :
    /\ releases[o] <= most * (1 + Erased(o))
    /\ releases[o] > 0 => window[o] \in 1..clock

\* An order has one receipt, unless its job and a request looked for it at the same
\* time; then it has two at most.
ReceiptsBounded == \A o \in Bookings :
    receipts[o] <= IF o \in crossed THEN 2 ELSE 1

\* Nobody is told the same thing twice, but for runs or requests that overlap.
ToldOnce == ReleasesBounded /\ ReceiptsBounded

\* A store hears of every order that is due and that it can still accept or prepare, at
\* its placement or by a release.
StoreHears ==
    \A o \in Bookings :
        (Waiting(o) /\ window[o] <= clock) ~> (o \in told \/ releases[o] > 0 \/ ~Waiting(o))
=============================================================================
