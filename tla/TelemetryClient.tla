--------------------------- MODULE TelemetryClient ---------------------------
(***************************************************************************)
(* The browser's telemetry client (shared/telemetry/client.ts): events     *)
(* wait in a module-level buffer until the batch is full, a timer fires or *)
(* the tab is hidden.  An event is told apart only by what the tab looked  *)
(* like when it was emitted; what it says is left out, and so is what      *)
(* happens to a batch after it is handed to the network: flushHttp catches *)
(* the error of its request, sendBeacon's result is not looked at.         *)
(***************************************************************************)
EXTENDS Naturals, Sequences

CONSTANT BATCH_MAX   \* 20 in the source; an instance may take fewer

ASSUME BatchAssumption == BATCH_MAX \in Nat \ {0}

VARIABLES
    buffer,      \* the waiting events, each "visible" or "hidden"
    flushTimer,  \* is a flush scheduled?
    tab,         \* document.visibilityState, or "closed"
    lost         \* the kinds of events that went with a document

clientVars == <<buffer, flushTimer, tab, lost>>

Seen == {"visible", "hidden"}

(* The buffer after k emits in a row: the emit that fills it sends all.    *)
AfterEmits(k) ==
    LET n == Len(buffer) + k
        first == IF n < BATCH_MAX THEN Len(buffer) ELSE 0
    IN  [i \in 1..(n % BATCH_MAX) |-> IF i <= first THEN buffer[i] ELSE tab]

ClientInit ==
    /\ buffer = <<>>
    /\ flushTimer = FALSE
    /\ tab = "visible"
    /\ lost = {}

(* k calls of emit by one handler.  A flush clears the timer, an event     *)
(* that stays in the buffer arms it.                                       *)
Emit(k) ==
    /\ tab # "closed"
    /\ buffer' = AfterEmits(k)
    /\ flushTimer' = (buffer' # <<>>)
    /\ UNCHANGED <<tab, lost>>

TimerFires ==
    /\ flushTimer
    /\ flushTimer' = FALSE
    /\ buffer' = <<>>
    /\ UNCHANGED <<tab, lost>>

(* Variant: the batch waits for the timer.                                 *)
HideOnly ==
    /\ tab = "visible"
    /\ tab' = "hidden"
    /\ UNCHANGED <<buffer, flushTimer, lost>>

(* visibilitychange to hidden: the batch goes by beacon.  The timer stays  *)
(* armed and will find nothing.                                            *)
onVisibility ==
    /\ tab = "visible"
    /\ tab' = "hidden"
    /\ buffer' = <<>>
    /\ UNCHANGED <<flushTimer, lost>>

ShowTab ==
    /\ tab = "hidden"
    /\ tab' = "visible"
    /\ UNCHANGED <<buffer, flushTimer, lost>>

(* The buffer when a document goes away: a visible one is hidden first,    *)
(* so its listener runs; a hidden one gets no further event.               *)
AtUnload == IF tab = "visible" THEN <<>> ELSE buffer

(* The document goes away, for good or for a new one in the same tab.      *)
Unload(next) ==
    /\ tab # "closed"
    /\ lost' = lost \cup {AtUnload[i] : i \in 1..Len(AtUnload)}
    /\ buffer' = <<>>
    /\ flushTimer' = FALSE
    /\ tab' = next

ClientNext ==
    \/ \E k \in Nat \ {0} : Emit(k)
    \/ TimerFires
    \/ onVisibility
    \/ ShowTab
    \/ \E next \in {"visible", "closed"} : Unload(next)

ClientSpec == ClientInit /\ [][ClientNext]_clientVars

(* Whatever waits has a flush on its way, and a batch never grows past its *)
(* size.                                                                   *)
WaitingIsScheduled ==
    /\ Len(buffer) < BATCH_MAX
    /\ buffer # <<>> => flushTimer

(* What the user did in front of the tab is never lost with it, because    *)
(* nothing of it waits once the tab is hidden.  Events of a tab that was   *)
(* already hidden may be.                                                  *)
SeenEventsLeave ==
    /\ "visible" \notin lost
    /\ tab # "visible" => \A i \in 1..Len(buffer) : buffer[i] # "visible"

(* The two hazards of the buffer together: nothing waits without a flush   *)
(* on its way, and nothing the user saw happen is lost.                    *)
TelemetryKept == WaitingIsScheduled /\ SeenEventsLeave
=============================================================================
