----------------------------- MODULE EventStream -----------------------------
(***************************************************************************)
(* The workspace events in the interface: start, stop, live events, gap    *)
(* recovery, refresh and command answers of src/client-sdk/BsaigcClient.ts *)
(* with BusinessWorkspaceProjection.ts.  JavaScript runs from one await to *)
(* the next undisturbed, which is one action here.  The host commits an    *)
(* event and emits it; emitted events may overtake one another and may be  *)
(* lost.  A list or a page is read by the host at one moment and reaches   *)
(* the client at a later one.                                              *)
(***************************************************************************)
EXTENDS Naturals, Sequences, FiniteSetsExt

CONSTANTS
    Workspaces,
    PageSize,       \* REPLAY_PAGE_SIZE
    Attempts,       \* BUSINESS_WORKSPACE_GAP_RECOVERY_ATTEMPTS
    MaxEvents,      \* bound: committed events
    MaxStarts,      \* bound: starts of the client
    MayLose         \* may an emitted event be lost?

ASSUME StreamAssumption ==
    /\ {PageSize, Attempts} \subseteq Nat \ {0}
    /\ {MaxEvents, MaxStarts} \subseteq Nat
    /\ MayLose \in BOOLEAN

VARIABLES
    log,        \* business_workspace_events: the workspace of each event
    wire,       \* events committed and not yet delivered
    lost,       \* events that never will be
    answers,    \* events of this client's commands not yet answered
    phase,      \* started, synchronizing and bufferingEvents in one
    buffer,     \* bufferedBusinessWorkspaceEvents
    cursor,     \* lastSequence of the projection
    pending,    \* pendingEvents of the projection: held back, not shown
    shown,      \* the revision shown of each workspace
    target,     \* businessWorkspaceGapTargetSequence
    gapError,   \* businessWorkspaceGapError: none, raised or dismissed
    read,       \* what start, recovery and refresh are reading
    attempt,    \* attempts the recovery has begun
    stale,      \* has the generation of the refresh's replay passed?
    starts

host == <<log, wire, lost, answers>>
projection == <<cursor, pending, shown>>
gap == <<target, gapError, attempt>>
vars == <<host, projection, gap, phase, buffer, read, stale, starts>>

F == INSTANCE EventFeed WITH seen <- cursor

Starting == {"subscribing", "loading", "replayed"}
Phases == {"stopped", "failed", "started"} \cup Starting

Listening == phase \in {"loading", "replayed", "started"}

Idle == [step |-> "none", after |-> 0, upTo |-> 0]
Listing == [Idle EXCEPT !.step = "listing"]
Paging(n) == [Idle EXCEPT !.step = "paging", !.after = n]

Init ==
    /\ log = <<>> /\ wire = {} /\ lost = {} /\ answers = {}
    /\ phase = "stopped"
    /\ buffer = {}
    /\ cursor = 0 /\ pending = {}
    /\ shown = [w \in Workspaces |-> 0]
    /\ target = 0 /\ gapError = "none" /\ attempt = 0
    /\ read = [r \in {"start", "recovery", "refresh"} |-> Idle]
    /\ stale = FALSE
    /\ starts = 0

-------------------------------------------------------------------------------
(* The projection.                                                         *)

(* The cursor after a set of events has been applied: it moves as far as   *)
(* the events at hand are contiguous.                                      *)
Reach(events) ==
    Max({n \in cursor..Len(log) : (cursor + 1)..n \subseteq pending \cup events})

(* Mutant: events are shown as they come, older records over newer ones.   *)
ApplyUncompared(events) ==
    /\ cursor' = Reach(events)
    /\ pending' = {s \in pending \cup events : s > Reach(events)}
    /\ shown' = [w \in Workspaces |->
                   IF w \in {log[s] : s \in (cursor + 1)..Reach(events)}
                   THEN F!RevisionAt(Reach(events), w) ELSE shown[w]]

ApplyEvents(events) ==
    /\ cursor' = Reach(events)
    /\ pending' = {s \in pending \cup events : s > Reach(events)}
    /\ shown' = F!Refreshed(Reach(events), {log[s] : s \in (cursor + 1)..Reach(events)})

Hydrate(n, ws) ==
    /\ shown' = F!Refreshed(n, ws)
    /\ UNCHANGED <<cursor, pending>>

(* recoverBusinessWorkspaceEventGap with the cursor at c and target t.     *)
RecoverGap(s, c, t) ==
    /\ target' = F!Later(t, s)
    /\ IF phase' = "started" /\ read.recovery.step = "none"
       THEN /\ read' = [read EXCEPT !.recovery = Paging(c)]
            /\ attempt' = 1
       ELSE UNCHANGED <<read, attempt>>

-------------------------------------------------------------------------------
(* The host and the channel between host and client.                       *)

(* A command of this client or of anybody else commits one event.          *)
Commit(w, own) ==
    /\ Len(log) < MaxEvents
    /\ log' = Append(log, w)
    /\ wire' = wire \cup {Len(log) + 1}
    /\ answers' = IF own THEN answers \cup {Len(log) + 1} ELSE answers
    /\ UNCHANGED <<lost, projection, gap, phase, buffer, read, stale, starts>>

Lose(s) ==
    /\ MayLose
    /\ wire' = wire \ {s}
    /\ lost' = lost \cup {s}
    /\ UNCHANGED <<log, answers, projection, gap, phase, buffer, read, stale, starts>>

(* The last event of the page after the given one.                         *)
PageEnd(after) == Min({Len(log), after + PageSize})

(* The host reads a list or a page that was asked for.                     *)
HostReads(r) ==
    /\ \/ /\ read[r].step = "listing"
          /\ read' = [read EXCEPT ![r].step = "listed", ![r].upTo = Len(log)]
       \/ /\ read[r].step = "paging"
          /\ read' = [read EXCEPT ![r].step = "paged",
                                  ![r].upTo = PageEnd(read[r].after)]
    /\ UNCHANGED <<host, projection, gap, phase, buffer, stale, starts>>

-------------------------------------------------------------------------------
(* Events and answers.                                                     *)

Unheard(s) ==
    /\ ~Listening
    /\ wire' = wire \ {s}
    /\ UNCHANGED <<log, lost, answers, projection, gap, phase, buffer, read, stale, starts>>

(* Mutant: events that come during a start are dropped.                    *)
BufferedNowhere(s) ==
    /\ phase \in {"loading", "replayed"}
    /\ wire' = wire \ {s}
    /\ UNCHANGED <<log, lost, answers, projection, gap, phase, buffer, read, stale, starts>>

Buffered(s) ==
    /\ phase \in {"loading", "replayed"}
    /\ buffer' = buffer \cup {s}
    /\ wire' = wire \ {s}
    /\ UNCHANGED <<log, lost, answers, projection, gap, phase, read, stale, starts>>

(* A live event: it is applied, an error it makes obsolete is withdrawn,   *)
(* and if events before it are missing they are fetched.                   *)
LiveEvent(s) ==
    LET settled == target > 0 /\ Reach({s}) >= target
        left == IF settled THEN 0 ELSE target
    IN /\ phase = "started"
       /\ wire' = wire \ {s}
       /\ ApplyEvents({s})
       /\ gapError' = IF settled THEN "none" ELSE gapError
       /\ UNCHANGED phase
       /\ IF s > cursor + 1
          THEN RecoverGap(s, cursor', left)
          ELSE target' = left /\ UNCHANGED <<read, attempt>>
       /\ UNCHANGED <<log, lost, answers, buffer, stale, starts>>

(* executeBusinessWorkspace goes on with the answer of its command, in     *)
(* whatever phase the client is by then.                                   *)
Answered(s) ==
    /\ s \in answers
    /\ answers' = answers \ {s}
    /\ Hydrate(s, {log[s]})
    /\ UNCHANGED phase
    /\ IF s > cursor
       THEN RecoverGap(s, cursor, target)
       ELSE UNCHANGED <<target, read, attempt>>
    /\ UNCHANGED <<log, wire, lost, gapError, buffer, stale, starts>>

(* clearError: the error is gone from the screen, its target remains.      *)
ClearError ==
    /\ gapError = "raised"
    /\ gapError' = "dismissed"
    /\ UNCHANGED <<host, projection, target, attempt, phase, buffer, read, stale, starts>>

-------------------------------------------------------------------------------
(* Start and stop.                                                         *)

(* Both give the running operations' generation up: what is left of a      *)
(* start or a recovery does nothing any more, a refresh replays no further.*)
NewGeneration ==
    /\ read' = [read EXCEPT !.start = Idle, !.recovery = Idle]
    /\ stale' = (stale \/ read.refresh.step \in {"paging", "paged"})
    /\ buffer' = {}
    /\ target' = 0 /\ gapError' = "none" /\ attempt' = 0

Start ==
    /\ phase \in {"stopped", "failed"}
    /\ starts < MaxStarts
    /\ starts' = starts + 1
    /\ phase' = "subscribing"
    /\ NewGeneration
    /\ UNCHANGED <<host, projection>>

Stop ==
    /\ phase' = "stopped"
    /\ NewGeneration
    /\ cursor' = 0 /\ pending' = {}
    /\ shown' = [w \in Workspaces |-> 0]
    /\ UNCHANGED <<host, starts>>

(* Mutant: the pages are asked for before the listener is registered.      *)
ReplayUnsubscribed ==
    /\ phase = "subscribing" /\ read.start.step = "none"
    /\ read' = [read EXCEPT !.start = Paging(0)]
    /\ UNCHANGED <<host, projection, gap, phase, buffer, stale, starts>>

(* The listener is registered before anything is read.                     *)
Subscribe ==
    /\ phase = "subscribing"
    /\ phase' = "loading"
    /\ read' = [read EXCEPT !.start = Listing]
    /\ UNCHANGED <<host, projection, gap, buffer, stale, starts>>

(* Any of the calls of a start fails, also those of the other streams.     *)
StartFails ==
    /\ phase \in Starting
    /\ phase' = "failed"
    /\ buffer' = {}
    /\ read' = [read EXCEPT !.start = Idle]
    /\ UNCHANGED <<host, projection, gap, stale, starts>>

(* All streams are replayed: the buffered events are applied.              *)
Started ==
    /\ phase = "replayed"
    /\ phase' = "started"
    /\ ApplyEvents(buffer)
    /\ buffer' = {}
    /\ IF buffer # {} /\ Max(buffer) > cursor'
       THEN RecoverGap(Max(buffer), cursor', target)
       ELSE UNCHANGED <<target, read, attempt>>
    /\ UNCHANGED <<host, gapError, stale, starts>>

-------------------------------------------------------------------------------
(* Lists and pages that arrive (replayBusinessWorkspacePages).             *)

FullPage(r) == read[r].upTo = read[r].after + PageSize

ListArrives(r) ==
    /\ read[r].step = "listed"
    /\ Hydrate(read[r].upTo, Workspaces)
    /\ read' = [read EXCEPT ![r] = Paging(IF r = "start" THEN 0 ELSE cursor)]
    /\ stale' = (stale /\ r # "refresh")
    /\ UNCHANGED <<host, gap, phase, buffer, starts>>

PageArrives(r) ==
    /\ read[r].step = "paged"
    /\ ~(r = "refresh" /\ stale)
    /\ ApplyEvents((read[r].after + 1)..read[r].upTo)

NextPage(r) ==
    /\ PageArrives(r)
    /\ FullPage(r)
    /\ read' = [read EXCEPT ![r] = Paging(read[r].upTo)]
    /\ UNCHANGED <<host, gap, phase, buffer, stale, starts>>

LastPageOfStart ==
    /\ PageArrives("start")
    /\ ~FullPage("start")
    /\ phase' = "replayed"
    /\ read' = [read EXCEPT !.start = Idle]
    /\ UNCHANGED <<host, gap, buffer, stale, starts>>

(* Mutant: whatever a refresh has read, it ends the gap.                   *)
SettleUncompared(c) == target' = 0 /\ gapError' = "none"

(* settleBusinessWorkspaceGapIfCaughtUp with the cursor at c.              *)
Settle(c) ==
    /\ target' = IF c >= target THEN 0 ELSE target
    /\ gapError' = IF c < target THEN gapError ELSE "none"

(* An attempt of the recovery is over: it has caught up, tries again, or   *)
(* gives up with an error and keeps its target.                            *)
AttemptEnds(c) ==
    \/ /\ c >= target
       /\ Settle(c)
       /\ read' = [read EXCEPT !.recovery = Idle]
       /\ attempt' = 0
    \/ /\ c < target /\ attempt < Attempts
       /\ read' = [read EXCEPT !.recovery = Paging(c)]
       /\ attempt' = attempt + 1
       /\ UNCHANGED <<target, gapError>>
    \/ /\ c < target /\ attempt = Attempts
       /\ gapError' = "raised"
       /\ read' = [read EXCEPT !.recovery = Idle]
       /\ attempt' = 0
       /\ UNCHANGED target

LastPageOfRecovery ==
    /\ PageArrives("recovery")
    /\ ~FullPage("recovery")
    /\ AttemptEnds(cursor')
    /\ UNCHANGED <<host, phase, buffer, stale, starts>>

RecoveryReadFails ==
    /\ read.recovery.step = "paging"
    /\ AttemptEnds(cursor)
    /\ UNCHANGED <<host, projection, phase, buffer, stale, starts>>

-------------------------------------------------------------------------------
(* refreshBusinessWorkspaces, which the user may ask for at any time.      *)

Refresh ==
    /\ read.refresh.step = "none"
    /\ read' = [read EXCEPT !.refresh = Listing]
    /\ UNCHANGED <<host, projection, gap, phase, buffer, stale, starts>>

LastPageOfRefresh ==
    /\ \/ PageArrives("refresh") /\ ~FullPage("refresh")
       \/ read.refresh.step = "paged" /\ stale /\ UNCHANGED projection
    /\ Settle(cursor')
    /\ read' = [read EXCEPT !.refresh = Idle]
    /\ stale' = FALSE
    /\ UNCHANGED <<host, attempt, phase, buffer, starts>>

RefreshFails ==
    /\ read.refresh.step \in {"listing", "paging"}
    /\ read' = [read EXCEPT !.refresh = Idle]
    /\ stale' = FALSE
    /\ UNCHANGED <<host, projection, gap, phase, buffer, starts>>

-------------------------------------------------------------------------------
Deliver(s) == Unheard(s) \/ Buffered(s) \/ LiveEvent(s)

(* What answers and goes on by itself.                                     *)
Replays ==
    \/ \E r \in DOMAIN read : HostReads(r) \/ ListArrives(r) \/ NextPage(r)
    \/ LastPageOfStart \/ LastPageOfRecovery \/ LastPageOfRefresh

Next ==
    \/ \E w \in Workspaces, own \in BOOLEAN : Commit(w, own)
    \/ \E s \in wire : Lose(s) \/ Deliver(s)
    \/ \E s \in answers : Answered(s)
    \/ Start \/ Stop \/ Subscribe \/ StartFails \/ Started
    \/ Replays
    \/ RecoveryReadFails
    \/ Refresh \/ RefreshFails
    \/ ClearError

Spec == Init /\ [][Next]_vars

(* Every call is answered or fails in time, an emitted event is delivered  *)
(* or lost.  The user and the host's commands are under no obligation.     *)
FairSpec ==
    /\ Spec
    /\ WF_vars(Subscribe) /\ WF_vars(Started)
    /\ \A r \in {"start", "recovery", "refresh"} :
         WF_vars(\/ HostReads(r) \/ ListArrives(r) \/ NextPage(r)
                 \/ r = "recovery" /\ RecoveryReadFails)
    /\ WF_vars(LastPageOfStart) /\ WF_vars(LastPageOfRecovery) /\ WF_vars(LastPageOfRefresh)
    /\ \A s \in 1..MaxEvents : WF_vars(s \in wire /\ (Deliver(s) \/ Lose(s)))

-------------------------------------------------------------------------------
(* Once the client has started, every committed event is applied, held     *)
(* back, on its way or lost: none falls between the list, the pages, the   *)
(* buffer and the live events, in whatever order they come in.             *)
NothingMissed ==
    phase = "started" => 1..Len(log) \subseteq 1..cursor \cup pending \cup wire \cup lost

(* Events are held back, nobody fetches what is missing and no error shows.*)
Silenced ==
    /\ phase = "started" /\ pending # {}
    /\ read.recovery.step = "none" /\ gapError # "raised"

(* Only the user, who dismisses the error, silences a gap: no failed read, *)
(* no refresh, answer, restart or overtaken target does, and a gap that    *)
(* widens after a dismissal is fetched or reported anew.                   *)
SilencedOnlyByUser == [][Silenced' => Silenced \/ ClearError]_vars

(* What the comment in clearError says: after a dismissal recovery goes on *)
(* in the background, and the error is raised again if the gap persists.   *)
DismissedGapComesBack == Silenced ~> ~Silenced

(* The client follows the log in order and without omission, and shows no  *)
(* record older than what it has followed or shown.                        *)
ImplementsFeed == F!Spec

(* If nothing is lost, a client that stays started ends up with the whole  *)
(* log, whatever was committed while it was starting.                      *)
AllArrive == <>[](phase = "started" /\ lost = {}) => <>[](cursor = Len(log))
==============================================================================
