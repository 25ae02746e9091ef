-------------------------- MODULE EventStreamProofs --------------------------
(***************************************************************************)
(* The workspace events of the client, for any number of workspaces,       *)
(* events, starts and recovery attempts, any page size, and with or        *)
(* without loss: the client follows the log as EventFeed promises, a       *)
(* started client has missed nothing, and what it holds back is pursued    *)
(* until the user dismisses the error.                                     *)
(***************************************************************************)
EXTENDS EventStream, FiniteSetTheorems, TLAPS

Reads == {"start", "recovery", "refresh"}

Reading == [step : {"none", "listing", "listed", "paging", "paged"},
            after : Nat, upTo : Nat]

TypeOK ==
    /\ log \in Seq(Workspaces)
    /\ {wire, lost, answers, buffer, pending} \subseteq SUBSET (1..Len(log))
    /\ phase \in Phases
    /\ cursor \in 0..Len(log)
    /\ shown \in [Workspaces -> Nat]
    /\ target \in Nat /\ gapError \in {"none", "raised", "dismissed"} /\ attempt \in Nat
    /\ read \in [Reads -> Reading]
    /\ stale \in BOOLEAN
    /\ starts \in Nat

(* What the host has read was in the log, and a page is no longer than the *)
(* page size allows.                                                       *)
ReadInLog ==
    \A r \in Reads :
        /\ read[r].after <= Len(log) /\ read[r].upTo <= Len(log)
        /\ read[r].step = "paged" => read[r].after <= read[r].upTo

(* The client does not show less than what it has followed.                *)
ShownUpToDate == \A w \in Workspaces : shown[w] >= F!RevisionAt(cursor, w)

Applied == 1..cursor \cup pending

(* A start reads only while it is loading, and what it has read is         *)
(* applied; behind its last page everything is on its way.                 *)
StartCovers ==
    /\ phase # "loading" => read["start"].step = "none"
    /\ read["start"].step \in {"paging", "paged"} => 1..read["start"].after \subseteq Applied
    /\ read["start"].step = "paged" /\ ~FullPage("start") =>
         (read["start"].upTo + 1)..Len(log) \subseteq wire \cup lost \cup buffer
    /\ phase = "replayed" => 1..Len(log) \subseteq Applied \cup wire \cup lost \cup buffer

(* Pages follow on what has been applied, those of an abandoned refresh    *)
(* excepted; so only a started client holds events back.                   *)
Current(r) == read[r].step \in {"paging", "paged"} /\ ~(r = "refresh" /\ stale)

PagesFollowOn == \A r \in Reads : Current(r) => read[r].after <= cursor

HeldBack ==
    /\ \A s \in pending : s > cursor
    /\ phase # "started" => pending = {} /\ read["recovery"].step = "none"
    /\ \A s \in pending : s <= target

(* A started client that holds events back is recovering what is missing,  *)
(* or has raised an error that nothing but the user has taken away.        *)
HeldBackIsPursued ==
    phase = "started" /\ pending # {} =>
        read["recovery"].step # "none" \/ gapError # "none"

IInv ==
    /\ TypeOK /\ ReadInLog /\ ShownUpToDate
    /\ StartCovers /\ NothingMissed
    /\ PagesFollowOn /\ HeldBack /\ HeldBackIsPursued

-------------------------------------------------------------------------------
(***************************************************************************)
(* Largest elements.                                                       *)
(***************************************************************************)
LEMMA LessThanWF ==
  \E R : IsWellFoundedOn(R, Nat) /\ \A x, y \in Nat : x < y => <<x, y>> \in R
<1> DEFINE R == OpToRel(<, Nat)
<1>1. IsWellFoundedOn(R, Nat)
  BY NatLessThanWellFounded
<1>2. \A x, y \in Nat : x < y => <<x, y>> \in R
  BY DEF OpToRel
<1>3. QED
  BY <1>1, <1>2, Zenon

LEMMA LeastExists ==
  ASSUME NEW S \in SUBSET Nat, S # {}
  PROVE  \E x \in S : \A y \in S : x <= y
<1>1. PICK R : IsWellFoundedOn(R, Nat) /\ \A x, y \in Nat : x < y => <<x, y>> \in R
  BY LessThanWF
<1>2. \E x \in S : \A y \in S : ~(<<y, x>> \in R)
  <2>1. IsWellFoundedOn(R, Nat)
    BY <1>1
  <2>2. QED
    BY <2>1, WFMin
<1>3. \A x, y \in S : ~(<<y, x>> \in R) => ~(y < x)
  BY <1>1, Zenon
<1>4. \A x, y \in S : ~(y < x) => x <= y
  OBVIOUS
<1>5. QED
  BY <1>2, <1>3, <1>4, Zenon

(* A set of numbers with a bound has a largest element.                    *)
LEMMA MaxOfBounded ==
  ASSUME NEW S \in SUBSET Nat, S # {}, NEW n \in Nat, \A x \in S : x <= n
  PROVE  Max(S) \in S /\ \A x \in S : x <= Max(S)
<1> DEFINE T == {n - x : x \in S}
<1>1. T \in SUBSET Nat /\ T # {}
  <2>1. \A x \in S : n - x \in Nat
    OBVIOUS
  <2>2. QED
    BY <2>1, Zenon
<1>2. PICK y \in T : \A z \in T : y <= z
  BY <1>1, LeastExists
<1>3. PICK x \in S : y = n - x
  OBVIOUS
<1>4. \A z \in S : x >= z
  BY <1>2, <1>3
<1>5. Max(S) \in S /\ \A z \in S : Max(S) >= z
  BY <1>4 DEF Max
<1>6. QED
  BY <1>5

(* The events of a page.                                                   *)
LEMMA PageEndIs ==
  ASSUME TypeOK, NEW after \in Nat
  PROVE  /\ PageEnd(after) \in Nat /\ PageEnd(after) <= Len(log)
         /\ after <= Len(log) => after <= PageEnd(after)
         /\ PageEnd(after) = Len(log) \/ PageEnd(after) = after + PageSize
<1>1. PageSize \in Nat /\ Len(log) \in Nat
  BY StreamAssumption DEF TypeOK
<1>2. \A a, b \in Nat : Min({a, b}) = IF a <= b THEN a ELSE b
  BY DEF Min
<1>3. PageEnd(after) = IF Len(log) <= after + PageSize THEN Len(log) ELSE after + PageSize
  BY <1>1, <1>2 DEF PageEnd
<1>4. QED
  BY <1>1, <1>3

-------------------------------------------------------------------------------
(***************************************************************************)
(* What applying events does to the projection.                            *)
(***************************************************************************)
LEMMA ReachIs ==
  ASSUME TypeOK, NEW events
  PROVE  /\ Reach(events) \in cursor..Len(log)
         /\ (cursor + 1)..Reach(events) \subseteq pending \cup events
         /\ \A n \in cursor..Len(log) :
               (cursor + 1)..n \subseteq pending \cup events => n <= Reach(events)
<1> DEFINE S == {n \in cursor..Len(log) : (cursor + 1)..n \subseteq pending \cup events}
<1>1. Len(log) \in Nat /\ cursor \in 0..Len(log)
  BY DEF TypeOK
<1>2. S \in SUBSET Nat /\ \A n \in S : n <= Len(log)
  BY <1>1
<1>3. cursor \in S
  BY <1>1
<1>4. Max(S) \in S /\ \A n \in S : n <= Max(S)
  BY <1>1, <1>2, <1>3, MaxOfBounded
<1>5. Reach(events) = Max(S)
  BY DEF Reach
<1>6. QED
  BY <1>4, <1>5

LEMMA RevisionTyped ==
  ASSUME TypeOK, NEW n \in 0..Len(log), NEW w
  PROVE  /\ F!RevisionAt(n, w) \in Nat
         /\ n = 0 => F!RevisionAt(n, w) = 0
         /\ \A m \in 0..n : (\A i \in (m + 1)..n : log[i] # w)
                               => F!RevisionAt(n, w) = F!RevisionAt(m, w)
<1> DEFINE S(m) == {i \in 1..m : log[i] = w}
<1>1. n \in Int
  BY DEF TypeOK
<1>2. IsFiniteSet(1..n) /\ S(n) \in SUBSET (1..n)
  BY <1>1, FS_Interval
<1>3. IsFiniteSet(S(n))
  BY <1>2, FS_Subset
<1>4. Cardinality(S(n)) \in Nat
  BY <1>3, FS_CardinalityType
<1>5. \A m \in 0..n : (\A i \in (m + 1)..n : log[i] # w) => S(n) = S(m)
  BY <1>1
<1>6. n = 0 => Cardinality(S(n)) = 0
  <2>1. \A i \in 1..0 : FALSE
    OBVIOUS
  <2>2. S(0) = {}
    BY <2>1, Zenon
  <2>3. QED
    BY <2>2, FS_EmptySet
<1>7. \A m : F!RevisionAt(m, w) = Cardinality(S(m))
  BY Zenon DEF F!RevisionAt, F!Cardinality, Cardinality
<1> HIDE DEF S
<1>8. QED
  BY <1>4, <1>5, <1>6, <1>7, Zenon

LEMMA RefreshedTyped ==
  ASSUME TypeOK, NEW n \in 0..Len(log), NEW ws
  PROVE  /\ F!Refreshed(n, ws) \in [Workspaces -> Nat]
         /\ \A w \in Workspaces : F!Refreshed(n, ws)[w] >= shown[w]
         /\ \A w \in Workspaces \cap ws : F!Refreshed(n, ws)[w] >= F!RevisionAt(n, w)
         /\ n = 0 => F!Refreshed(n, ws) = shown
<1>1. shown \in [Workspaces -> Nat]
  BY DEF TypeOK
<1>2. \A w : F!RevisionAt(n, w) \in Nat /\ (n = 0 => F!RevisionAt(n, w) = 0)
  BY RevisionTyped
<1>3. QED
  BY <1>1, <1>2 DEF F!Refreshed, F!Later

(* Applied events move the cursor, or are held back behind it; none is     *)
(* forgotten, and what is shown is what following the log would show.      *)
LEMMA ApplyIs ==
  ASSUME TypeOK, ShownUpToDate, NEW events \in SUBSET (1..Len(log)), ApplyEvents(events)
  PROVE  /\ cursor' \in cursor..Len(log)
         /\ pending' \subseteq pending \cup events
         /\ \A s \in pending' : s > cursor'
         /\ Applied \cup events \subseteq Applied'
         /\ \A n \in 0..cursor, m \in 0..Len(log) : (n + 1)..m \subseteq events => m <= cursor'
         /\ shown' = F!Refreshed(cursor', Workspaces)
         /\ cursor' = cursor => shown' = shown
<1> DEFINE c == Reach(events)
           ws == {log[s] : s \in (cursor + 1)..c}
<1>0. Len(log) \in Nat /\ cursor \in 0..Len(log) /\ pending \subseteq 1..Len(log)
  BY DEF TypeOK
<1>1. /\ c \in cursor..Len(log)
      /\ (cursor + 1)..c \subseteq pending \cup events
      /\ \A n \in cursor..Len(log) : (cursor + 1)..n \subseteq pending \cup events => n <= c
  BY ReachIs
<1>2. cursor' = c /\ pending' = {s \in pending \cup events : s > c}
      /\ shown' = F!Refreshed(c, ws)
  BY DEF ApplyEvents
<1> HIDE DEF c
<1>3. Applied \cup events \subseteq Applied'
  BY <1>0, <1>1, <1>2 DEF Applied
<1>4. ASSUME NEW n \in 0..cursor, NEW m \in 0..Len(log), (n + 1)..m \subseteq events
      PROVE  m <= c
  <2>1. CASE m <= cursor
    BY <2>1, <1>0, <1>1
  <2>2. CASE m > cursor
    <3>1. (cursor + 1)..m \subseteq events
      BY <1>0, <1>4
    <3>2. QED
      BY <1>0, <1>1, <2>2, <3>1
  <2>3. QED
    BY <2>1, <2>2, <1>0
<1>5. F!Refreshed(c, ws) = F!Refreshed(c, Workspaces)
  <2>1. shown \in [Workspaces -> Nat]
    BY DEF TypeOK
  <2>2. ASSUME NEW w \in Workspaces, w \notin ws PROVE F!Later(shown[w], F!RevisionAt(c, w)) = shown[w]
    <3>1. F!RevisionAt(c, w) = F!RevisionAt(cursor, w)
      <4>1. c \in 0..Len(log) /\ cursor \in 0..c
        BY <1>0, <1>1
      <4>2. \A i \in (cursor + 1)..c : log[i] # w
        BY <2>2
      <4>3. QED
        BY <4>1, <4>2, RevisionTyped
    <3>2. shown[w] >= F!RevisionAt(cursor, w)
      BY DEF ShownUpToDate
    <3>3. QED
      BY <3>1, <3>2 DEF F!Later
  <2>3. QED
    BY <2>2 DEF F!Refreshed
<1>6. c = cursor => shown' = shown
  <2>1. shown \in [Workspaces -> Nat]
    BY DEF TypeOK
  <2>2. c = cursor => ws = {}
    BY <1>0
  <2>3. QED
    BY <1>2, <2>1, <2>2 DEF F!Refreshed
<1>7. QED
  BY <1>1, <1>2, <1>3, <1>4, <1>5, <1>6

-------------------------------------------------------------------------------
(***************************************************************************)
(* Every step applies events, shows a record or a list, extends the log,   *)
(* forgets the session or leaves the projection alone.                     *)
(***************************************************************************)
Forgets == cursor' = 0 /\ pending' = {} /\ shown' = [w \in Workspaces |-> 0]

ProjectionMoves ==
    \/ UNCHANGED projection /\ \E w \in Workspaces : log' = Append(log, w)
    \/ /\ log' = log
       /\ \/ UNCHANGED projection
          \/ Forgets /\ phase' = "stopped"
          \/ \E events \in SUBSET (1..Len(log)) : ApplyEvents(events)
          \/ \E n \in 0..Len(log), ws \in SUBSET Workspaces : Hydrate(n, ws)

LEMMA PageInLog ==
  ASSUME TypeOK, ReadInLog, NEW r \in Reads
  PROVE  /\ (read[r].after + 1)..read[r].upTo \in SUBSET (1..Len(log))
         /\ read[r].upTo \in 0..Len(log) /\ read[r].after \in 0..Len(log)
<1>1. read[r] \in Reading /\ Len(log) \in Nat
  BY DEF TypeOK
<1>2. read[r].after \in Nat /\ read[r].upTo \in Nat
  BY <1>1 DEF Reading
<1>3. QED
  BY <1>1, <1>2 DEF ReadInLog

LEMMA StepProjects ==
  ASSUME TypeOK, ReadInLog, Next
  PROVE  ProjectionMoves
<1> USE DEF ProjectionMoves
<1>0. /\ wire \subseteq 1..Len(log) /\ answers \subseteq 1..Len(log)
      /\ buffer \subseteq 1..Len(log) /\ DOMAIN read = Reads /\ log \in Seq(Workspaces)
  BY DEF TypeOK
<1>1. ASSUME NEW w \in Workspaces, NEW own \in BOOLEAN, Commit(w, own) PROVE ProjectionMoves
  BY <1>1 DEF Commit
<1>2. ASSUME NEW s \in wire, Lose(s) \/ Deliver(s) PROVE ProjectionMoves
  <2>1. CASE LiveEvent(s)
    <3>1. {s} \in SUBSET (1..Len(log))
      BY <1>0
    <3>2. QED
      BY <2>1, <3>1 DEF LiveEvent
  <2>2. QED
    BY <1>2, <2>1 DEF Lose, Deliver, Unheard, Buffered
<1>3. ASSUME NEW s \in answers, Answered(s) PROVE ProjectionMoves
  <2>1. s \in 0..Len(log) /\ s \in 1..Len(log)
    BY <1>0
  <2>2. {log[s]} \in SUBSET Workspaces
    BY <1>0, <2>1
  <2>3. QED
    BY <1>3, <2>1, <2>2 DEF Answered
<1>4. CASE Start \/ Subscribe \/ StartFails \/ Refresh \/ RefreshFails \/ ClearError \/ RecoveryReadFails
  BY <1>4 DEF Start, Subscribe, StartFails, Refresh, RefreshFails, ClearError, RecoveryReadFails, host
<1>5. CASE Stop
  BY <1>5 DEF Stop, host, Forgets
<1>6. CASE Started
  BY <1>0, <1>6 DEF Started, host
<1>7. ASSUME NEW r \in Reads, HostReads(r) PROVE ProjectionMoves
  BY <1>7 DEF HostReads, host
<1>8. ASSUME NEW r \in Reads, ListArrives(r) PROVE ProjectionMoves
  BY <1>8, PageInLog DEF ListArrives, host
<1>9. ASSUME NEW r \in Reads, PageArrives(r), log' = log PROVE ProjectionMoves
  BY <1>9, PageInLog DEF PageArrives
<1>10. ASSUME NEW r \in Reads, NextPage(r) PROVE ProjectionMoves
  BY <1>9, <1>10 DEF NextPage, host
<1>11. CASE LastPageOfStart \/ LastPageOfRecovery
  <2>1. {"start", "recovery"} \subseteq Reads
    BY DEF Reads
  <2>2. QED
    BY <1>9, <1>11, <2>1 DEF LastPageOfStart, LastPageOfRecovery, host
<1>12. CASE LastPageOfRefresh
  <2>1. "refresh" \in Reads
    BY DEF Reads
  <2>2. QED
    BY <1>9, <1>12, <2>1 DEF LastPageOfRefresh, host
<1>13. QED
  BY <1>0, <1>1, <1>2, <1>3, <1>4, <1>5, <1>6, <1>7, <1>8, <1>10, <1>11, <1>12
     DEF Next, Replays

(* What a step makes of the projection: it stays typed, and shows at least *)
(* what has been followed.                                                 *)
LEMMA ProjectionKept ==
  ASSUME TypeOK, ReadInLog, ShownUpToDate, ProjectionMoves
  PROVE  /\ log' \in Seq(Workspaces) /\ Len(log) <= Len(log')
         /\ cursor' \in 0..Len(log') /\ pending' \subseteq 1..Len(log')
         /\ shown' \in [Workspaces -> Nat]
         /\ ShownUpToDate'
<1>0. /\ log \in Seq(Workspaces) /\ Len(log) \in Nat /\ cursor \in 0..Len(log)
      /\ pending \subseteq 1..Len(log) /\ shown \in [Workspaces -> Nat]
  BY DEF TypeOK
<1>1. CASE UNCHANGED projection /\ \E w \in Workspaces : log' = Append(log, w)
  <2>1. PICK w \in Workspaces : log' = Append(log, w)
    BY <1>1
  <2>2. /\ log' \in Seq(Workspaces) /\ Len(log') = Len(log) + 1
        /\ \A i \in 1..Len(log) : log'[i] = log[i]
    BY <1>0, <2>1
  <2>3. \A v : F!RevisionAt(cursor, v)' = F!RevisionAt(cursor, v)
    <3>1. cursor' = cursor
      BY <1>1 DEF projection
    <3>2. \A v : {i \in 1..cursor : log'[i] = v} = {i \in 1..cursor : log[i] = v}
      <4>1. \A i \in 1..cursor : log'[i] = log[i]
        BY <1>0, <2>2
      <4>2. QED
        BY <4>1, Zenon
    <3>3. QED
      BY <3>1, <3>2, Zenon DEF F!RevisionAt
  <2>4. QED
    BY <1>0, <1>1, <2>2, <2>3 DEF projection, ShownUpToDate
<1>2. CASE log' = log /\ UNCHANGED projection
  <2>1. ShownUpToDate'
    BY <1>2 DEF ShownUpToDate, projection, F!RevisionAt
  <2>2. QED
    BY <1>0, <1>2, <2>1 DEF projection
<1>3. CASE log' = log /\ Forgets
  <2>1. \A w : F!RevisionAt(0, w) = 0
    BY <1>0, RevisionTyped
  <2>2. ShownUpToDate'
    BY <1>3, <2>1 DEF Forgets, ShownUpToDate, F!RevisionAt
  <2>3. QED
    BY <1>0, <1>3, <2>2 DEF Forgets
<1>4. ASSUME log' = log, NEW events \in SUBSET (1..Len(log)), ApplyEvents(events)
      PROVE  /\ cursor' \in 0..Len(log') /\ pending' \subseteq 1..Len(log')
             /\ shown' \in [Workspaces -> Nat]
             /\ ShownUpToDate'
  <2>1. cursor' \in 0..Len(log) /\ pending' \subseteq 1..Len(log)
    <3>1. cursor' \in cursor..Len(log) /\ pending' \subseteq pending \cup events
      BY <1>4, ApplyIs
    <3>2. QED
      BY <1>0, <3>1
  <2>2. shown' = F!Refreshed(cursor', Workspaces)
    BY <1>4, ApplyIs
  <2>3. /\ shown' \in [Workspaces -> Nat]
        /\ \A w \in Workspaces : shown'[w] >= F!RevisionAt(cursor', w)
    BY <2>1, <2>2, RefreshedTyped
  <2>4. QED
    BY <1>4, <2>1, <2>3 DEF ShownUpToDate, F!RevisionAt
<1>5. ASSUME log' = log, NEW n \in 0..Len(log), NEW ws \in SUBSET Workspaces, Hydrate(n, ws)
      PROVE  /\ cursor' \in 0..Len(log') /\ pending' \subseteq 1..Len(log')
             /\ shown' \in [Workspaces -> Nat]
             /\ ShownUpToDate'
  <2>1. /\ shown' \in [Workspaces -> Nat]
        /\ \A w \in Workspaces : shown'[w] >= shown[w]
        /\ cursor' = cursor /\ pending' = pending
    BY <1>5, RefreshedTyped DEF Hydrate
  <2>2. \A w \in Workspaces : shown'[w] >= F!RevisionAt(cursor, w)
    <3>1. \A w : F!RevisionAt(cursor, w) \in Nat
      BY <1>0, RevisionTyped
    <3>2. QED
      BY <1>0, <2>1, <3>1 DEF ShownUpToDate
  <2>3. QED
    BY <1>0, <1>5, <2>1, <2>2 DEF ShownUpToDate, F!RevisionAt
<1>6. QED
  BY <1>0, <1>1, <1>2, <1>3, <1>4, <1>5 DEF ProjectionMoves

(* A page that arrives follows on what is applied: nothing of it is held   *)
(* back, and the cursor reaches at least its end.                          *)
LEMMA PageApplied ==
  ASSUME TypeOK, ReadInLog, ShownUpToDate, PagesFollowOn, NEW r \in Reads, PageArrives(r)
  PROVE  /\ cursor' \in cursor..Len(log) /\ read[r].upTo <= cursor'
         /\ pending' \subseteq pending /\ \A s \in pending' : s > cursor'
         /\ Applied \subseteq Applied' /\ 1..read[r].upTo \subseteq Applied'
<1> DEFINE events == (read[r].after + 1)..read[r].upTo
<1>1. /\ read[r].after \in 0..Len(log) /\ read[r].upTo \in 0..Len(log)
      /\ events \in SUBSET (1..Len(log))
  BY PageInLog
<1>2. /\ cursor \in 0..Len(log) /\ Len(log) \in Nat
  BY DEF TypeOK
<1>3. read[r].after \in 0..cursor
  BY <1>1, <1>2 DEF PagesFollowOn, PageArrives, Current
<1>4. ApplyEvents(events)
  BY DEF PageArrives
<1>5. /\ cursor' \in cursor..Len(log)
      /\ pending' \subseteq pending \cup events
      /\ \A s \in pending' : s > cursor'
      /\ Applied \subseteq Applied'
  BY <1>1, <1>4, ApplyIs
<1>6. read[r].upTo <= cursor'
  BY <1>1, <1>3, <1>4, ApplyIs
<1>7. pending' \subseteq pending
  BY <1>1, <1>2, <1>5, <1>6
<1>8. 1..read[r].upTo \subseteq Applied'
  BY <1>1, <1>2, <1>5, <1>6 DEF Applied
<1>9. QED
  BY <1>5, <1>6, <1>7, <1>8

(* Every step leaves each read as it is, drops it, asks for a list or for  *)
(* a page from where the cursor is, or has it answered by the host.        *)
ReadMoves(r) ==
    \/ read'[r] \in {read[r], Idle, Listing}
    \/ \E n \in 0..cursor' : read'[r] = Paging(n)
    \/ /\ read[r].step = "listing"
       /\ read'[r] = [read[r] EXCEPT !.step = "listed", !.upTo = Len(log)]
    \/ /\ read[r].step = "paging"
       /\ read'[r] = [read[r] EXCEPT !.step = "paged", !.upTo = PageEnd(read[r].after)]

ReadsMove == read' = [r \in Reads |-> read'[r]] /\ \A r \in Reads : ReadMoves(r)

LEMMA SetReadMoves ==
  ASSUME TypeOK, NEW r \in Reads, NEW x, read' = [read EXCEPT ![r] = x],
         x \in {Idle, Listing} \/ \E n \in 0..cursor' : x = Paging(n)
  PROVE  ReadsMove
<1>1. read \in [Reads -> Reading]
  BY DEF TypeOK
<1>2. read' = [q \in Reads |-> read'[q]] /\ read'[r] = x /\ \A q \in Reads \ {r} : read'[q] = read[q]
  BY <1>1
<1>3. QED
  BY <1>2 DEF ReadsMove, ReadMoves

LEMMA GapMoves ==
  ASSUME TypeOK, NEW s \in Nat, NEW t \in Nat, cursor' \in Nat, RecoverGap(s, cursor', t)
  PROVE  /\ ReadsMove
         /\ target' \in Nat /\ target' >= s /\ target' >= t
         /\ attempt' \in Nat
         /\ UNCHANGED read \/ read' = [read EXCEPT !["recovery"] = Paging(cursor')]
         /\ UNCHANGED read \/ phase' = "started"
         /\ phase' = "started" => read'["recovery"].step # "none"
<1>1. read \in [Reads -> Reading] /\ attempt \in Nat /\ "recovery" \in Reads
  BY DEF TypeOK, Reads
<1>2. target' \in Nat /\ target' >= s /\ target' >= t
  BY DEF RecoverGap, F!Later
<1>3. CASE UNCHANGED <<read, attempt>> /\ ~(phase' = "started" /\ read["recovery"].step = "none")
  <2>1. ReadsMove
    BY <1>1, <1>3 DEF ReadsMove, ReadMoves
  <2>2. QED
    BY <1>1, <1>2, <1>3, <2>1
<1>4. CASE /\ phase' = "started"
           /\ read' = [read EXCEPT !["recovery"] = Paging(cursor')] /\ attempt' = 1
  <2>1. ReadsMove
    <3>1. cursor' \in 0..cursor'
      OBVIOUS
    <3>2. QED
      BY <1>1, <1>4, <3>1, SetReadMoves
  <2>2. read'["recovery"].step # "none"
    BY <1>1, <1>4 DEF Paging, Idle
  <2>3. QED
    BY <1>2, <1>4, <2>1, <2>2
<1>5. QED
  BY <1>3, <1>4 DEF RecoverGap

LEMMA SettleIs ==
  ASSUME TypeOK, NEW c \in Nat, Settle(c)
  PROVE  /\ target' \in Nat /\ gapError' \in {"none", "raised", "dismissed"}
         /\ c >= target \/ (target' = target /\ gapError' = gapError)
  BY DEF Settle, TypeOK

LEMMA AttemptMoves ==
  ASSUME TypeOK, cursor' \in Nat, AttemptEnds(cursor')
  PROVE  /\ ReadsMove
         /\ target' \in Nat /\ gapError' \in {"none", "raised", "dismissed"} /\ attempt' \in Nat
         /\ \A r \in Reads \ {"recovery"} : read'[r] = read[r]
         /\ \/ cursor' >= target
            \/ target' = target /\ (read'["recovery"].step # "none" \/ gapError' # "none")
<1>1. read \in [Reads -> Reading] /\ "recovery" \in Reads
  BY DEF TypeOK, Reads
<1>2. /\ target \in Nat /\ attempt \in Nat /\ attempt + 1 \in Nat
      /\ gapError \in {"none", "raised", "dismissed"}
  BY DEF TypeOK
<1>3. CASE cursor' >= target /\ Settle(cursor') /\ read' = [read EXCEPT !["recovery"] = Idle] /\ attempt' = 0
  <2>1. ReadsMove
    BY <1>1, <1>3, SetReadMoves
  <2>2. QED
    BY <1>1, <1>2, <1>3, <2>1, SettleIs
<1>4. CASE /\ read' = [read EXCEPT !["recovery"] = Paging(cursor')]
           /\ attempt' = attempt + 1 /\ UNCHANGED <<target, gapError>>
  <2>1. ReadsMove
    <3>1. cursor' \in 0..cursor'
      OBVIOUS
    <3>2. QED
      BY <1>1, <1>4, <3>1, SetReadMoves
  <2>2. Paging(cursor').step # "none"
    BY DEF Paging, Idle
  <2>3. QED
    BY <1>1, <1>2, <1>4, <2>1, <2>2
<1>5. CASE /\ read' = [read EXCEPT !["recovery"] = Idle]
           /\ gapError' = "raised" /\ attempt' = 0 /\ UNCHANGED target
  <2>1. ReadsMove
    BY <1>1, <1>5, SetReadMoves
  <2>2. QED
    BY <1>1, <1>2, <1>5, <2>1
<1>6. QED
  BY <1>3, <1>4, <1>5 DEF AttemptEnds

(* What is typed apart from the projection and the reads.                  *)
RestTyped ==
    /\ wire \subseteq 1..Len(log) /\ lost \subseteq 1..Len(log)
    /\ answers \subseteq 1..Len(log) /\ buffer \subseteq 1..Len(log)
    /\ phase \in Phases
    /\ target \in Nat /\ gapError \in {"none", "raised", "dismissed"} /\ attempt \in Nat
    /\ stale \in BOOLEAN /\ starts \in Nat

LEMMA EventsTyped ==
  ASSUME TypeOK, ReadInLog, ShownUpToDate, cursor' \in Nat, NEW s \in wire \cup answers,
         \/ s \in wire /\ (Lose(s) \/ Deliver(s))
         \/ s \in answers /\ Answered(s)
  PROVE  ReadsMove /\ RestTyped'
<1>0. RestTyped /\ s \in Nat /\ read \in [Reads -> Reading] /\ cursor \in Nat
  BY DEF TypeOK, RestTyped
<1> USE DEF RestTyped
<1>1. CASE Lose(s) \/ Unheard(s) \/ Buffered(s)
  <2>1. UNCHANGED read
    BY <1>1 DEF Lose, Unheard, Buffered
  <2>2. RestTyped'
    BY <1>0, <1>1 DEF Lose, Unheard, Buffered, gap, host
  <2>3. QED
    BY <1>0, <2>1, <2>2 DEF ReadsMove, ReadMoves
<1>2. CASE LiveEvent(s)
  <2>1. PICK left \in {0, target} :
          IF s > cursor + 1 THEN RecoverGap(s, cursor', left)
          ELSE target' = left /\ UNCHANGED <<read, attempt>>
    BY <1>2 DEF LiveEvent
  <2>2. ReadsMove /\ target' \in Nat /\ attempt' \in Nat
    <3>1. left \in Nat
      BY <1>0, <2>1
    <3>2. CASE s > cursor + 1
      BY <1>0, <2>1, <3>1, <3>2, GapMoves
    <3>3. CASE ~(s > cursor + 1)
      BY <1>0, <2>1, <3>1, <3>3 DEF ReadsMove, ReadMoves
    <3>4. QED
      BY <3>2, <3>3
  <2>3. QED
    BY <1>0, <1>2, <2>2 DEF LiveEvent
<1>3. CASE Answered(s)
  <2>1. ReadsMove /\ target' \in Nat /\ attempt' \in Nat
    <3>1. CASE s > cursor
      <4>1. RecoverGap(s, cursor', target)
        BY <1>3, <3>1 DEF Answered, Hydrate
      <4>2. QED
        BY <1>0, <4>1, GapMoves
    <3>2. CASE ~(s > cursor)
      BY <1>0, <1>3, <3>2 DEF Answered, ReadsMove, ReadMoves
    <3>3. QED
      BY <3>1, <3>2
  <2>2. QED
    BY <1>0, <1>3, <2>1 DEF Answered
<1>4. QED
  BY <1>1, <1>2, <1>3 DEF Deliver

LEMMA SessionTyped ==
  ASSUME TypeOK, cursor' \in Nat,
         Start \/ Stop \/ Subscribe \/ StartFails \/ Started
  PROVE  ReadsMove /\ RestTyped'
<1>0. RestTyped /\ read \in [Reads -> Reading] /\ {"start", "recovery"} \subseteq Reads
  BY DEF TypeOK, RestTyped, Reads
<1> USE DEF RestTyped, Phases, Starting
<1>1. CASE Start \/ Stop
  <2>1. NewGeneration /\ log' = log
    BY <1>1 DEF Start, Stop, host
  <2>2. ReadsMove
    BY <1>0, <2>1 DEF NewGeneration, ReadsMove, ReadMoves
  <2>3. QED
    BY <1>0, <1>1, <2>1, <2>2 DEF Start, Stop, NewGeneration, host
<1>2. CASE Subscribe
  <2>1. ReadsMove
    BY <1>0, <1>2, SetReadMoves DEF Subscribe
  <2>2. QED
    BY <1>0, <1>2, <2>1 DEF Subscribe, host, gap
<1>3. CASE StartFails
  <2>1. ReadsMove
    BY <1>0, <1>3, SetReadMoves DEF StartFails
  <2>2. QED
    BY <1>0, <1>3, <2>1 DEF StartFails, host, gap
<1>4. CASE Started
  <2>1. ReadsMove /\ target' \in Nat /\ attempt' \in Nat
    <3>1. CASE buffer # {} /\ Max(buffer) > cursor'
      <4>1. Len(log) \in Nat /\ buffer \in SUBSET Nat /\ \A x \in buffer : x <= Len(log)
        BY <1>0 DEF TypeOK
      <4>2. Max(buffer) \in Nat
        BY <3>1, <4>1, MaxOfBounded
      <4>3. RecoverGap(Max(buffer), cursor', target)
        BY <1>4, <3>1 DEF Started
      <4>4. QED
        BY <1>0, <4>2, <4>3, GapMoves
    <3>2. CASE ~(buffer # {} /\ Max(buffer) > cursor')
      BY <1>0, <1>4, <3>2 DEF Started, ReadsMove, ReadMoves
    <3>3. QED
      BY <3>1, <3>2
  <2>2. QED
    BY <1>0, <1>4, <2>1 DEF Started, host
<1>5. QED
  BY <1>1, <1>2, <1>3, <1>4

LEMMA ReplaysTyped ==
  ASSUME TypeOK, ReadInLog, ShownUpToDate, PagesFollowOn, cursor' \in Nat,
         NEW r \in Reads, HostReads(r) \/ ListArrives(r) \/ NextPage(r)
  PROVE  ReadsMove /\ RestTyped'
<1>0. RestTyped /\ read \in [Reads -> Reading] /\ cursor \in Nat
  BY DEF TypeOK, RestTyped
<1> USE DEF RestTyped
<1>1. CASE HostReads(r)
  <2>1. ReadsMove
    BY <1>0, <1>1 DEF HostReads, ReadsMove, ReadMoves
  <2>2. QED
    BY <1>0, <1>1, <2>1 DEF HostReads, host, gap
<1>2. CASE ListArrives(r)
  <2>1. PICK n \in {0, cursor} : read' = [read EXCEPT ![r] = Paging(n)]
    BY <1>2 DEF ListArrives
  <2>2. n \in 0..cursor'
    BY <1>0, <1>2 DEF ListArrives, Hydrate
  <2>3. ReadsMove
    BY <2>1, <2>2, SetReadMoves
  <2>4. QED
    BY <1>0, <1>2, <2>3 DEF ListArrives, host, gap
<1>3. CASE NextPage(r)
  <2>1. read[r].upTo \in 0..cursor'
    BY <1>3, PageApplied, PageInLog DEF NextPage
  <2>2. ReadsMove
    BY <1>3, <2>1, SetReadMoves DEF NextPage
  <2>3. QED
    BY <1>0, <1>3, <2>2 DEF NextPage, host, gap
<1>4. QED
  BY <1>1, <1>2, <1>3

LEMMA LastPagesTyped ==
  ASSUME TypeOK, cursor' \in Nat,
         LastPageOfStart \/ LastPageOfRecovery \/ LastPageOfRefresh \/ RecoveryReadFails
  PROVE  ReadsMove /\ RestTyped'
<1>0. RestTyped /\ read \in [Reads -> Reading] /\ Reads = {"start", "recovery", "refresh"}
  BY DEF TypeOK, RestTyped, Reads
<1> USE DEF RestTyped
<1>1. CASE LastPageOfStart
  <2>1. ReadsMove
    BY <1>0, <1>1, SetReadMoves DEF LastPageOfStart
  <2>2. QED
    BY <1>0, <1>1, <2>1 DEF LastPageOfStart, host, gap, Phases, Starting
<1>2. CASE LastPageOfRecovery \/ RecoveryReadFails
  <2>1. AttemptEnds(cursor')
    BY <1>2 DEF LastPageOfRecovery, RecoveryReadFails, AttemptEnds, Settle, projection
  <2>2. ReadsMove /\ target' \in Nat /\ gapError' \in {"none", "raised", "dismissed"} /\ attempt' \in Nat
    BY <2>1, AttemptMoves
  <2>3. QED
    BY <1>0, <1>2, <2>2 DEF LastPageOfRecovery, RecoveryReadFails, host
<1>3. CASE LastPageOfRefresh
  <2>1. ReadsMove
    BY <1>0, <1>3, SetReadMoves DEF LastPageOfRefresh
  <2>2. target' \in Nat /\ gapError' \in {"none", "raised", "dismissed"}
    BY <1>3, SettleIs DEF LastPageOfRefresh
  <2>3. QED
    BY <1>0, <1>3, <2>1, <2>2 DEF LastPageOfRefresh, host
<1>4. QED
  BY <1>1, <1>2, <1>3

LEMMA OthersTyped ==
  ASSUME TypeOK, cursor' \in Nat,
         \/ Refresh \/ RefreshFails \/ ClearError
         \/ \E w \in Workspaces, own \in BOOLEAN : Commit(w, own)
  PROVE  ReadsMove /\ RestTyped'
<1>0. /\ RestTyped /\ read \in [Reads -> Reading] /\ "refresh" \in Reads
      /\ log \in Seq(Workspaces) /\ Len(log) \in Nat
  BY DEF TypeOK, RestTyped, Reads
<1> USE DEF RestTyped
<1>1. CASE Refresh \/ RefreshFails
  <2>1. ReadsMove
    BY <1>0, <1>1, SetReadMoves DEF Refresh, RefreshFails
  <2>2. QED
    BY <1>0, <1>1, <2>1 DEF Refresh, RefreshFails, host, gap
<1>2. CASE ClearError
  BY <1>0, <1>2 DEF ClearError, ReadsMove, ReadMoves, host
<1>3. ASSUME NEW w \in Workspaces, NEW own \in BOOLEAN, Commit(w, own)
      PROVE  ReadsMove /\ RestTyped'
  <2>1. Len(log') = Len(log) + 1
    BY <1>0, <1>3 DEF Commit
  <2>2. 1..Len(log) \subseteq 1..Len(log') /\ Len(log) + 1 \in 1..Len(log')
    BY <1>0, <2>1
  <2>3. /\ wire' = wire \cup {Len(log) + 1} /\ lost' = lost /\ buffer' = buffer
        /\ answers' \subseteq answers \cup {Len(log) + 1}
        /\ UNCHANGED <<phase, target, gapError, attempt, stale, starts, read>>
    BY <1>3 DEF Commit, gap
  <2>4. QED
    BY <1>0, <2>2, <2>3 DEF ReadsMove, ReadMoves
<1>4. QED
  BY <1>1, <1>2, <1>3

LEMMA PagingIs ==
  ASSUME NEW n \in Nat
  PROVE  /\ Paging(n) \in Reading /\ Paging(n).after = n
         /\ Paging(n).upTo = 0 /\ Paging(n).step = "paging"
<1>1. Idle \in Reading /\ Idle.upTo = 0
  BY DEF Idle, Reading
<1>2. ASSUME NEW x \in Reading
      PROVE  LET y == [x EXCEPT !.step = "paging", !.after = n]
             IN  y \in Reading /\ y.after = n /\ y.upTo = x.upTo /\ y.step = "paging"
  BY DEF Reading
<1>3. QED
  BY <1>1, <1>2 DEF Paging

LEMMA ReadsTyped ==
  ASSUME TypeOK, ReadInLog, ReadsMove, cursor' \in 0..Len(log'),
         Len(log') \in Nat, Len(log) <= Len(log')
  PROVE  read' \in [Reads -> Reading] /\ ReadInLog'
<1>0. cursor' \in Nat /\ cursor' <= Len(log') /\ Len(log') \in Nat
  OBVIOUS
<1>1. read \in [Reads -> Reading] /\ Len(log) \in Nat
  BY DEF TypeOK
<1>2. ASSUME NEW r \in Reads
      PROVE  /\ read'[r] \in Reading
             /\ read'[r].after <= Len(log') /\ read'[r].upTo <= Len(log')
             /\ read'[r].step = "paged" => read'[r].after <= read'[r].upTo
  <2>1. /\ read[r] \in Reading /\ read[r].after \in Nat /\ read[r].upTo \in Nat
        /\ read[r].after <= Len(log) /\ read[r].upTo <= Len(log)
        /\ read[r].step = "paged" => read[r].after <= read[r].upTo
    BY <1>1 DEF ReadInLog, Reading
  <2>2. CASE read'[r] = read[r]
    BY <1>1, <2>1, <2>2
  <2>3. CASE read'[r] \in {Idle, Listing}
    BY <2>3 DEF Idle, Listing, Reading
  <2>4. ASSUME NEW n \in 0..cursor', read'[r] = Paging(n)
        PROVE  /\ read'[r] \in Reading
               /\ read'[r].after <= Len(log') /\ read'[r].upTo <= Len(log')
               /\ read'[r].step = "paged" => read'[r].after <= read'[r].upTo
    <3>1. n \in Nat /\ n <= Len(log')
      BY <1>0
    <3>2. /\ Paging(n) \in Reading /\ Paging(n).after = n
          /\ Paging(n).upTo = 0 /\ Paging(n).step = "paging"
      BY <3>1, PagingIs
    <3>3. QED
      BY <1>0, <2>4, <3>1, <3>2
  <2>5. CASE read'[r] = [read[r] EXCEPT !.step = "listed", !.upTo = Len(log)]
    <3>1. /\ read'[r] \in Reading /\ read'[r].after = read[r].after
          /\ read'[r].upTo = Len(log) /\ read'[r].step = "listed"
      BY <1>1, <2>1, <2>5 DEF Reading
    <3>2. QED
      BY <1>0, <1>1, <2>1, <3>1
  <2>6. CASE read'[r] = [read[r] EXCEPT !.step = "paged", !.upTo = PageEnd(read[r].after)]
    <3>1. /\ PageEnd(read[r].after) \in Nat /\ PageEnd(read[r].after) <= Len(log)
          /\ read[r].after <= PageEnd(read[r].after)
      BY <2>1, PageEndIs
    <3>2. /\ read'[r] \in Reading /\ read'[r].after = read[r].after
          /\ read'[r].upTo = PageEnd(read[r].after)
      BY <2>1, <2>6, <3>1 DEF Reading
    <3>3. QED
      BY <1>0, <1>1, <2>1, <3>1, <3>2
  <2>7. QED
    BY <2>2, <2>3, <2>4, <2>5, <2>6 DEF ReadsMove, ReadMoves
<1>3. read' \in [Reads -> Reading]
  BY <1>2 DEF ReadsMove
<1>4. QED
  BY <1>2, <1>3 DEF ReadInLog

(* All of it: types, what has been read, and what is shown.                *)
LEMMA StepTyped ==
  ASSUME TypeOK, ReadInLog, ShownUpToDate, PagesFollowOn, Next
  PROVE  TypeOK' /\ ReadInLog' /\ ShownUpToDate' /\ ReadsMove
<1>1. /\ log' \in Seq(Workspaces) /\ Len(log) <= Len(log')
      /\ cursor' \in 0..Len(log') /\ pending' \subseteq 1..Len(log')
      /\ shown' \in [Workspaces -> Nat]
      /\ ShownUpToDate'
  BY StepProjects, ProjectionKept
<1>2. cursor' \in Nat /\ Len(log') \in Nat
  BY <1>1
<1>3. ReadsMove /\ RestTyped'
  <2>1. DOMAIN read = Reads
    BY DEF TypeOK
  <2>2. QED
    BY <1>2, <2>1, EventsTyped, SessionTyped, ReplaysTyped, LastPagesTyped, OthersTyped
       DEF Next, Replays
<1>4. read' \in [Reads -> Reading] /\ ReadInLog'
  BY <1>1, <1>2, <1>3, ReadsTyped
<1>5. QED
  BY <1>1, <1>3, <1>4 DEF TypeOK, RestTyped

-------------------------------------------------------------------------------
(***************************************************************************)
(* The client follows the feed.                                            *)
(***************************************************************************)
LEMMA Simulation ==
  ASSUME TypeOK, ShownUpToDate, ProjectionMoves
  PROVE  F!Next \/ UNCHANGED F!vars
<1>0. Len(log) \in Nat /\ cursor \in 0..Len(log) /\ shown \in [Workspaces -> Nat]
  BY DEF TypeOK
<1>1. CASE UNCHANGED projection /\ \E w \in Workspaces : log' = Append(log, w)
  BY <1>1 DEF projection, F!Next, F!Commit
<1>2. CASE log' = log /\ UNCHANGED projection
  BY <1>2 DEF projection, F!vars
<1>3. CASE log' = log /\ Forgets
  BY <1>3 DEF Forgets, F!Next, F!Forget
<1>4. ASSUME log' = log, NEW events \in SUBSET (1..Len(log)), ApplyEvents(events)
      PROVE  F!Next \/ UNCHANGED F!vars
  <2>1. /\ cursor' \in cursor..Len(log)
        /\ shown' = F!Refreshed(cursor', Workspaces)
        /\ cursor' = cursor => shown' = shown
    BY <1>4, ApplyIs
  <2>2. CASE cursor' = cursor
    BY <1>4, <2>1, <2>2 DEF F!vars
  <2>3. CASE cursor' # cursor
    <3>1. cursor' > cursor /\ cursor' \in 1..Len(log)
      BY <1>0, <2>1, <2>3
    <3>2. F!Follow(cursor')
      BY <1>4, <2>1, <3>1 DEF F!Follow
    <3>3. QED
      BY <3>1, <3>2 DEF F!Next
  <2>4. QED
    BY <2>2, <2>3
<1>5. ASSUME log' = log, NEW n \in 0..Len(log), NEW ws \in SUBSET Workspaces, Hydrate(n, ws)
      PROVE  F!Next \/ UNCHANGED F!vars
  <2>1. CASE n = 0
    BY <1>5, <2>1, RefreshedTyped DEF Hydrate, F!vars
  <2>2. CASE n # 0
    <3>1. n \in 1..Len(log)
      BY <1>0, <2>2
    <3>2. F!Show(n, ws)
      BY <1>5 DEF F!Show, Hydrate
    <3>3. QED
      BY <3>1, <3>2 DEF F!Next
  <2>3. QED
    BY <2>1, <2>2
<1>6. QED
  BY <1>1, <1>2, <1>3, <1>4, <1>5 DEF ProjectionMoves

-------------------------------------------------------------------------------
(***************************************************************************)
(* Nothing falls between the list, the pages, the buffer and the events.   *)
(***************************************************************************)
LEMMA CoverKept ==
  ASSUME TypeOK, StartCovers, NothingMissed,
         read'["start"] = read["start"], phase' = phase, log' = log,
         Applied \subseteq Applied',
         Applied \cup wire \cup lost \subseteq Applied' \cup wire' \cup lost'
            \/ phase \in {"loading", "replayed"},
         wire \cup lost \cup buffer \subseteq wire' \cup lost' \cup buffer'
            \/ phase \notin {"loading", "replayed"}
  PROVE  StartCovers' /\ NothingMissed'
<1>1. (phase' # "loading" => read'["start"].step = "none")
  BY DEF StartCovers
<1>2. read'["start"].step \in {"paging", "paged"} => 1..read'["start"].after \subseteq Applied'
  BY DEF StartCovers
<1>3. read'["start"].step = "paged" /\ ~FullPage("start")' =>
         (read'["start"].upTo + 1)..Len(log') \subseteq wire' \cup lost' \cup buffer'
  BY DEF StartCovers, FullPage
<1>4. phase' = "replayed" => 1..Len(log') \subseteq Applied' \cup wire' \cup lost' \cup buffer'
  BY DEF StartCovers
<1>5. NothingMissed'
  BY DEF NothingMissed, Applied
<1>6. QED
  BY <1>1, <1>2, <1>3, <1>4, <1>5 DEF StartCovers

LEMMA CommitCovers ==
  ASSUME TypeOK, ReadInLog, StartCovers, NothingMissed,
         NEW w \in Workspaces, NEW own \in BOOLEAN, Commit(w, own)
  PROVE  StartCovers' /\ NothingMissed'
<1>1. /\ Len(log) \in Nat /\ log \in Seq(Workspaces)
  BY DEF TypeOK
<1>2. read["start"].upTo \in 0..Len(log)
  BY PageInLog DEF Reads
<1>3. /\ Len(log') = Len(log) + 1 /\ wire' = wire \cup {Len(log) + 1}
      /\ UNCHANGED <<lost, cursor, pending, phase, buffer, read>>
  BY <1>1 DEF Commit, projection
<1>4. \A n \in 0..Len(log) : (n + 1)..(Len(log) + 1) \subseteq (n + 1)..Len(log) \cup {Len(log) + 1}
  BY <1>1
<1>5. 1..(Len(log) + 1) \subseteq 1..Len(log) \cup {Len(log) + 1}
  BY <1>1
<1>6. Applied' = Applied
  BY <1>3 DEF Applied
<1>7. read'["start"].step = "paged" /\ ~FullPage("start")' =>
         (read'["start"].upTo + 1)..Len(log') \subseteq wire' \cup lost' \cup buffer'
  BY <1>2, <1>3, <1>4 DEF StartCovers, FullPage
<1>8. phase' = "replayed" => 1..Len(log') \subseteq Applied' \cup wire' \cup lost' \cup buffer'
  BY <1>3, <1>5, <1>6 DEF StartCovers
<1>9. NothingMissed'
  BY <1>3, <1>5 DEF NothingMissed
<1>10. QED
  BY <1>3, <1>6, <1>7, <1>8, <1>9 DEF StartCovers

LEMMA GapKeepsStart ==
  ASSUME TypeOK, NEW s, NEW c, NEW t, RecoverGap(s, c, t) \/ UNCHANGED read
  PROVE  read'["start"] = read["start"]
<1>1. read \in [Reads -> Reading] /\ {"start", "recovery"} \subseteq Reads
  BY DEF TypeOK, Reads
<1>2. QED
  BY <1>1 DEF RecoverGap

LEMMA EventsCover ==
  ASSUME TypeOK, ReadInLog, ShownUpToDate, StartCovers, NothingMissed,
         NEW s \in wire \cup answers,
         \/ s \in wire /\ (Lose(s) \/ Deliver(s))
         \/ s \in answers /\ Answered(s)
  PROVE  StartCovers' /\ NothingMissed'
<1>1. CASE Lose(s)
  <2>1. Applied' = Applied
    BY <1>1 DEF Lose, projection, Applied
  <2>2. QED
    BY <1>1, <2>1, CoverKept DEF Lose
<1>2. CASE Unheard(s)
  <2>1. Applied' = Applied /\ phase \notin {"loading", "replayed", "started"}
    BY <1>2 DEF Unheard, projection, Applied, Listening
  <2>2. QED
    BY <1>2, <2>1 DEF Unheard, StartCovers, NothingMissed
<1>3. CASE Buffered(s)
  <2>1. Applied' = Applied
    BY <1>3 DEF Buffered, projection, Applied
  <2>2. QED
    BY <1>3, <2>1, CoverKept DEF Buffered
<1>4. CASE LiveEvent(s) /\ s \in wire
  <2>1. Applied \cup {s} \subseteq Applied'
    <3>1. {s} \in SUBSET (1..Len(log))
      BY <1>4 DEF TypeOK
    <3>2. ApplyEvents({s})
      BY <1>4 DEF LiveEvent
    <3>3. QED
      BY <3>1, <3>2, ApplyIs
  <2>2. /\ wire' = wire \ {s} /\ lost' = lost /\ buffer' = buffer /\ log' = log
        /\ phase' = phase /\ phase = "started"
    BY <1>4 DEF LiveEvent
  <2>3. read'["start"] = read["start"]
    BY <1>4, GapKeepsStart DEF LiveEvent
  <2>4. QED
    BY <2>1, <2>2, <2>3, CoverKept
<1>5. CASE Answered(s)
  <2>1. Applied' = Applied
    BY <1>5 DEF Answered, Hydrate, Applied
  <2>2. read'["start"] = read["start"]
    BY <1>5, GapKeepsStart DEF Answered
  <2>3. QED
    BY <1>5, <2>1, <2>2, CoverKept DEF Answered
<1>6. QED
  BY <1>1, <1>2, <1>3, <1>4, <1>5 DEF Deliver

LEMMA SessionCovers ==
  ASSUME TypeOK, ReadInLog, ShownUpToDate, StartCovers, NothingMissed,
         Start \/ Stop \/ Subscribe \/ StartFails \/ Started
  PROVE  StartCovers' /\ NothingMissed'
<1>0. read \in [Reads -> Reading] /\ {"start", "recovery"} \subseteq Reads
  BY DEF TypeOK, Reads
<1>1. CASE Start \/ Stop \/ StartFails
  <2>1. /\ read'["start"] = Idle /\ phase' \in {"subscribing", "stopped", "failed"}
    BY <1>0, <1>1 DEF Start, Stop, StartFails, NewGeneration
  <2>2. QED
    BY <2>1 DEF Idle, StartCovers, NothingMissed
<1>2. CASE Subscribe
  <2>1. read'["start"] = Listing /\ phase' = "loading"
    BY <1>0, <1>2 DEF Subscribe
  <2>2. QED
    BY <2>1 DEF Listing, Idle, StartCovers, NothingMissed
<1>3. CASE Started
  <2>1. Applied \cup buffer \subseteq Applied'
    <3>1. buffer \in SUBSET (1..Len(log)) /\ ApplyEvents(buffer)
      BY <1>3 DEF Started, TypeOK
    <3>2. QED
      BY <3>1, ApplyIs
  <2>2. read'["start"] = read["start"]
    BY <1>3, GapKeepsStart DEF Started
  <2>3. /\ phase' = "started" /\ phase = "replayed"
        /\ wire' = wire /\ lost' = lost /\ log' = log
    BY <1>3 DEF Started, host
  <2>4. 1..Len(log) \subseteq Applied \cup wire \cup lost \cup buffer
    BY <2>3 DEF StartCovers
  <2>5. NothingMissed'
    BY <2>1, <2>3, <2>4 DEF NothingMissed, Applied
  <2>6. QED
    BY <2>2, <2>3, <2>5 DEF StartCovers
<1>4. QED
  BY <1>1, <1>2, <1>3

(* Pages and lists only add to what is applied.                            *)
LEMMA OtherReadCovers ==
  ASSUME TypeOK, ReadInLog, ShownUpToDate, PagesFollowOn, StartCovers, NothingMissed,
         read'["start"] = read["start"], UNCHANGED <<host, phase, buffer>>,
         (\E r \in Reads : PageArrives(r)) \/ UNCHANGED <<cursor, pending>>
  PROVE  StartCovers' /\ NothingMissed'
<1>1. Applied \subseteq Applied'
  BY PageApplied DEF Applied
<1>2. QED
  BY <1>1, CoverKept DEF host

LEMMA ReplaysCover ==
  ASSUME TypeOK, ReadInLog, ShownUpToDate, PagesFollowOn, StartCovers, NothingMissed,
         NEW r \in Reads, HostReads(r) \/ ListArrives(r) \/ NextPage(r)
  PROVE  StartCovers' /\ NothingMissed'
<1>0. read \in [Reads -> Reading] /\ "start" \in Reads
  BY DEF TypeOK, Reads
<1>1. CASE r # "start"
  <2>1. read'["start"] = read["start"]
    BY <1>0, <1>1 DEF HostReads, ListArrives, NextPage
  <2>2. QED
    BY <2>1, OtherReadCovers DEF HostReads, ListArrives, NextPage, Hydrate, projection
<1>2. CASE r = "start" /\ HostReads(r)
  <2>1. /\ UNCHANGED <<log, wire, lost, cursor, pending, phase, buffer>> /\ Applied' = Applied
    BY <1>2 DEF HostReads, host, projection, Applied
  <2>2. phase = "loading"
    BY <1>2 DEF HostReads, StartCovers
  <2>3. CASE read["start"].step = "listing" /\ read'["start"].step = "listed"
    BY <2>1, <2>2, <2>3 DEF StartCovers, NothingMissed
  <2>4. CASE /\ read["start"].step = "paging"
             /\ read'["start"] = [read["start"] EXCEPT !.step = "paged",
                                                      !.upTo = PageEnd(read["start"].after)]
    <3>1. /\ read'["start"].after = read["start"].after /\ read'["start"].step = "paged"
          /\ read'["start"].upTo = PageEnd(read["start"].after)
      BY <1>0, <2>4 DEF Reading
    <3>2. PageEnd(read["start"].after) = Len(log) \/ FullPage("start")'
      <4>1. read["start"].after \in Nat
        BY <1>0 DEF Reading
      <4>2. QED
        BY <3>1, <4>1, PageEndIs DEF FullPage
    <3>3. (Len(log) + 1)..Len(log) = {}
      BY DEF TypeOK
    <3>4. QED
      BY <2>1, <2>2, <2>4, <3>1, <3>2, <3>3 DEF StartCovers, NothingMissed
  <2>5. QED
    BY <1>0, <1>2, <2>3, <2>4 DEF HostReads, Reading
<1>3. CASE r = "start" /\ ListArrives(r)
  <2>1. /\ UNCHANGED <<phase, cursor, pending, log, wire, lost, buffer>>
        /\ read'["start"] = Paging(0) /\ phase = "loading"
    BY <1>0, <1>3 DEF ListArrives, Hydrate, host, StartCovers
  <2>2. 1..0 = {}
    OBVIOUS
  <2>3. QED
    BY <2>1, <2>2, PagingIs DEF StartCovers, NothingMissed
<1>4. CASE r = "start" /\ NextPage(r)
  <2>1. /\ UNCHANGED <<phase, log, wire, lost, buffer>>
        /\ read'["start"] = Paging(read["start"].upTo) /\ phase = "loading"
    BY <1>0, <1>4 DEF NextPage, PageArrives, host, StartCovers
  <2>2. 1..read["start"].upTo \subseteq Applied' /\ read["start"].upTo \in Nat
    BY <1>0, <1>4, PageApplied DEF NextPage, Reading
  <2>3. QED
    BY <2>1, <2>2, PagingIs DEF StartCovers, NothingMissed
<1>5. QED
  BY <1>1, <1>2, <1>3, <1>4

LEMMA LastPagesCover ==
  ASSUME TypeOK, ReadInLog, ShownUpToDate, PagesFollowOn, StartCovers, NothingMissed,
         \/ LastPageOfStart \/ LastPageOfRecovery \/ LastPageOfRefresh
         \/ RecoveryReadFails \/ Refresh \/ RefreshFails \/ ClearError
  PROVE  StartCovers' /\ NothingMissed'
<1>0. read \in [Reads -> Reading] /\ Reads = {"start", "recovery", "refresh"}
  BY DEF TypeOK, Reads
<1>1. CASE LastPageOfStart
  <2>1. /\ UNCHANGED <<log, wire, lost, buffer>> /\ read'["start"] = Idle
        /\ phase' = "replayed" /\ read["start"].step = "paged" /\ ~FullPage("start")
    BY <1>0, <1>1 DEF LastPageOfStart, PageArrives, host
  <2>2. 1..read["start"].upTo \subseteq Applied'
    BY <1>0, <1>1, PageApplied DEF LastPageOfStart
  <2>3. (read["start"].upTo + 1)..Len(log) \subseteq wire \cup lost \cup buffer
    BY <2>1 DEF StartCovers
  <2>4. read["start"].upTo \in Nat /\ Len(log) \in Nat
    BY <1>0 DEF Reading, TypeOK
  <2>5. 1..Len(log) \subseteq 1..read["start"].upTo \cup (read["start"].upTo + 1)..Len(log)
    BY <2>4
  <2>6. QED
    BY <2>1, <2>2, <2>3, <2>5 DEF Idle, StartCovers, NothingMissed
<1>2. CASE LastPageOfRecovery \/ RecoveryReadFails
  <2>1. read'["start"] = read["start"]
    BY <1>0, <1>2 DEF LastPageOfRecovery, RecoveryReadFails, AttemptEnds
  <2>2. QED
    BY <1>0, <1>2, <2>1, OtherReadCovers DEF LastPageOfRecovery, RecoveryReadFails, projection
<1>3. CASE LastPageOfRefresh \/ Refresh \/ RefreshFails \/ ClearError
  <2>1. read'["start"] = read["start"]
    BY <1>0, <1>3 DEF LastPageOfRefresh, Refresh, RefreshFails, ClearError
  <2>2. QED
    BY <1>0, <1>3, <2>1, OtherReadCovers
       DEF LastPageOfRefresh, Refresh, RefreshFails, ClearError, projection
<1>4. QED
  BY <1>1, <1>2, <1>3

LEMMA StepCovers ==
  ASSUME TypeOK, ReadInLog, ShownUpToDate, PagesFollowOn, StartCovers, NothingMissed, Next
  PROVE  StartCovers' /\ NothingMissed'
<1>1. DOMAIN read = Reads
  BY DEF TypeOK
<1>2. QED
  BY <1>1, CommitCovers, EventsCover, SessionCovers, ReplaysCover, LastPagesCover
     DEF Next, Replays

-------------------------------------------------------------------------------
(***************************************************************************)
(* What is held back is pursued.                                           *)
(***************************************************************************)
Held == HeldBack /\ HeldBackIsPursued

LEMMA PagesKept ==
  ASSUME TypeOK, PagesFollowOn, ReadsMove, cursor' \in Nat, cursor <= cursor',
         stale /\ ~stale' => read'["refresh"] = Idle \/ read'["refresh"] = Paging(cursor')
  PROVE  PagesFollowOn'
<1>1. read \in [Reads -> Reading] /\ cursor \in Nat
  BY DEF TypeOK
<1>2. SUFFICES ASSUME NEW r \in Reads, read'[r].step \in {"paging", "paged"},
                      ~(r = "refresh" /\ stale')
               PROVE  read'[r].after <= cursor'
  BY DEF PagesFollowOn, Current
<1>3. CASE \E n \in 0..cursor' : read'[r] = Paging(n)
  BY <1>3, PagingIs
<1>4. CASE r = "refresh" /\ stale
  <2>1. read'[r] = Paging(cursor')
    BY <1>2, <1>4 DEF Idle
  <2>2. QED
    BY <2>1, PagingIs
<1>5. CASE ~(r = "refresh" /\ stale) /\ read'[r] = read[r]
  <2>1. read[r].after <= cursor /\ read[r].after \in Nat
    BY <1>1, <1>2, <1>5 DEF PagesFollowOn, Current, Reading
  <2>2. QED
    BY <1>1, <1>5, <2>1
<1>6. CASE /\ ~(r = "refresh" /\ stale) /\ read[r].step = "paging"
           /\ read'[r] = [read[r] EXCEPT !.step = "paged", !.upTo = PageEnd(read[r].after)]
  <2>1. read'[r].after = read[r].after
    BY <1>1, <1>6 DEF Reading
  <2>2. read[r].after <= cursor /\ read[r].after \in Nat
    BY <1>1, <1>6 DEF PagesFollowOn, Current, Reading
  <2>3. QED
    BY <1>1, <2>1, <2>2
<1>7. CASE /\ read[r].step = "listing"
           /\ read'[r] = [read[r] EXCEPT !.step = "listed", !.upTo = Len(log)]
  BY <1>1, <1>2, <1>7 DEF Reading
<1>8. CASE read'[r] \in {Idle, Listing}
  BY <1>2, <1>8 DEF Idle, Listing
<1>9. QED
  BY <1>3, <1>4, <1>5, <1>6, <1>7, <1>8 DEF ReadsMove, ReadMoves

LEMMA StopHeld ==
  ASSUME TypeOK, PagesFollowOn, Stop
  PROVE  PagesFollowOn' /\ Held'
<1>1. read \in [Reads -> Reading] /\ Reads = {"start", "recovery", "refresh"}
  BY DEF TypeOK, Reads
<1>2. /\ read'["start"] = Idle /\ read'["recovery"] = Idle /\ read'["refresh"] = read["refresh"]
      /\ read["refresh"].step \in {"paging", "paged"} => stale'
      /\ pending' = {} /\ phase' = "stopped"
  BY <1>1 DEF Stop, NewGeneration
<1>3. PagesFollowOn'
  BY <1>1, <1>2 DEF PagesFollowOn, Current, Idle
<1>4. Held'
  BY <1>2 DEF Held, HeldBack, HeldBackIsPursued, Idle
<1>5. QED
  BY <1>3, <1>4

(* A live event that closes the gap withdraws the error; one that opens a  *)
(* gap, or widens it, is being recovered.                                  *)
LEMMA LiveEventHeld ==
  ASSUME TypeOK, ShownUpToDate, PagesFollowOn, Held, ReadsMove,
         NEW s \in wire, LiveEvent(s)
  PROVE  /\ PagesFollowOn' /\ Held'
         /\ \/ read'["recovery"].step # "none"
            \/ pending' \subseteq pending /\ read' = read
<1>0. /\ Len(log) \in Nat /\ cursor \in 0..Len(log) /\ s \in 1..Len(log) /\ target \in Nat
      /\ pending \subseteq 1..Len(log)
  BY DEF TypeOK
<1>1. {s} \in SUBSET (1..Len(log)) /\ ApplyEvents({s}) /\ cursor' = Reach({s})
  BY <1>0 DEF LiveEvent, ApplyEvents
<1>2. /\ cursor' \in cursor..Len(log)
      /\ pending' \subseteq pending \cup {s} /\ \A p \in pending' : p > cursor'
  BY <1>1, ApplyIs
<1>3. s <= cursor + 1 => s <= cursor'
  <2>1. ASSUME s <= cursor + 1 PROVE s <= cursor'
    <3>1. s - 1 \in 0..cursor /\ s \in 0..Len(log) /\ ((s - 1) + 1)..s \subseteq {s}
      BY <1>0, <2>1
    <3>2. QED
      BY <1>1, <3>1, ApplyIs
  <2>2. QED
    BY <2>1
<1>4. /\ phase = "started" /\ phase' = "started" /\ stale' = stale
  BY DEF LiveEvent
<1>5. PagesFollowOn'
  <2>1. cursor' \in Nat /\ cursor <= cursor'
    BY <1>0, <1>2
  <2>2. QED
    BY <1>4, <2>1, PagesKept
<1> DEFINE settled == target > 0 /\ cursor' >= target
           left == IF settled THEN 0 ELSE target
<1>6. /\ gapError' = IF settled THEN "none" ELSE gapError
      /\ IF s > cursor + 1 THEN RecoverGap(s, cursor', left)
         ELSE target' = left /\ UNCHANGED <<read, attempt>>
  BY <1>1 DEF LiveEvent
<1>7. settled => pending' \subseteq {s}
  BY <1>0, <1>2 DEF Held, HeldBack
<1>8. CASE s > cursor + 1
  <2>1. RecoverGap(s, cursor', left) /\ left \in Nat /\ s \in Nat /\ cursor' \in Nat
    BY <1>0, <1>2, <1>6, <1>8
  <2>2. target' \in Nat /\ target' >= s /\ target' >= left /\ read'["recovery"].step # "none"
    BY <1>4, <2>1, GapMoves
  <2>3. \A p \in pending' : p <= target'
    BY <1>0, <1>2, <1>7, <2>2 DEF Held, HeldBack
  <2>4. QED
    BY <1>2, <1>4, <1>5, <2>2, <2>3 DEF Held, HeldBack, HeldBackIsPursued
<1>9. CASE ~(s > cursor + 1)
  <2>1. pending' \subseteq pending
    BY <1>0, <1>2, <1>3, <1>9
  <2>2. settled => pending' = {}
    BY <1>0, <1>2, <1>3, <1>7, <1>9
  <2>3. target' = left /\ read' = read
    BY <1>6, <1>9
  <2>4. QED
    BY <1>2, <1>4, <1>5, <1>6, <2>1, <2>2, <2>3 DEF Held, HeldBack, HeldBackIsPursued
<1>10. QED
  BY <1>8, <1>9

(* The buffered events that the replay did not reach open a gap.           *)
LEMMA StartedHeld ==
  ASSUME TypeOK, ShownUpToDate, PagesFollowOn, Held, ReadsMove, Started
  PROVE  /\ PagesFollowOn' /\ Held'
         /\ pending' # {} => read'["recovery"].step # "none"
<1>0. /\ Len(log) \in Nat /\ cursor \in 0..Len(log) /\ buffer \in SUBSET (1..Len(log))
      /\ target \in Nat /\ ApplyEvents(buffer)
  BY DEF TypeOK, Started
<1>1. pending = {}
  BY DEF Started, Held, HeldBack
<1>2. /\ cursor' \in cursor..Len(log)
      /\ pending' \subseteq buffer /\ \A p \in pending' : p > cursor'
  BY <1>0, <1>1, ApplyIs
<1>3. phase' = "started" /\ stale' = stale /\ gapError' = gapError
  BY DEF Started
<1>4. cursor' \in Nat /\ cursor <= cursor'
  BY <1>0, <1>2
<1>5. PagesFollowOn'
  BY <1>3, <1>4, PagesKept
<1>6. CASE pending' = {}
  BY <1>3, <1>5, <1>6 DEF Held, HeldBack, HeldBackIsPursued
<1>7. CASE pending' # {}
  <2>0. PICK p \in pending' : p \in buffer /\ p > cursor'
    BY <1>2, <1>7
  <2>1. buffer # {} /\ buffer \in SUBSET Nat /\ \A x \in buffer : x <= Len(log)
    <3>1. \A x \in 1..Len(log) : x \in Nat /\ x <= Len(log)
      BY <1>0
    <3>2. QED
      BY <1>0, <2>0, <3>1
  <2>2. Max(buffer) \in buffer /\ \A x \in buffer : x <= Max(buffer)
    BY <1>0, <2>1, MaxOfBounded
  <2>3. Max(buffer) > cursor' /\ Max(buffer) \in Nat
    <3>1. Max(buffer) \in Nat /\ p \in Nat /\ p <= Max(buffer)
      BY <2>0, <2>1, <2>2, Zenon
    <3>2. QED
      BY <1>4, <2>0, <3>1
  <2>4. RecoverGap(Max(buffer), cursor', target)
    BY <2>1, <2>3 DEF Started
  <2>5. target' \in Nat /\ target' >= Max(buffer) /\ read'["recovery"].step # "none"
    BY <1>0, <1>3, <1>4, <2>3, <2>4, GapMoves
  <2>6. \A s \in pending' : s <= target'
    BY <1>2, <2>1, <2>2, <2>3, <2>5
  <2>7. QED
    BY <1>2, <1>3, <1>5, <2>5, <2>6 DEF Held, HeldBack, HeldBackIsPursued
<1>8. QED
  BY <1>6, <1>7

(* What leaves the session and the recovery alone.                         *)
LEMMA QuietHeld ==
  ASSUME TypeOK, PagesFollowOn, Held, ReadsMove,
         UNCHANGED <<cursor, pending, phase, target, gapError>>,
         read["recovery"].step = "none" <=> read'["recovery"].step = "none",
         stale /\ ~stale' => read'["refresh"] = Idle \/ read'["refresh"] = Paging(cursor')
  PROVE  PagesFollowOn' /\ Held'
<1>1. cursor' \in Nat /\ cursor <= cursor'
  BY DEF TypeOK
<1>2. PagesFollowOn'
  BY <1>1, PagesKept
<1>3. Held'
  BY DEF Held, HeldBack, HeldBackIsPursued
<1>4. QED
  BY <1>2, <1>3

LEMMA EventsHeld ==
  ASSUME TypeOK, ReadInLog, ShownUpToDate, PagesFollowOn, Held, ReadsMove,
         NEW s \in wire \cup answers,
         \/ s \in wire /\ (Lose(s) \/ Deliver(s))
         \/ s \in answers /\ Answered(s)
  PROVE  PagesFollowOn' /\ Held'
<1>1. CASE Lose(s) \/ Unheard(s) \/ Buffered(s)
  BY <1>1, QuietHeld DEF Lose, Unheard, Buffered, projection, gap
<1>2. CASE s \in wire /\ LiveEvent(s)
  BY <1>2, LiveEventHeld
<1>3. CASE s \in answers /\ Answered(s)
  <2>1. /\ UNCHANGED <<cursor, pending, phase, gapError, stale>>
        /\ s \in Nat /\ target \in Nat /\ cursor \in Nat
    BY <1>3 DEF Answered, Hydrate, TypeOK
  <2>2. CASE s > cursor
    <3>1. RecoverGap(s, cursor', target) /\ cursor' \in Nat
      BY <1>3, <2>1, <2>2 DEF Answered
    <3>2. /\ target' \in Nat /\ target' >= target
          /\ UNCHANGED read \/ phase' = "started"
          /\ phase' = "started" => read'["recovery"].step # "none"
      BY <2>1, <3>1, GapMoves
    <3>3. PagesFollowOn'
      BY <2>1, PagesKept
    <3>4. \A p \in pending' : p <= target'
      BY <2>1, <3>2 DEF Held, HeldBack, TypeOK
    <3>5. QED
      BY <2>1, <3>2, <3>3, <3>4 DEF Held, HeldBack, HeldBackIsPursued
  <2>3. CASE ~(s > cursor)
    BY <1>3, <2>1, <2>3, QuietHeld DEF Answered
  <2>4. QED
    BY <2>2, <2>3
<1>4. QED
  BY <1>1, <1>2, <1>3 DEF Deliver

LEMMA SessionHeld ==
  ASSUME TypeOK, ShownUpToDate, PagesFollowOn, Held, ReadsMove,
         Start \/ Stop \/ Subscribe \/ StartFails \/ Started
  PROVE  PagesFollowOn' /\ Held'
<1>0. read \in [Reads -> Reading] /\ Reads = {"start", "recovery", "refresh"} /\ cursor \in Nat
  BY DEF TypeOK, Reads
<1>1. CASE Start
  <2>1. UNCHANGED <<cursor, pending>> /\ phase' = "subscribing" /\ (stale => stale')
    BY <1>1 DEF Start, NewGeneration, projection
  <2>2. pending = {} /\ read'["recovery"] = Idle
    BY <1>0, <1>1 DEF Start, NewGeneration, Held, HeldBack
  <2>3. PagesFollowOn'
    BY <1>0, <2>1, PagesKept
  <2>4. QED
    BY <2>1, <2>2, <2>3 DEF Idle, Held, HeldBack, HeldBackIsPursued
<1>2. CASE Stop
  BY <1>2, StopHeld
<1>3. CASE Subscribe \/ StartFails
  <2>1. UNCHANGED <<cursor, pending, stale>> /\ phase' # "started" /\ phase # "started"
    BY <1>3 DEF Subscribe, StartFails, projection, Starting
  <2>2. read'["recovery"] = read["recovery"]
    BY <1>0, <1>3 DEF Subscribe, StartFails
  <2>3. PagesFollowOn'
    BY <1>0, <2>1, PagesKept
  <2>4. QED
    BY <2>1, <2>2, <2>3 DEF Held, HeldBack, HeldBackIsPursued
<1>4. CASE Started
  BY <1>4, StartedHeld
<1>5. QED
  BY <1>1, <1>2, <1>3, <1>4

(* A page closes gaps and opens none.                                      *)
LEMMA PageHeld ==
  ASSUME TypeOK, ReadInLog, ShownUpToDate, PagesFollowOn, Held, ReadsMove,
         NEW r \in Reads, PageArrives(r),
         stale /\ ~stale' => read'["refresh"] = Idle \/ read'["refresh"] = Paging(cursor')
  PROVE  /\ PagesFollowOn'
         /\ cursor' \in Nat /\ pending' \subseteq pending /\ \A p \in pending' : p > cursor'
         /\ cursor' >= target => pending' = {}
<1>1. /\ cursor' \in cursor..Len(log)
      /\ pending' \subseteq pending /\ \A p \in pending' : p > cursor'
  BY PageApplied
<1>2. cursor' \in Nat /\ cursor <= cursor'
  BY <1>1 DEF TypeOK
<1>3. PagesFollowOn'
  BY <1>2, PagesKept
<1>4. cursor' >= target => pending' = {}
  BY <1>1, <1>2 DEF Held, HeldBack, TypeOK
<1>5. QED
  BY <1>1, <1>2, <1>3, <1>4

LEMMA ReplaysHeld ==
  ASSUME TypeOK, ReadInLog, ShownUpToDate, PagesFollowOn, Held, ReadsMove,
         NEW r \in Reads, HostReads(r) \/ ListArrives(r) \/ NextPage(r)
  PROVE  PagesFollowOn' /\ Held'
<1>0. read \in [Reads -> Reading] /\ Reads = {"start", "recovery", "refresh"} /\ cursor \in Nat
  BY DEF TypeOK, Reads
<1>1. CASE HostReads(r)
  <2>1. read["recovery"].step = "none" <=> read'["recovery"].step = "none"
    BY <1>0, <1>1 DEF HostReads, Reading
  <2>2. QED
    BY <1>1, <2>1, QuietHeld DEF HostReads, projection, gap
<1>2. CASE ListArrives(r)
  <2>1. PICK n \in {0, cursor} : /\ read' = [read EXCEPT ![r] = Paging(n)]
                                 /\ r = "refresh" => n = cursor
    BY <1>2 DEF ListArrives
  <2>2. read["recovery"].step = "none" <=> read'["recovery"].step = "none"
    BY <1>0, <1>2, <2>1, PagingIs DEF ListArrives
  <2>3. UNCHANGED <<cursor, pending, phase, target, gapError>>
    BY <1>2 DEF ListArrives, Hydrate, gap
  <2>4. stale /\ ~stale' => read'["refresh"] = Paging(cursor')
    BY <1>0, <1>2, <2>1, <2>3 DEF ListArrives
  <2>5. QED
    BY <2>2, <2>3, <2>4, QuietHeld
<1>3. CASE NextPage(r)
  <2>1. /\ PageArrives(r) /\ UNCHANGED <<phase, target, gapError, stale>>
        /\ read' = [read EXCEPT ![r] = Paging(read[r].upTo)]
    BY <1>3 DEF NextPage, gap
  <2>2. /\ PagesFollowOn' /\ cursor' \in Nat
        /\ pending' \subseteq pending /\ \A p \in pending' : p > cursor'
    BY <2>1, PageHeld
  <2>3. read["recovery"].step = "none" <=> read'["recovery"].step = "none"
    <3>1. Paging(read[r].upTo).step = "paging" /\ read[r].step = "paged"
      BY <1>0, <2>1, PagingIs DEF PageArrives, Reading
    <3>2. QED
      BY <1>0, <2>1, <3>1
  <2>4. QED
    BY <2>1, <2>2, <2>3 DEF Held, HeldBack, HeldBackIsPursued
<1>4. QED
  BY <1>1, <1>2, <1>3

LEMMA LastPagesHeld ==
  ASSUME TypeOK, ReadInLog, ShownUpToDate, PagesFollowOn, StartCovers, Held, ReadsMove,
         LastPageOfStart \/ LastPageOfRecovery \/ LastPageOfRefresh \/ RecoveryReadFails
  PROVE  PagesFollowOn' /\ Held'
<1>0. /\ read \in [Reads -> Reading] /\ Reads = {"start", "recovery", "refresh"}
      /\ cursor \in Nat /\ target \in Nat
  BY DEF TypeOK, Reads
<1>1. CASE LastPageOfStart /\ phase # "started"
  <2>1. /\ PageArrives("start") /\ UNCHANGED <<target, gapError, stale>>
        /\ read'["recovery"] = read["recovery"] /\ phase' = "replayed"
    BY <1>0, <1>1 DEF LastPageOfStart, gap
  <2>2. PagesFollowOn' /\ pending' \subseteq pending
    BY <1>0, <2>1, PageHeld
  <2>3. QED
    BY <1>1, <2>1, <2>2 DEF Held, HeldBack, HeldBackIsPursued
<1>2. CASE LastPageOfRecovery \/ RecoveryReadFails
  <2>1. AttemptEnds(cursor') /\ UNCHANGED <<phase, stale>> /\ read["recovery"].step # "none"
    BY <1>2 DEF LastPageOfRecovery, RecoveryReadFails, AttemptEnds, Settle, projection, PageArrives
  <2>2. /\ PagesFollowOn' /\ cursor' \in Nat
        /\ pending' \subseteq pending /\ \A p \in pending' : p > cursor'
        /\ cursor' >= target => pending' = {}
    <3>1. CASE LastPageOfRecovery
      BY <1>0, <2>1, <3>1, PageHeld DEF LastPageOfRecovery
    <3>2. CASE RecoveryReadFails
      <4>1. UNCHANGED <<cursor, pending>>
        BY <3>2 DEF RecoveryReadFails, projection
      <4>2. PagesFollowOn'
        BY <1>0, <2>1, <4>1, PagesKept
      <4>3. cursor >= target => pending = {}
        BY <1>0 DEF Held, HeldBack, TypeOK
      <4>4. QED
        BY <1>0, <4>1, <4>2, <4>3 DEF Held, HeldBack
    <3>3. QED
      BY <1>2, <3>1, <3>2
  <2>3. /\ target' \in Nat
        /\ \/ cursor' >= target
           \/ target' = target /\ (read'["recovery"].step # "none" \/ gapError' # "none")
    BY <2>1, <2>2, AttemptMoves
  <2>4. phase' = "started"
    BY <2>1 DEF Held, HeldBack
  <2>5. QED
    BY <2>2, <2>3, <2>4 DEF Held, HeldBack, HeldBackIsPursued
<1>3. CASE LastPageOfRefresh
  <2>1. /\ Settle(cursor') /\ UNCHANGED phase
        /\ read'["recovery"] = read["recovery"] /\ read'["refresh"] = Idle
    BY <1>0, <1>3 DEF LastPageOfRefresh
  <2>2. /\ PagesFollowOn' /\ cursor' \in Nat
        /\ pending' \subseteq pending /\ \A p \in pending' : p > cursor'
        /\ cursor' >= target => pending' = {}
    <3>1. CASE PageArrives("refresh")
      BY <1>0, <2>1, <3>1, PageHeld
    <3>2. CASE UNCHANGED projection
      <4>1. UNCHANGED <<cursor, pending>>
        BY <3>2 DEF projection
      <4>2. PagesFollowOn'
        BY <1>0, <2>1, <4>1, PagesKept
      <4>3. cursor >= target => pending = {}
        BY <1>0 DEF Held, HeldBack, TypeOK
      <4>4. QED
        BY <1>0, <4>1, <4>2, <4>3 DEF Held, HeldBack
    <3>3. QED
      BY <1>3, <3>1, <3>2 DEF LastPageOfRefresh
  <2>3. cursor' >= target \/ (target' = target /\ gapError' = gapError)
    BY <2>1, <2>2, SettleIs
  <2>4. QED
    BY <2>1, <2>2, <2>3 DEF Held, HeldBack, HeldBackIsPursued
<1>4. LastPageOfStart => phase # "started"
  BY DEF LastPageOfStart, PageArrives, StartCovers
<1>5. QED
  BY <1>1, <1>2, <1>3, <1>4

LEMMA OthersHeld ==
  ASSUME TypeOK, PagesFollowOn, Held, ReadsMove,
         \/ Refresh \/ RefreshFails \/ ClearError
         \/ \E w \in Workspaces, own \in BOOLEAN : Commit(w, own)
  PROVE  PagesFollowOn' /\ Held'
<1>0. read \in [Reads -> Reading] /\ Reads = {"start", "recovery", "refresh"} /\ cursor \in Nat
  BY DEF TypeOK, Reads
<1>1. CASE Refresh \/ RefreshFails
  <2>1. /\ read'["recovery"] = read["recovery"]
        /\ stale' = stale \/ read'["refresh"] = Idle
    BY <1>0, <1>1 DEF Refresh, RefreshFails
  <2>2. QED
    BY <1>1, <2>1, QuietHeld DEF Refresh, RefreshFails, projection, gap
<1>2. CASE ClearError
  <2>1. UNCHANGED <<cursor, pending, target, phase, read, stale>> /\ gapError' # "none"
    BY <1>2 DEF ClearError, projection
  <2>2. PagesFollowOn'
    BY <1>0, <2>1, PagesKept
  <2>3. QED
    BY <2>1, <2>2 DEF Held, HeldBack, HeldBackIsPursued
<1>3. CASE \E w \in Workspaces, own \in BOOLEAN : Commit(w, own)
  BY <1>3, QuietHeld DEF Commit, projection, gap
<1>4. QED
  BY <1>1, <1>2, <1>3

LEMMA StepHeld ==
  ASSUME TypeOK, ReadInLog, ShownUpToDate, PagesFollowOn, StartCovers, Held, ReadsMove, Next
  PROVE  PagesFollowOn' /\ Held'
<1>1. DOMAIN read = Reads
  BY DEF TypeOK
<1>2. QED
  BY <1>1, EventsHeld, SessionHeld, ReplaysHeld, LastPagesHeld, OthersHeld DEF Next, Replays

(* A gap that is silenced after a step was silenced before it, unless the  *)
(* step is the user's: pages hold nothing new back, what holds more back   *)
(* starts a recovery, and a recovery ends caught up or with an error.      *)
LEMMA SilencedStays ==
  ASSUME IInv, IInv', Next, ~ClearError, Silenced'
  PROVE  Silenced
<1>0. /\ phase' = "started" /\ pending' # {} /\ read'["recovery"].step = "none"
      /\ gapError' # "raised" /\ gapError' # "none"
  BY DEF Silenced, IInv, HeldBackIsPursued
<1>1. /\ TypeOK /\ ReadInLog /\ ShownUpToDate /\ PagesFollowOn /\ StartCovers /\ Held /\ ReadsMove
      /\ read \in [Reads -> Reading] /\ Reads = {"start", "recovery", "refresh"}
      /\ cursor' \in Nat /\ target \in Nat
  <2>1. TypeOK /\ ReadInLog /\ ShownUpToDate /\ PagesFollowOn /\ StartCovers /\ Held
    BY DEF IInv, Held
  <2>2. ReadsMove /\ TypeOK'
    BY <2>1, StepTyped
  <2>3. cursor' \in Nat /\ target \in Nat
    BY <2>1, <2>2 DEF TypeOK
  <2>4. read \in [Reads -> Reading]
    BY <2>1 DEF TypeOK
  <2>5. QED
    BY <2>1, <2>2, <2>3, <2>4 DEF Reads
<1>2. SUFFICES /\ phase = "started" /\ pending' \subseteq pending
               /\ read["recovery"].step = "none" /\ gapError' = gapError
  BY <1>0 DEF Silenced
<1>3. CASE \E w \in Workspaces, own \in BOOLEAN : Commit(w, own)
  BY <1>0, <1>3 DEF Commit, projection, gap
<1>4. ASSUME NEW s \in wire, Lose(s) \/ Deliver(s)
      PROVE  /\ phase = "started" /\ pending' \subseteq pending
             /\ read["recovery"].step = "none" /\ gapError' = gapError
  <2>1. CASE LiveEvent(s)
    <3>1. pending' \subseteq pending /\ read' = read
      BY <1>0, <1>1, <2>1, LiveEventHeld
    <3>2. QED
      BY <1>0, <2>1, <3>1 DEF LiveEvent
  <2>2. CASE Lose(s) \/ Unheard(s) \/ Buffered(s)
    BY <1>0, <2>2 DEF Lose, Unheard, Buffered, projection, gap
  <2>3. QED
    BY <1>4, <2>1, <2>2 DEF Deliver
<1>5. ASSUME NEW s \in answers, Answered(s)
      PROVE  /\ phase = "started" /\ pending' \subseteq pending
             /\ read["recovery"].step = "none" /\ gapError' = gapError
  <2>1. UNCHANGED <<cursor, pending, phase, gapError>> /\ s \in Nat /\ cursor \in Nat
    BY <1>1, <1>5 DEF Answered, Hydrate, TypeOK
  <2>2. ~(s > cursor)
    <3>1. ASSUME s > cursor PROVE read'["recovery"].step # "none"
      BY <1>0, <1>1, <1>5, <2>1, <3>1, GapMoves DEF Answered
    <3>2. QED
      BY <1>0, <3>1
  <2>3. read' = read
    BY <1>5, <2>2 DEF Answered
  <2>4. QED
    BY <1>0, <2>1, <2>3
<1>6. ~(Start \/ Stop \/ Subscribe \/ StartFails \/ Started \/ LastPageOfStart)
  <2>1. ~Started
    BY <1>0, <1>1, StartedHeld
  <2>2. QED
    BY <1>0, <2>1 DEF Start, Stop, Subscribe, StartFails, LastPageOfStart
<1>7. ASSUME NEW r \in Reads, HostReads(r) \/ ListArrives(r) \/ NextPage(r)
      PROVE  /\ phase = "started" /\ pending' \subseteq pending
             /\ read["recovery"].step = "none" /\ gapError' = gapError
  <2>1. CASE HostReads(r)
    <3>1. read["recovery"].step = "none"
      BY <1>0, <1>1, <2>1 DEF HostReads, Reading
    <3>2. QED
      BY <1>0, <2>1, <3>1 DEF HostReads, projection, gap
  <2>2. CASE ListArrives(r)
    <3>1. PICK n \in Nat : read' = [read EXCEPT ![r] = Paging(n)]
      <4>1. 0 \in Nat /\ cursor \in Nat
        BY <1>1 DEF TypeOK
      <4>2. QED
        BY <2>2, <4>1 DEF ListArrives
    <3>2. read["recovery"].step = "none"
      BY <1>0, <1>1, <3>1, PagingIs
    <3>3. QED
      BY <1>0, <2>2, <3>2 DEF ListArrives, Hydrate, gap
  <2>3. CASE NextPage(r)
    <3>1. PageArrives(r) /\ UNCHANGED <<phase, gapError, stale>>
      BY <2>3 DEF NextPage, gap
    <3>2. pending' \subseteq pending
      BY <1>1, <3>1, PageHeld
    <3>3. read["recovery"].step = "none"
      <4>1. read[r].upTo \in Nat
        BY <1>1 DEF Reading
      <4>2. QED
        BY <1>0, <1>1, <2>3, <4>1, PagingIs DEF NextPage
    <3>4. QED
      BY <1>0, <3>1, <3>2, <3>3
  <2>4. QED
    BY <1>7, <2>1, <2>2, <2>3
<1>8. ~(LastPageOfRecovery \/ RecoveryReadFails)
  <2>1. ASSUME AttemptEnds(cursor') PROVE FALSE
    <3>1. Paging(cursor').step = "paging"
      BY <1>1, PagingIs
    <3>2. cursor' >= target => ~Settle(cursor')
      BY <1>0, <1>1 DEF Settle
    <3>3. QED
      BY <1>0, <1>1, <2>1, <3>1, <3>2 DEF AttemptEnds
  <2>2. QED
    BY <2>1 DEF LastPageOfRecovery, RecoveryReadFails, projection, AttemptEnds, Settle
<1>9. CASE LastPageOfRefresh
  <2>1. /\ gapError' = gapError /\ phase' = phase
        /\ read'["recovery"] = read["recovery"] /\ read'["refresh"] = Idle
    BY <1>0, <1>1, <1>9 DEF LastPageOfRefresh, Settle
  <2>2. pending' \subseteq pending
    <3>1. CASE PageArrives("refresh")
      BY <1>1, <2>1, <3>1, PageHeld
    <3>2. CASE UNCHANGED projection
      BY <3>2 DEF projection
    <3>3. QED
      BY <1>9, <3>1, <3>2 DEF LastPageOfRefresh
  <2>3. QED
    BY <1>0, <2>1, <2>2
<1>10. CASE Refresh \/ RefreshFails
  <2>1. read'["recovery"] = read["recovery"]
    BY <1>1, <1>10 DEF Refresh, RefreshFails
  <2>2. QED
    BY <1>0, <1>10, <2>1 DEF Refresh, RefreshFails, projection, gap
<1>11. DOMAIN read = Reads
  BY <1>1
<1>12. QED
  BY <1>3, <1>4, <1>5, <1>6, <1>7, <1>8, <1>9, <1>10, <1>11 DEF Next, Replays

-------------------------------------------------------------------------------
LEMMA InitHolds == Init => IInv
<1> SUFFICES ASSUME Init PROVE IInv
  OBVIOUS
<1>1. /\ log = <<>> /\ cursor = 0 /\ pending = {} /\ phase = "stopped"
      /\ shown = [w \in Workspaces |-> 0] /\ read = [r \in Reads |-> Idle]
  BY DEF Init, Reads
<1>2. Len(log) = 0 /\ log \in Seq(Workspaces) /\ Idle \in Reading
  BY <1>1 DEF Idle, Reading
<1>3. TypeOK
  <2>1. {} \subseteq 1..Len(log) /\ cursor \in 0..Len(log) /\ shown \in [Workspaces -> Nat]
    BY <1>1, <1>2
  <2>2. read \in [Reads -> Reading]
    BY <1>1, <1>2
  <2>3. wire = {} /\ lost = {} /\ answers = {} /\ buffer = {} /\ pending = {}
    BY DEF Init
  <2>4. /\ target \in Nat /\ gapError \in {"none", "raised", "dismissed"} /\ attempt \in Nat
        /\ stale \in BOOLEAN /\ starts \in Nat /\ phase \in Phases
    BY DEF Init, Phases
  <2>5. QED
    BY <1>2, <2>1, <2>2, <2>3, <2>4 DEF TypeOK
<1>4. ReadInLog /\ StartCovers /\ PagesFollowOn
  BY <1>1, <1>2 DEF ReadInLog, StartCovers, PagesFollowOn, Current, Idle, Reads
<1>5. ShownUpToDate
  <2>1. \A w : F!RevisionAt(0, w) = 0
    BY <1>2, <1>3, RevisionTyped
  <2>2. QED
    BY <1>1, <2>1 DEF ShownUpToDate
<1>6. NothingMissed /\ HeldBack /\ HeldBackIsPursued
  BY <1>1 DEF NothingMissed, HeldBack, HeldBackIsPursued, Idle, Reads
<1>7. QED
  BY <1>3, <1>4, <1>5, <1>6 DEF IInv

LEMMA StepHolds == IInv /\ [Next]_vars => IInv'
<1> SUFFICES ASSUME IInv, [Next]_vars PROVE IInv'
  OBVIOUS
<1>1. CASE Next
  <2>1. TypeOK' /\ ReadInLog' /\ ShownUpToDate' /\ ReadsMove
    BY <1>1, StepTyped DEF IInv
  <2>2. StartCovers' /\ NothingMissed'
    BY <1>1, StepCovers DEF IInv
  <2>3. PagesFollowOn' /\ Held'
    BY <1>1, <2>1, StepHeld DEF IInv, Held
  <2>4. QED
    BY <2>1, <2>2, <2>3 DEF IInv, Held
<1>2. CASE UNCHANGED vars
  BY <1>2 DEF vars, host, projection, gap, IInv, TypeOK, ReadInLog, ShownUpToDate,
     F!RevisionAt, StartCovers, FullPage, Applied, NothingMissed, PagesFollowOn, Current,
     HeldBack, HeldBackIsPursued
<1>3. QED
  BY <1>1, <1>2

(* The invariant of the client, by induction over its steps.               *)
THEOREM Invariance == Spec => []IInv
  BY InitHolds, StepHolds, PTL DEF Spec

(* Log, channel, projection and reads stay within their types: above all,  *)
(* the cursor never runs ahead of the log.                                 *)
THEOREM TypeCorrect == Spec => []TypeOK
<1>1. IInv => TypeOK
  BY DEF IInv
<1>2. QED
  BY <1>1, Invariance, PTL

(* A started client has missed nothing: every committed event is applied,  *)
(* held back, on its way or lost, however list, pages, buffer and live     *)
(* events interleave.                                                      *)
THEOREM MissesNothing == Spec => []NothingMissed
<1>1. IInv => NothingMissed
  BY DEF IInv
<1>2. QED
  BY <1>1, Invariance, PTL

(* Nothing but the user silences a gap.                                    *)
THEOREM SilencedByTheUser == Spec => SilencedOnlyByUser
<1>1. IInv /\ [Next]_vars /\ IInv' => [Silenced' => Silenced \/ ClearError]_vars
  BY SilencedStays
<1>2. QED
  BY <1>1, Invariance, StepHolds, PTL DEF Spec, SilencedOnlyByUser

(* The client follows the log in order, without omission or repetition,    *)
(* and never shows an older record for a newer one.                        *)
THEOREM FollowsFeed == Spec => ImplementsFeed
<1>1. Init => F!Init
  BY DEF Init, F!Init
<1>2. IInv /\ [Next]_vars => [F!Next]_F!vars
  <2> SUFFICES ASSUME IInv, [Next]_vars PROVE F!Next \/ UNCHANGED F!vars
    OBVIOUS
  <2>1. CASE Next
    BY <2>1, StepProjects, Simulation DEF IInv
  <2>2. CASE UNCHANGED vars
    BY <2>2 DEF vars, host, projection, F!vars
  <2>3. QED
    BY <2>1, <2>2
<1>3. QED
  BY <1>1, <1>2, Invariance, PTL DEF Spec, ImplementsFeed, F!Spec
==============================================================================
