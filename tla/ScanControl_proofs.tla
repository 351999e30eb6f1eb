----------------------- MODULE ScanControl_proofs -----------------------
(***************************************************************************)
(* The two sides of the switch that decides when scans happen: the         *)
(* controller that runs them and the watchers that ask for them.  They     *)
(* share no variable, so each part below is about one specification and    *)
(* says nothing of the other's steps.                                      *)
(***************************************************************************)
EXTENDS ScanController, LibraryWatchers, TLAPS

(***************************************************************************)
(* The controller: OneScan and StatusSettled for any number of folders,    *)
(* requests, changes and faults.                                           *)
(*                                                                         *)
(* Neither is inductive.  OneScan needs that the lock is held by exactly   *)
(* one call and that, until the server stops, a scan is only alive while   *)
(* its call is tracking it.  StatusSettled needs that the final status is  *)
(* already right between Report and Release, and OneScan itself: another   *)
(* scan would change the stored error behind the clients' back.            *)
(***************************************************************************)
Call(c) == c = [id |-> c.id, scope |-> c.scope, full |-> c.full, pc |-> c.pc, scan |-> c.scan,
                reads |-> c.reads]

\* The updates of a call, one field at a time and together.
PutPc(c, v) == [c EXCEPT !.pc = v]
PutScan(c, v) == [c EXCEPT !.scan = v]
PutReads(c, v) == [c EXCEPT !.reads = v]

LEMMA UpdateField ==
  ASSUME NEW c, Call(c), NEW v
  PROVE  /\ Call(PutPc(c, v)) /\ PutPc(c, v).pc = v /\ PutPc(c, v).scan = c.scan
         /\ Call(PutScan(c, v)) /\ PutScan(c, v).pc = c.pc /\ PutScan(c, v).scan = v
         /\ Call(PutReads(c, v)) /\ PutReads(c, v).pc = c.pc /\ PutReads(c, v).scan = c.scan
  BY DEF Call, PutPc, PutScan, PutReads

Shapes == /\ running \in BOOLEAN /\ shutdown \in BOOLEAN
          /\ \A c \in calls : Call(c) /\ (c.pc = "asked" => c.scan = "none")

\* The lock has exactly one holder, or is free.
Lock == /\ running <=> \E c \in calls : Holding(c)
        /\ \A c, d \in calls : Holding(c) /\ Holding(d) => c = d

\* A scan lives as long as its call tracks it.
Tracking == ~shutdown => \A c \in calls : Scanning(c) => c.pc = "tracking"

\* The final status stands from Report on.
Settled == ~shutdown /\ ~silent /\ (~running \/ \E c \in calls : c.pc = "releasing")
             => event = [scanning |-> FALSE, error |-> lastErr]

CInv == Shapes /\ Lock /\ Tracking /\ Settled

LEMMA CInvInit == Init => CInv
  BY DEF Init, CInv, Shapes, Lock, Tracking, Settled

\* A call c goes on as d and the lock stays as it is.
LEMMA Moves ==
  ASSUME CInv, NEW c \in calls, NEW d, Call(d), Becomes(c, d), UNCHANGED <<running, shutdown>>,
         d.pc # "asked", Holding(d) <=> Holding(c),
         ~shutdown /\ Scanning(d) => d.pc = "tracking"
  PROVE  Shapes' /\ Lock' /\ Tracking'
  <1>1. Shapes'
    BY DEF CInv, Shapes, Becomes
  <1>2. Lock'
    <2>1. (\E e \in calls : Holding(e)) <=> (\E e \in calls' : Holding(e))
      BY DEF Becomes
    <2>2. ASSUME NEW e1 \in calls', NEW e2 \in calls', Holding(e1), Holding(e2) PROVE e1 = e2
      BY <2>2 DEF CInv, Lock, Becomes
    <2> QED BY <2>1, <2>2 DEF CInv, Lock
  <1>3. Tracking'
    BY DEF CInv, Tracking, Becomes
  <1> QED BY <1>1, <1>2, <1>3

\* A call that holds nothing comes or goes.
LEMMA Comes ==
  ASSUME CInv, NEW d, Call(d), d.pc = "asked", d.scan = "none", calls' = calls \cup {d},
         UNCHANGED <<running, shutdown, silent, event, lastErr>>
  PROVE  CInv'
  <1>1. ~Holding(d) /\ ~Scanning(d)
    BY DEF Holding, Scanning
  <1>2. Shapes' /\ Tracking'
    BY <1>1 DEF CInv, Shapes, Tracking
  <1>3. Lock'
    BY <1>1 DEF CInv, Lock
  <1>4. Settled'
    BY DEF CInv, Settled
  <1> QED BY <1>2, <1>3, <1>4 DEF CInv

LEMMA Goes ==
  ASSUME CInv, NEW c \in calls, ~Holding(c), calls' = calls \ {c},
         UNCHANGED <<running, shutdown, silent, event, lastErr>>
  PROVE  CInv'
  <1>1. Shapes' /\ Tracking'
    BY DEF CInv, Shapes, Tracking
  <1>2. Lock'
    BY DEF CInv, Lock
  <1>3. Settled'
    BY DEF CInv, Settled
  <1> QED BY <1>1, <1>2, <1>3 DEF CInv

\* Nothing of the lock and the reports is touched.
LEMMA Idles ==
  ASSUME CInv, UNCHANGED <<calls, running, shutdown, silent, event, lastErr>>
  PROVE  CInv'
  BY DEF CInv, Shapes, Lock, Tracking, Settled

LEMMA EnterStep == ASSUME CInv, NEW c \in calls, Enter(c) PROVE CInv'
  <1>1. CASE Admit(c)
    <2> DEFINE d == PutScan(PutPc(c, "tracking"), "listing")
    <2>0. [c EXCEPT !.pc = "tracking", !.scan = "listing"] = d
      BY DEF PutPc, PutScan
    <2>1. /\ ~running /\ running' = TRUE /\ c.pc = "asked" /\ calls' = (calls \ {c}) \cup {d}
          /\ UNCHANGED shutdown
      BY <1>1, <2>0 DEF Enter, Admit, Becomes
    <2>2. Call(d) /\ d.pc = "tracking" /\ d.scan = "listing"
      BY UpdateField DEF CInv, Shapes
    <2>3. \A e \in calls : ~Holding(e)
      BY <2>1 DEF CInv, Lock
    <2>4. Shapes'
      BY <2>1, <2>2 DEF CInv, Shapes
    <2>5. Lock'
      BY <2>1, <2>2, <2>3 DEF Lock, Holding
    <2>6. Tracking'
      BY <2>1, <2>2 DEF CInv, Tracking
    <2>7. Settled'
      BY <2>1, <2>2, <2>3 DEF Settled, Holding
    <2> QED BY <2>4, <2>5, <2>6, <2>7 DEF CInv
  <1>2. CASE ~Admit(c)
    BY <1>2, Goes DEF Enter, Holding
  <1> QED BY <1>1, <1>2

\* The scan's own steps.
LEMMA ScanStep ==
  ASSUME CInv, NEW c \in calls, ScanLists(c) \/ ScanSucceeds(c) \/ ScanFails(c) PROVE CInv'
  <1>1. PICK d : /\ Becomes(c, d) /\ Call(d) /\ d.pc = c.pc
                 /\ Scanning(d) => Scanning(c)
    <2>1. /\ Call(c)
          /\ \A v, u : LET d == PutReads(PutScan(c, v), u) IN Call(d) /\ d.pc = c.pc /\ d.scan = v
      BY UpdateField DEF CInv, Shapes
    <2>2. CASE ScanLists(c)
      <3>1. CASE Becomes(c, PutReads(PutScan(c, "busy"), dirty \cap known \cap c.scope))
        BY <2>1, <2>2, <3>1 DEF ScanLists, Scanning
      <3>2. CASE Becomes(c, PutScan(c, "warned"))
        BY <2>1, <2>2, <3>2, UpdateField DEF ScanLists, Scanning
      <3>3. /\ [c EXCEPT !.scan = "busy", !.reads = dirty \cap known \cap c.scope]
                 = PutReads(PutScan(c, "busy"), dirty \cap known \cap c.scope)
            /\ [c EXCEPT !.scan = "warned"] = PutScan(c, "warned")
        BY DEF PutScan, PutReads
      <3> QED BY <2>2, <3>1, <3>2, <3>3 DEF ScanLists
    <2>3. CASE ScanSucceeds(c)
      <3>0. [c EXCEPT !.scan = "ok", !.reads = {}] = PutReads(PutScan(c, "ok"), {})
        BY DEF PutScan, PutReads
      <3>1. Becomes(c, PutReads(PutScan(c, "ok"), {}))
        BY <2>3, <3>0 DEF ScanSucceeds
      <3> QED BY <2>1, <3>1 DEF Scanning
    <2>4. CASE ScanFails(c)
      <3>0. [c EXCEPT !.scan = "failed", !.reads = {}] = PutReads(PutScan(c, "failed"), {})
        BY DEF PutScan, PutReads
      <3>1. Becomes(c, PutReads(PutScan(c, "failed"), {}))
        BY <2>4, <3>0 DEF ScanFails
      <3> QED BY <2>1, <3>1 DEF Scanning
    <2> QED BY <2>2, <2>3, <2>4
  <1>2. /\ c.scan \in {"listing", "busy"} /\ UNCHANGED <<running, shutdown, event, silent>>
        /\ (ScanLists(c) => UNCHANGED lastErr)
    BY DEF ScanLists, ScanSucceeds, ScanFails, reportVars
  <1>3. c.pc # "asked" /\ (~shutdown => c.pc = "tracking")
    BY <1>2 DEF CInv, Shapes, Tracking, Scanning
  <1>4. Shapes' /\ Lock' /\ Tracking'
    BY <1>1, <1>2, <1>3, Moves DEF Holding
  <1>5. Settled'
    <2>1. SUFFICES ASSUME ~shutdown PROVE ~(~running' \/ \E e \in calls' : e.pc = "releasing")
      BY <1>2 DEF Settled
    <2>2. Holding(c) /\ running
      BY <1>3, <2>1 DEF CInv, Lock, Holding
    <2>3. \A e \in calls : e.pc = "releasing" => e = c
      BY <2>2 DEF CInv, Lock, Holding
    <2> QED BY <1>1, <1>2, <1>3, <2>1, <2>2, <2>3 DEF Becomes
  <1> QED BY <1>4, <1>5 DEF CInv

LEMMA ProgressStep == ASSUME CInv, NEW c \in calls, Progress(c) PROVE CInv'
  <1>1. c.pc = "tracking" /\ UNCHANGED <<calls, running, shutdown, silent, lastErr>>
    BY DEF Progress
  <1>2. Holding(c) /\ running
    BY <1>1 DEF CInv, Lock, Holding
  <1>3. ~\E e \in calls : e.pc = "releasing"
    BY <1>1, <1>2 DEF CInv, Lock, Holding
  <1>4. Settled'
    BY <1>1, <1>2, <1>3 DEF Settled
  <1>5. Shapes' /\ Lock' /\ Tracking'
    BY <1>1 DEF CInv, Shapes, Lock, Tracking
  <1> QED BY <1>4, <1>5 DEF CInv

LEMMA ReportStep == ASSUME CInv, NEW c \in calls, Report(c) PROVE CInv'
  <1> DEFINE d == [c EXCEPT !.pc = "releasing"]
  <1>1. /\ c.pc = "tracking" /\ Tracked(c) /\ Becomes(c, d) /\ UNCHANGED <<running, shutdown>>
        /\ lastErr' = StoredError(c)
    BY DEF Report
  <1>2. Call(d) /\ d.pc = "releasing" /\ d.scan = c.scan
    BY DEF CInv, Shapes, Call
  <1>3. ~shutdown => ~Scanning(d)
    BY <1>1, <1>2 DEF Tracked, Scanning
  <1>4. Shapes' /\ Lock' /\ Tracking'
    BY <1>1, <1>2, <1>3, Moves DEF Holding
  <1>5. Settled'
    <2>1. ~shutdown /\ ~silent' => event' = FinalStatus(c)
      BY DEF Report
    <2> QED BY <1>1, <2>1 DEF Settled, FinalStatus
  <1> QED BY <1>4, <1>5 DEF CInv

LEMMA ReleaseStep == ASSUME CInv, NEW c \in calls, Release(c) PROVE CInv'
  <1>1. /\ c.pc = "releasing" /\ running' = FALSE /\ UNCHANGED <<shutdown, event, silent, lastErr>>
    BY DEF Release, reportVars
  <1>2. \A e \in calls : Holding(e) => e = c
    BY <1>1 DEF CInv, Lock, Holding
  <1>3. Settled'
    BY <1>1 DEF CInv, Settled
  <1>4. CASE Scanning(c)
    <2> DEFINE d == [c EXCEPT !.pc = "returned"]
    <2>1. Becomes(c, d)
      BY <1>4 DEF Release
    <2>2. Call(d) /\ d.pc = "returned" /\ d.scan = c.scan
      BY DEF CInv, Shapes, Call
    <2>3. shutdown
      BY <1>1, <1>4 DEF CInv, Shapes, Tracking
    <2>4. Shapes' /\ Tracking'
      BY <1>1, <2>1, <2>2, <2>3 DEF CInv, Shapes, Tracking, Becomes
    <2>5. Lock'
      BY <1>1, <1>2, <2>1, <2>2 DEF Lock, Holding, Becomes
    <2> QED BY <1>3, <2>4, <2>5 DEF CInv
  <1>5. CASE ~Scanning(c)
    <2>1. calls' = calls \ {c}
      BY <1>5 DEF Release
    <2>2. Shapes' /\ Tracking'
      BY <1>1, <2>1 DEF CInv, Shapes, Tracking
    <2>3. Lock'
      BY <1>1, <1>2, <2>1 DEF Lock
    <2> QED BY <1>3, <2>2, <2>3 DEF CInv
  <1> QED BY <1>4, <1>5

LEMMA CallInv == ASSUME CInv, NEW c \in calls, CallStep(c) PROVE CInv'
  <1>1. CASE Abandoned(c)
    BY <1>1, Goes DEF Abandoned, Holding, reportVars
  <1> QED BY <1>1, EnterStep, ScanStep, ProgressStep, ReportStep, ReleaseStep DEF CallStep

\* The askers.
LEMMA AskStep ==
  ASSUME CInv, NEW scope, NEW full, Ask(scope, full),
         UNCHANGED <<running, shutdown, silent, event, lastErr>>
  PROVE  CInv'
  <1>1. Call(NewCall(scope, full)) /\ NewCall(scope, full).pc = "asked" /\ NewCall(scope, full).scan = "none"
    BY DEF NewCall, Call
  <1> QED BY <1>1, Comes DEF Ask

LEMMA WorldInv ==
  ASSUME CInv,
         \/ \E f \in Folder : Receive(f) \/ SaveLibrary(f) \/ Change(f)
         \/ TriggerFires
         \/ \E scope \in SUBSET Folder, full \in BOOLEAN : AskScan(scope, full)
         \/ ReadFlag \/ \E needed, full \in BOOLEAN : InitialScan(needed, full)
         \/ Shutdown
  PROVE  CInv'
  <1>1. ASSUME NEW f \in Folder, Receive(f) PROVE CInv'
    BY <1>1, Idles DEF Receive, reportVars
  <1>2. ASSUME NEW f \in Folder, SaveLibrary(f) PROVE CInv'
    BY <1>2, AskStep DEF SaveLibrary, reportVars
  <1>3. ASSUME NEW f \in Folder, Change(f) PROVE CInv'
    <2> DEFINE m(c) == PutReads(c, c.reads \ {f})
    <2>1. calls' = {m(c) : c \in calls} /\ UNCHANGED <<running, shutdown, silent, event, lastErr>>
      BY <1>3 DEF Change, reportVars, PutReads
    <2>2. \A c \in calls : Call(m(c)) /\ m(c).pc = c.pc /\ m(c).scan = c.scan
      BY UpdateField DEF CInv, Shapes
    <2>3. \A c \in calls : (Holding(m(c)) <=> Holding(c)) /\ (Scanning(m(c)) <=> Scanning(c))
      BY <2>2 DEF Holding, Scanning
    <2> HIDE DEF m
    <2>4. Shapes' /\ Tracking'
      BY <2>1, <2>2, <2>3 DEF CInv, Shapes, Tracking
    <2>5. Lock'
      BY <2>1, <2>3 DEF CInv, Lock
    <2>6. Settled'
      BY <2>1, <2>2 DEF CInv, Settled
    <2> QED BY <2>4, <2>5, <2>6 DEF CInv
  <1>4. CASE TriggerFires
    BY <1>4, AskStep, Idles DEF TriggerFires, reportVars
  <1>5. ASSUME NEW scope \in SUBSET Folder, NEW full \in BOOLEAN, AskScan(scope, full) PROVE CInv'
    BY <1>5, AskStep DEF AskScan, reportVars
  <1>6. CASE ReadFlag
    BY <1>6, Idles DEF ReadFlag, reportVars
  <1>7. ASSUME NEW needed \in BOOLEAN, NEW full \in BOOLEAN, InitialScan(needed, full) PROVE CInv'
    BY <1>7, AskStep, Idles DEF InitialScan, reportVars
  <1>8. CASE Shutdown
    BY <1>8 DEF Shutdown, CInv, Shapes, Lock, Tracking, Settled, reportVars
  <1> QED BY <1>1, <1>2, <1>3, <1>4, <1>5, <1>6, <1>7, <1>8

LEMMA CInvStep == CInv /\ [Next]_vars => CInv'
  <1> SUFFICES ASSUME CInv, [Next]_vars PROVE CInv'
    OBVIOUS
  <1>1. CASE UNCHANGED vars
    BY <1>1, Idles DEF vars, reportVars
  <1>2. CASE Next
    BY <1>2, CallInv, WorldInv DEF Next
  <1> QED BY <1>1, <1>2

LEMMA CInvAlways == Spec => []CInv
  BY CInvInit, CInvStep, PTL DEF Spec

\* However many callers ask at once, and however scans fail: one scan at a time,
\* and never one that the lock does not show, until the server stops.
THEOREM OneScanCorrect == Spec => []OneScan
  <1>1. CInv => OneScan
    BY DEF CInv, Lock, Tracking, OneScan, Holding
  <1> QED BY <1>1, CInvAlways, PTL

\* What ScanFolders broadcast last is what Status answers between scans.
THEOREM StatusSettledCorrect == Spec => []StatusSettled
  <1>1. CInv => StatusSettled
    BY DEF CInv, Settled, StatusSettled
  <1> QED BY <1>1, CInvAlways, PTL

-----------------------------------------------------------------------------
(* Types: a scan owes nothing but changes nobody else has read, since no other *)
(* scan can succeed while it lives.                                            *)

Folders == known \subseteq Folder /\ dirty \subseteq known /\ events \subseteq known /\ targets \subseteq known

CallOK(c) == /\ Call(c) /\ c.scope \subseteq Folder
             /\ c.reads \subseteq dirty /\ (c.scan # "busy" => c.reads = {})
             /\ c.pc = "asked" <=> c.scan = "none"

TInv == Folders /\ \A c \in calls : CallOK(c)

LEMMA UpdateRest ==
  ASSUME NEW c, Call(c), NEW v
  PROVE  /\ PutPc(c, v).scope = c.scope /\ PutPc(c, v).reads = c.reads
         /\ PutScan(c, v).scope = c.scope /\ PutScan(c, v).reads = c.reads
         /\ PutReads(c, v).scope = c.scope /\ PutReads(c, v).reads = v
  BY DEF Call, PutPc, PutScan, PutReads

\* A call goes on as d; no change is taken away from under another call.
LEMMA MovesTyped ==
  ASSUME TInv, NEW c \in calls, NEW d, calls' = (calls \ {c}) \cup {d}, CallOK(d), UNCHANGED <<diskVars, watchVars>>
  PROVE  TInv'
  BY DEF TInv, Folders, CallOK, diskVars, watchVars

LEMMA AskTyped ==
  ASSUME TInv, NEW scope \in SUBSET Folder, NEW full, Ask(scope, full),
         Folders', dirty \subseteq dirty'
  PROVE  TInv'
  <1> DEFINE d == NewCall(scope, full)
  <1>1. /\ Call(d) /\ d.scope = scope /\ d.reads = {} /\ d.pc = "asked" /\ d.scan = "none"
    BY DEF NewCall, Call
  <1>2. calls' = calls \cup {d}
    BY DEF Ask
  <1> HIDE DEF d
  <1> QED BY <1>1, <1>2 DEF TInv, CallOK

LEMMA CallTyped ==
  ASSUME CInv, TInv, NEW c \in calls, CallStep(c)
  PROVE  TInv'
  <1>0. CallOK(c) /\ Call(c)
    BY DEF TInv, CallOK
  <1>1. CASE Enter(c)
    <2> DEFINE d == PutScan(PutPc(c, "tracking"), "listing")
    <2>0. [c EXCEPT !.pc = "tracking", !.scan = "listing"] = d
      BY DEF PutPc, PutScan
    <2>1. UNCHANGED <<diskVars, watchVars>> /\ c.pc = "asked"
      BY <1>1 DEF Enter
    <2>2. Call(d) /\ d.pc = "tracking" /\ d.scan = "listing" /\ d.scope = c.scope /\ d.reads = c.reads
      BY <1>0, UpdateField, UpdateRest
    <2>3. CallOK(d)
      BY <1>0, <2>1, <2>2 DEF CallOK
    <2>4. calls' = (calls \ {c}) \cup {d} \/ calls' = calls \ {c}
      BY <1>1, <2>0 DEF Enter, Becomes
    <2> HIDE DEF d
    <2> QED BY <2>1, <2>3, <2>4, MovesTyped DEF TInv, Folders, CallOK, diskVars, watchVars
  <1>2. CASE ScanLists(c)
    <2> DEFINE R == dirty \cap known \cap c.scope
               d == PutReads(PutScan(c, "busy"), R)
               e == PutScan(c, "warned")
    <2>0. [c EXCEPT !.scan = "busy", !.reads = R] = d /\ [c EXCEPT !.scan = "warned"] = e
      BY DEF PutScan, PutReads
    <2>1. UNCHANGED <<diskVars, watchVars>> /\ c.scan = "listing"
      BY <1>2 DEF ScanLists
    <2>2. /\ Call(d) /\ d.pc = c.pc /\ d.scan = "busy" /\ d.scope = c.scope /\ d.reads = R
          /\ Call(e) /\ e.pc = c.pc /\ e.scan = "warned" /\ e.scope = c.scope /\ e.reads = c.reads
      BY <1>0, UpdateField, UpdateRest
    <2>3. CallOK(d) /\ CallOK(e)
      BY <1>0, <2>1, <2>2 DEF CallOK
    <2>4. calls' = (calls \ {c}) \cup {d} \/ calls' = (calls \ {c}) \cup {e}
      BY <1>2, <2>0 DEF ScanLists, Becomes
    <2> HIDE DEF d, e
    <2> QED BY <2>1, <2>3, <2>4, MovesTyped
  <1>3. CASE ScanSucceeds(c)
    <2> DEFINE d == PutReads(PutScan(c, "ok"), {})
    <2>0. [c EXCEPT !.scan = "ok", !.reads = {}] = d
      BY DEF PutScan, PutReads
    <2>1. /\ c.scan = "busy" /\ ~shutdown /\ dirty' = dirty \ c.reads /\ UNCHANGED <<known, events, targets>>
          /\ calls' = (calls \ {c}) \cup {d}
      BY <1>3, <2>0 DEF ScanSucceeds, Becomes, watchVars
    <2>2. Call(d) /\ d.pc = c.pc /\ d.scan = "ok" /\ d.scope = c.scope /\ d.reads = {}
      BY <1>0, UpdateField, UpdateRest
    <2>3. \A e \in calls : e # c => e.reads = {}
      BY <2>1 DEF CInv, Lock, Tracking, Holding, Scanning, TInv, CallOK
    <2>4. CallOK(d)'
      BY <1>0, <2>1, <2>2 DEF CallOK, Call
    <2> HIDE DEF d
    <2>5. ASSUME NEW e \in calls', e # d PROVE CallOK(e)'
      BY <2>1, <2>3, <2>5 DEF TInv, CallOK, Call
    <2>6. Folders'
      BY <2>1 DEF TInv, Folders
    <2> QED BY <2>4, <2>5, <2>6 DEF TInv
  <1>4. CASE ScanFails(c)
    <2> DEFINE d == PutReads(PutScan(c, "failed"), {})
    <2>0. [c EXCEPT !.scan = "failed", !.reads = {}] = d
      BY DEF PutScan, PutReads
    <2>1. UNCHANGED <<diskVars, watchVars>> /\ c.scan = "busy" /\ calls' = (calls \ {c}) \cup {d}
      BY <1>4, <2>0 DEF ScanFails, Becomes
    <2>2. Call(d) /\ d.pc = c.pc /\ d.scan = "failed" /\ d.scope = c.scope /\ d.reads = {}
      BY <1>0, UpdateField, UpdateRest
    <2>3. CallOK(d)
      BY <1>0, <2>1, <2>2 DEF CallOK
    <2> HIDE DEF d
    <2> QED BY <2>1, <2>3, MovesTyped
  <1>5. CASE Progress(c)
    BY <1>5 DEF Progress, TInv, Folders, CallOK, diskVars, watchVars
  <1>6. CASE Report(c) \/ Release(c)
    <2> DEFINE d(v) == PutPc(c, v)
    <2>1. /\ UNCHANGED <<diskVars, watchVars>> /\ c.pc # "asked"
          /\ \/ calls' = (calls \ {c}) \cup {d("releasing")}
             \/ calls' = (calls \ {c}) \cup {d("returned")}
             \/ calls' = calls \ {c}
      BY <1>6 DEF Report, Release, Becomes, PutPc
    <2>2. \A v : Call(d(v)) /\ d(v).pc = v /\ d(v).scan = c.scan /\ d(v).scope = c.scope /\ d(v).reads = c.reads
      BY <1>0, UpdateField, UpdateRest
    <2>3. CallOK(d("releasing")) /\ CallOK(d("returned"))
      BY <1>0, <2>1, <2>2 DEF CallOK
    <2> HIDE DEF d
    <2> QED BY <2>1, <2>3, MovesTyped DEF TInv, Folders, CallOK, diskVars, watchVars
  <1>7. CASE Abandoned(c)
    BY <1>7 DEF Abandoned, TInv, Folders, CallOK, diskVars, watchVars
  <1> QED BY <1>1, <1>2, <1>3, <1>4, <1>5, <1>6, <1>7 DEF CallStep

LEMMA TInvStep == CInv /\ TInv /\ [Next]_vars => TInv'
  <1> SUFFICES ASSUME CInv, TInv, [Next]_vars PROVE TInv'
    OBVIOUS
  <1>0. ASSUME calls' = calls, dirty' = dirty, Folders' PROVE TInv'
    BY <1>0 DEF TInv, CallOK
  <1>1. ASSUME NEW f \in Folder, Receive(f) PROVE TInv'
    BY <1>0, <1>1 DEF Receive, TInv, Folders, diskVars
  <1>2. ASSUME NEW f \in Folder, SaveLibrary(f) PROVE TInv'
    <2>1. Folders' /\ dirty \subseteq dirty' /\ Ask(Folder, FALSE)
      BY <1>2 DEF SaveLibrary, TInv, Folders, watchVars
    <2> QED BY <2>1, AskTyped
  <1>3. ASSUME NEW f \in Folder, Change(f) PROVE TInv'
    <2> DEFINE m(c) == PutReads(c, c.reads \ {f})
    <2>1. calls' = {m(c) : c \in calls} /\ dirty' = dirty \cup {f}
      BY <1>3 DEF Change, PutReads
    <2>2. \A c \in calls : /\ Call(m(c)) /\ m(c).pc = c.pc /\ m(c).scan = c.scan
                           /\ m(c).scope = c.scope /\ m(c).reads = c.reads \ {f}
      BY UpdateField, UpdateRest DEF TInv, CallOK
    <2> HIDE DEF m
    <2>3. \A c \in calls : CallOK(m(c))'
      BY <2>1, <2>2 DEF TInv, CallOK
    <2>4. Folders'
      BY <1>3 DEF Change, TInv, Folders
    <2> QED BY <2>1, <2>3, <2>4 DEF TInv
  <1>4. CASE TriggerFires
    <2>1. Folders' /\ dirty' = dirty
      BY <1>4 DEF TriggerFires, TInv, Folders, diskVars
    <2>2. calls' = calls \/ Ask(IF Selective THEN targets ELSE Folder, FALSE)
      BY <1>4 DEF TriggerFires
    <2>3. (IF Selective THEN targets ELSE Folder) \in SUBSET Folder
      BY DEF TInv, Folders
    <2> QED BY <1>0, <2>1, <2>2, <2>3, AskTyped
  <1>5. ASSUME NEW scope \in SUBSET Folder, NEW full \in BOOLEAN, AskScan(scope, full) PROVE TInv'
    BY <1>5, AskTyped DEF AskScan, TInv, Folders, diskVars, watchVars
  <1>6. CASE ReadFlag
    BY <1>0, <1>6 DEF ReadFlag, TInv, Folders, diskVars, watchVars
  <1>7. ASSUME NEW needed \in BOOLEAN, NEW full \in BOOLEAN, InitialScan(needed, full) PROVE TInv'
    <2>1. Folders' /\ dirty' = dirty
      BY <1>7 DEF InitialScan, TInv, Folders, diskVars, watchVars
    <2>2. calls' = calls \/ \E b : Ask(Folder, b)
      BY <1>7 DEF InitialScan
    <2> QED BY <1>0, <2>1, <2>2, AskTyped
  <1>8. CASE Shutdown
    BY <1>0, <1>8 DEF Shutdown, TInv, Folders, diskVars, watchVars
  <1>9. CASE UNCHANGED vars
    BY <1>0, <1>9 DEF vars, TInv, Folders, diskVars, watchVars
  <1> QED BY <1>1, <1>2, <1>3, <1>4, <1>5, <1>6, <1>7, <1>8, <1>9, CallTyped DEF Next

\* The state is well formed in every behaviour: a scan owes only changes still unread,
\* and the lock is held exactly while some call will release it.
THEOREM TypeCorrect == Spec => []TypeOK
  <1>1. Init => TInv
    BY ControllerAssumption DEF Init, TInv, Folders
  <1>2. CInv /\ TInv => TypeOK
    BY DEF CInv, Lock, TInv, Folders, CallOK, TypeOK
  <1> QED BY <1>1, <1>2, TInvStep, CInvAlways, PTL DEF Spec

-----------------------------------------------------------------------------
(***************************************************************************)
(* The watchers: none is ever left behind, none is listed that is gone,    *)
(* and libraries are watched where their rows say, for any number of       *)
(* libraries, sessions, calls and watchers.                                *)
(*                                                                         *)
(* The first two need each other, and the facts that make the              *)
(* goroutine's clean-up safe: a listed instance is listed with the library *)
(* it was started for, and a new instance's number has not been used.      *)
(***************************************************************************)
WatcherShapes ==
  /\ count \in 0..MaxInstances /\ live \subseteq 1..count /\ dead \subseteq 1..count
  /\ watchers \in [Library -> 0..count]
  /\ inst = [i \in Instance |-> inst[i]]
  /\ call = [s \in Session |-> call[s]]

\* Calls are about libraries.
CallsKnown == \A s \in Session : call[s] # Idle => call[s].lib \in Library

\* Instances belong to a library, and are listed with that one.
OwnLibrary ==
  /\ \A i \in 1..count : inst[i].lib \in Library
  /\ \A l \in Library : watchers[l] # 0 => inst[watchers[l]].lib = l

WInv == WatcherShapes /\ CallsKnown /\ OwnLibrary /\ NoLeakedWatcher /\ ListedIsLive

LEMMA WInvInit == WatchersInit => WInv
  BY WatchersAssumption
  DEF WatchersInit, WInv, WatcherShapes, CallsKnown, OwnLibrary, NoLeakedWatcher, ListedIsLive, Idle

\* The watchers are as they were.
LEMMA Untouched ==
  ASSUME WInv, UNCHANGED <<watchers, instVars>>, run = "ended" => run' = "ended",
         call' = [s \in Session |-> call'[s]], CallsKnown'
  PROVE  WInv'
  <1>1. UNCHANGED <<watchers, inst, count, live, dead>>
    BY DEF instVars
  <1>2. WatcherShapes'
    BY <1>1 DEF WInv, WatcherShapes
  <1>3. OwnLibrary'
    BY <1>1 DEF WInv, OwnLibrary
  <1>4. NoLeakedWatcher'
    BY <1>1 DEF WInv, NoLeakedWatcher
  <1>5. ListedIsLive'
    BY <1>1 DEF WInv, ListedIsLive
  <1> QED BY <1>2, <1>3, <1>4, <1>5 DEF WInv

LEMMA WatchKeeps ==
  ASSUME WInv, NEW l \in Library, NEW p, Watch(l, p), UNCHANGED run,
         call' = [s \in Session |-> call'[s]], CallsKnown'
  PROVE  WInv'
  <1>1. CASE run = "off"
    BY <1>1, Untouched DEF Watch
  <1>2. CASE run # "off"
    <2> DEFINE n == count + 1
    <2>1. /\ count < MaxInstances /\ count' = n /\ live' = live \cup {n}
          /\ inst' = [inst EXCEPT ![n] = [lib |-> l, path |-> p]]
          /\ dead' = CancelOf(l) \cup (IF run = "ended" THEN {n} ELSE {})
          /\ watchers' = [watchers EXCEPT ![l] = n]
      BY <1>2 DEF Watch
    <2>2. /\ count \in Nat /\ n \in Nat /\ n \in Instance /\ n \notin 1..count /\ 1..n = (1..count) \cup {n}
          /\ 0..count \subseteq 0..n /\ n # 0
      BY <2>1, WatchersAssumption DEF WInv, WatcherShapes, Instance
    <2>3. /\ \A i \in 1..count : inst'[i] = inst[i]
          /\ inst'[n].lib = l
      BY <2>1, <2>2, WatchersAssumption DEF WInv, WatcherShapes, Instance
    <2>4. /\ \A k \in Library : watchers'[k] = IF k = l THEN n ELSE watchers[k]
          /\ \A k \in Library : watchers[k] \in 0..count
      BY <2>1 DEF WInv, WatcherShapes
    <2> HIDE DEF n
    <2>5. CancelOf(l) = dead \cup ({watchers[l]} \ {0}) /\ CancelOf(l) \subseteq 1..count
      BY <2>2, <2>4 DEF CancelOf, WInv, WatcherShapes
    <2>6. WatcherShapes'
      <3>1. count' \in 0..MaxInstances /\ live' \subseteq 1..n /\ dead' \subseteq 1..n
        BY <2>1, <2>2, <2>5, WatchersAssumption DEF WInv, WatcherShapes, Instance
      <3>2. watchers' \in [Library -> 0..n]
        BY <2>1, <2>2 DEF WInv, WatcherShapes
      <3> QED BY <2>1, <3>1, <3>2 DEF WInv, WatcherShapes
    <2>7. OwnLibrary'
      BY <2>1, <2>2, <2>3, <2>4 DEF WInv, OwnLibrary
    <2>8. NoLeakedWatcher'
      BY <2>1, <2>2, <2>3, <2>4, <2>5 DEF WInv, WatcherShapes, OwnLibrary, NoLeakedWatcher
    <2>9. ListedIsLive'
      <3> SUFFICES ASSUME NEW k \in Library, watchers'[k] # 0
                   PROVE  watchers'[k] \in live' /\ (run # "ended" => watchers'[k] \notin dead')
        BY DEF ListedIsLive
      <3>1. CASE k = l
        BY <2>1, <2>2, <2>4, <2>5, <3>1
      <3>2. CASE k # l
        <4>1. watchers'[k] = watchers[k] /\ inst[watchers[k]].lib = k /\ watchers[k] \in live
          BY <2>4, <3>2 DEF WInv, OwnLibrary, ListedIsLive
        <4>2. watchers[l] # 0 => watchers[l] # watchers[k]
          BY <3>2, <4>1 DEF WInv, OwnLibrary
        <4> QED BY <2>1, <2>5, <4>1, <4>2 DEF WInv, ListedIsLive
      <3> QED BY <3>1, <3>2
    <2> QED BY <2>6, <2>7, <2>8, <2>9 DEF WInv
  <1> QED BY <1>1, <1>2

LEMMA StopKeeps ==
  ASSUME WInv, NEW l \in Library, StopWatching(l), UNCHANGED run,
         call' = [s \in Session |-> call'[s]], CallsKnown'
  PROVE  WInv'
  <1>1. /\ dead' = dead \cup ({watchers[l]} \ {0}) /\ watchers' = [watchers EXCEPT ![l] = 0]
        /\ UNCHANGED <<inst, count, live, gaveUp>>
    BY DEF StopWatching, CancelOf
  <1>2. WatcherShapes'
    BY <1>1 DEF WInv, WatcherShapes
  <1>3. \A k \in Library : watchers'[k] = IF k = l THEN 0 ELSE watchers[k]
    BY <1>1 DEF WInv, WatcherShapes
  <1>4. OwnLibrary'
    BY <1>1, <1>3 DEF WInv, OwnLibrary
  <1>5. NoLeakedWatcher'
    BY <1>1, <1>3 DEF WInv, WatcherShapes, OwnLibrary, NoLeakedWatcher
  <1>6. ListedIsLive'
    BY <1>1, <1>3 DEF WInv, OwnLibrary, ListedIsLive
  <1> QED BY <1>2, <1>4, <1>5, <1>6 DEF WInv

LEMMA EndsKeeps == ASSUME WInv, NEW i \in Instance, InstanceEnds(i) PROVE WInv'
  <1>1. /\ i \in live /\ live' = live \ {i} /\ watchers' = Forget(i)
        /\ UNCHANGED <<inst, count, dead, run, call>>
    BY DEF InstanceEnds
  <1>2. i \in 1..count /\ inst[i].lib \in Library
    BY <1>1 DEF WInv, WatcherShapes, OwnLibrary
  <1>3. \A k \in Library : watchers'[k] = IF watchers[k] = i THEN 0 ELSE watchers[k]
    BY <1>1, <1>2 DEF Forget, WInv, WatcherShapes, OwnLibrary
  <1>4. WatcherShapes' /\ CallsKnown'
    BY <1>1, <1>2 DEF WInv, WatcherShapes, Forget, CallsKnown
  <1>5. OwnLibrary'
    BY <1>1, <1>3 DEF WInv, OwnLibrary
  <1>6. NoLeakedWatcher'
    BY <1>1, <1>3 DEF WInv, WatcherShapes, OwnLibrary, NoLeakedWatcher
  <1>7. ListedIsLive'
    BY <1>1, <1>3 DEF WInv, ListedIsLive
  <1> QED BY <1>4, <1>5, <1>6, <1>7 DEF WInv

LEMMA RunEndsKeeps == ASSUME WInv, RunEnds PROVE WInv'
  <1>1. /\ dead' = dead \cup ({watchers[l] : l \in Library} \ {0})
        /\ watchers' = [l \in Library |-> 0] /\ UNCHANGED <<inst, count, live, call>>
    BY DEF RunEnds
  <1>2. WatcherShapes' /\ CallsKnown'
    BY <1>1 DEF WInv, WatcherShapes, CallsKnown
  <1>3. OwnLibrary' /\ ListedIsLive'
    BY <1>1 DEF WInv, OwnLibrary, ListedIsLive
  <1>4. NoLeakedWatcher'
    BY <1>1 DEF WInv, WatcherShapes, OwnLibrary, NoLeakedWatcher
  <1> QED BY <1>2, <1>3, <1>4 DEF WInv

\* The calls of the library service up to the watcher.
LEMMA CallKeeps ==
  ASSUME WInv, NEW s \in Session,
         \/ UpdateWrites(s) \/ UpdateCache(s)
         \/ \E l \in Library : Delete(s, l) \/ \E p \in Path : Save(s, l, p) \/ UpdateReads(s, l, p)
  PROVE  WInv'
  <1>1. UNCHANGED <<watchers, instVars, run>>
    BY DEF UpdateWrites, UpdateCache, Delete, Save, UpdateReads
  <1>2. PICK c : call' = [call EXCEPT ![s] = c] /\ (c # Idle => c.lib \in Library)
    <2>1. CASE UpdateWrites(s)
      BY <2>1 DEF UpdateWrites, WInv, CallsKnown, Idle
    <2>2. CASE UpdateCache(s)
      <3> DEFINE c == IF call[s].then = "done" THEN Idle
                      ELSE [op |-> call[s].then, lib |-> call[s].lib, path |-> call[s].path]
      <3>1. call' = [call EXCEPT ![s] = c]
        BY <2>2 DEF UpdateCache
      <3>2. call[s].lib \in Library
        BY <2>2 DEF UpdateCache, WInv, CallsKnown, Idle
      <3>3. c # Idle => c.lib \in Library
        BY <3>2
      <3> HIDE DEF c
      <3> QED BY <3>1, <3>3
    <2>3. ASSUME NEW l \in Library, Delete(s, l) \/ \E p \in Path : Save(s, l, p) \/ UpdateReads(s, l, p)
          PROVE  \E c : call' = [call EXCEPT ![s] = c] /\ (c # Idle => c.lib \in Library)
      <3>1. CASE Delete(s, l)
        <4> WITNESS [op |-> "cache", lib |-> l, path |-> NoPath, then |-> "stop"]
        <4> QED BY <3>1 DEF Delete, Begin
      <3>2. ASSUME NEW p \in Path, Save(s, l, p)
            PROVE  \E c : call' = [call EXCEPT ![s] = c] /\ (c # Idle => c.lib \in Library)
        <4> WITNESS [op |-> "cache", lib |-> l, path |-> p, then |-> "watch"]
        <4> QED BY <3>2 DEF Save, Begin
      <3>3. ASSUME NEW p \in Path, UpdateReads(s, l, p)
            PROVE  \E c : call' = [call EXCEPT ![s] = c] /\ (c # Idle => c.lib \in Library)
        <4> WITNESS [op |-> "put", lib |-> l, path |-> p, old |-> path[l]]
        <4> QED BY <3>3 DEF UpdateReads, Begin
      <3> QED BY <2>3, <3>1, <3>2, <3>3
    <2> QED BY <2>1, <2>2, <2>3
  <1>3. call' = [t \in Session |-> call'[t]] /\ CallsKnown'
    BY <1>2 DEF WInv, WatcherShapes, CallsKnown
  <1> QED BY <1>1, <1>3, Untouched

LEMMA TellKeeps == ASSUME WInv, NEW s \in Session, TellWatcher(s) PROVE WInv'
  <1>1. call' = [call EXCEPT ![s] = Idle] /\ UNCHANGED run
    BY DEF TellWatcher
  <1>2. call' = [t \in Session |-> call'[t]] /\ CallsKnown'
    BY <1>1 DEF WInv, WatcherShapes, CallsKnown
  <1>3. call[s].lib \in Library
    BY DEF TellWatcher, WInv, CallsKnown, Idle
  <1> QED BY <1>1, <1>2, <1>3, WatchKeeps, StopKeeps DEF TellWatcher

LEMMA WInvStep == WInv /\ [WatchersNext]_watchersVars => WInv'
  <1> SUFFICES ASSUME WInv, [WatchersNext]_watchersVars PROVE WInv'
    OBVIOUS
  <1>1. CASE UNCHANGED watchersVars
    BY <1>1, Untouched DEF watchersVars, WInv, WatcherShapes, CallsKnown
  <1>2. CASE RunStarts \/ RunLists \/ RunLoops \/ \E l \in Library : GetPath(l)
    <2>1. UNCHANGED <<watchers, instVars, call>> /\ (run = "ended" => run' = "ended")
      BY <1>2 DEF RunStarts, RunLists, RunLoops, GetPath
    <2> QED BY <2>1, Untouched DEF WInv, WatcherShapes, CallsKnown
  <1>3. ASSUME NEW l \in Library, NEW p \in Path, RunWatches(l, p) PROVE WInv'
    BY <1>3, WatchKeeps DEF RunWatches, WInv, WatcherShapes, CallsKnown
  <1> QED BY <1>1, <1>2, <1>3, EndsKeeps, RunEndsKeeps, CallKeeps, TellKeeps DEF WatchersNext

LEMMA WInvAlways == WatchersSpec => []WInv
  BY WInvInit, WInvStep, PTL DEF WatchersSpec

\* In every interleaving of library calls, failing watchers, start and end of Run: a
\* watcher that runs can still be cancelled through the map.
THEOREM NoLeakedWatcherCorrect == WatchersSpec => []NoLeakedWatcher
  <1>1. WInv => NoLeakedWatcher
    BY DEF WInv
  <1> QED BY <1>1, WInvAlways, PTL

\* And what the map lists does run.
THEOREM ListedIsLiveCorrect == WatchersSpec => []ListedIsLive
  <1>1. WInv => ListedIsLive
    BY DEF WInv
  <1> QED BY <1>1, WInvAlways, PTL

-----------------------------------------------------------------------------
(* Types.  What WatchersTypeOK lacks to be inductive is what the calls under way    *)
(* carry: an update is of a library that has had a row, and only a path is  *)
(* ever watched.                                                            *)

Rows ==
  /\ path \in [Library -> Path \cup {NoPath}] /\ cache \in [Library -> Path \cup {NoPath}]
  /\ path[Default] # NoPath /\ \A l \in Library : path[l] # NoPath => l \in used

Carries(c, ids) ==
  \/ c = Idle
  \/ c.op = "put" /\ c.lib \in Library \cap ids /\ c.path \in Path
  \/ /\ c.op = "cache" /\ c.lib \in Library /\ c.path \in Path \cup {NoPath}
     /\ c.then \in {"done", "watch", "stop"} /\ (c.then = "watch" => c.path \in Path)
  \/ c.op = "watch" /\ c.lib \in Library /\ c.path \in Path
  \/ c.op = "stop" /\ c.lib \in Library

CallsTyped == \A s \in Session : Carries(call[s], used)
Watched == \A i \in 1..count : inst[i].path \in Path

RInv == Rows /\ CallsTyped /\ Watched

LEMMA RInvInit == WatchersInit => RInv
  BY WatchersAssumption DEF WatchersInit, RInv, Rows, CallsTyped, Carries, Watched

\* One call changes, and the ids given out only grow.
LEMMA CallsTypedStep ==
  ASSUME WInv, RInv, NEW s \in Session, NEW c, call' = [call EXCEPT ![s] = c],
         used \subseteq used', Carries(c, used')
  PROVE  CallsTyped'
  <1>1. \A t \in Session : call'[t] = IF t = s THEN c ELSE call[t]
    BY DEF WInv, WatcherShapes
  <1>2. \A t \in Session : Carries(call[t], used)
    BY DEF RInv, CallsTyped
  <1> QED BY <1>1, <1>2 DEF CallsTyped, Carries

LEMMA WatchTyped ==
  ASSUME WInv, RInv, NEW l \in Library, NEW p \in Path, Watch(l, p)
  PROVE  Watched'
  <1>1. CASE run = "off"
    BY <1>1 DEF Watch, instVars, RInv, Watched
  <1>2. CASE run # "off"
    <2>1. /\ count < MaxInstances /\ count' = count + 1
          /\ inst' = [inst EXCEPT ![count + 1] = [lib |-> l, path |-> p]]
      BY <1>2 DEF Watch
    <2>2. count + 1 \in Instance /\ 1..(count + 1) = (1..count) \cup {count + 1} /\ 1..count \subseteq Instance
      BY <2>1, WatchersAssumption DEF WInv, WatcherShapes, Instance
    <2>3. inst'[count + 1].path = p /\ \A i \in 1..count : i # count + 1 => inst'[i] = inst[i]
      BY <2>1, <2>2 DEF WInv, WatcherShapes
    <2> QED BY <2>1, <2>2, <2>3 DEF RInv, Watched
  <1> QED BY <1>1, <1>2

LEMMA RInvStep == WInv /\ RInv /\ [WatchersNext]_watchersVars => RInv'
  <1> SUFFICES ASSUME WInv, RInv, [WatchersNext]_watchersVars PROVE RInv'
    OBVIOUS
  <1>1. CASE UNCHANGED <<rowVars, call, inst, count>>
    BY <1>1 DEF RInv, Rows, CallsTyped, Carries, Watched, rowVars
  <1>2. CASE UNCHANGED watchersVars \/ RunStarts \/ RunLists \/ RunLoops \/ RunEnds \/ \E i \in Instance : InstanceEnds(i)
    BY <1>1, <1>2 DEF watchersVars, RunStarts, RunLists, RunLoops, RunEnds, InstanceEnds, instVars
  <1>3. ASSUME NEW l \in Library, NEW p \in Path, RunWatches(l, p) PROVE RInv'
    <2>1. Watched'
      BY <1>3, WatchTyped DEF RunWatches
    <2> QED BY <1>3, <2>1 DEF RunWatches, RInv, Rows, CallsTyped, Carries, rowVars
  <1>4. ASSUME NEW l \in Library, GetPath(l) PROVE RInv'
    BY <1>4 DEF GetPath, RInv, Rows, CallsTyped, Carries, Watched, instVars
  <1>5. ASSUME NEW s \in Session, UpdateWrites(s) PROVE RInv'
    <2> DEFINE c == call[s]
    <2>1. /\ c.op = "put" /\ UNCHANGED <<used, cache, inst, count>>
          /\ \/ call' = [call EXCEPT ![s] = Idle] /\ UNCHANGED path
             \/ /\ ~Refused(c) /\ path' = [path EXCEPT ![c.lib] = c.path]
                /\ call' = [call EXCEPT ![s] = [op |-> "cache", lib |-> c.lib, path |-> c.path,
                                                then |-> Restart(c)]]
      BY <1>5 DEF UpdateWrites, instVars
    <2>2. c.lib \in Library \cap used /\ c.path \in Path
      BY <2>1 DEF RInv, CallsTyped, Carries, Idle
    <2>3. CASE call' = [call EXCEPT ![s] = Idle] /\ UNCHANGED path
      <3>1. Carries(Idle, used')
        BY DEF Carries
      <3>2. CallsTyped'
        BY <2>1, <2>3, <3>1, CallsTypedStep
      <3> QED BY <2>1, <2>3, <3>2 DEF RInv, Rows, Watched
    <2>4. CASE /\ ~Refused(c) /\ path' = [path EXCEPT ![c.lib] = c.path]
               /\ call' = [call EXCEPT ![s] = [op |-> "cache", lib |-> c.lib, path |-> c.path,
                                               then |-> Restart(c)]]
      <3> DEFINE k == [op |-> "cache", lib |-> c.lib, path |-> c.path, then |-> Restart(c)]
      <3>1. Carries(k, used')
        BY <2>2 DEF Carries, Restart
      <3>2. call' = [call EXCEPT ![s] = k]
        BY <2>4
      <3> HIDE DEF k
      <3>3. CallsTyped'
        BY <2>1, <3>1, <3>2, CallsTypedStep
      <3>4. Rows'
        BY <2>1, <2>2, <2>4, WatchersAssumption DEF RInv, Rows, Refused
      <3> QED BY <2>1, <3>3, <3>4 DEF RInv, Watched
    <2> QED BY <2>1, <2>3, <2>4
  <1>6. ASSUME NEW s \in Session, UpdateCache(s) PROVE RInv'
    <2> DEFINE c == call[s]
               k == IF c.then = "done" THEN Idle ELSE [op |-> c.then, lib |-> c.lib, path |-> c.path]
    <2>1. /\ c.op = "cache" /\ UNCHANGED <<path, used, inst, count>>
          /\ cache' = [cache EXCEPT ![c.lib] = c.path] /\ call' = [call EXCEPT ![s] = k]
      BY <1>6 DEF UpdateCache, Cached, instVars
    <2>2. /\ c.lib \in Library /\ c.path \in Path \cup {NoPath}
          /\ c.then \in {"done", "watch", "stop"} /\ (c.then = "watch" => c.path \in Path)
      BY <2>1 DEF RInv, CallsTyped, Carries, Idle
    <2>3. Carries(k, used')
      BY <2>2 DEF Carries
    <2>4. Rows'
      BY <2>1, <2>2 DEF RInv, Rows
    <2> HIDE DEF k
    <2>5. CallsTyped'
      BY <2>1, <2>3, CallsTypedStep
    <2> QED BY <2>1, <2>4, <2>5 DEF RInv, Watched
  <1>7. ASSUME NEW s \in Session, TellWatcher(s) PROVE RInv'
    <2>1. call' = [call EXCEPT ![s] = Idle] /\ UNCHANGED <<path, used, cache>>
      BY <1>7 DEF TellWatcher, rowVars
    <2>2. Carries(Idle, used')
      BY DEF Carries
    <2>3. CallsTyped'
      BY <2>1, <2>2, CallsTypedStep
    <2>4. CASE call[s].op = "watch" /\ Watch(call[s].lib, call[s].path)
      <3>1. call[s].lib \in Library /\ call[s].path \in Path
        BY <2>4 DEF RInv, CallsTyped, Carries, Idle
      <3> QED BY <2>1, <2>3, <2>4, <3>1, WatchTyped DEF RInv, Rows
    <2>5. CASE StopWatching(call[s].lib)
      BY <2>1, <2>3, <2>5 DEF RInv, Rows, Watched, StopWatching
    <2> QED BY <1>7, <2>4, <2>5 DEF TellWatcher
  <1>8. ASSUME NEW s \in Session, NEW l \in Library, Delete(s, l) PROVE RInv'
    <2> DEFINE k == [op |-> "cache", lib |-> l, path |-> NoPath, then |-> "stop"]
    <2>1. /\ call' = [call EXCEPT ![s] = k] /\ path' = [path EXCEPT ![l] = NoPath] /\ l # Default
          /\ UNCHANGED <<used, cache, inst, count>>
      BY <1>8 DEF Delete, Begin, Deletable, instVars
    <2>2. Carries(k, used')
      BY DEF Carries
    <2> HIDE DEF k
    <2>3. CallsTyped' /\ Rows'
      BY <2>1, <2>2, CallsTypedStep, WatchersAssumption DEF RInv, Rows
    <2> QED BY <2>1, <2>3 DEF RInv, Watched
  <1>9. ASSUME NEW s \in Session, NEW l \in Library, NEW p \in Path, Save(s, l, p) PROVE RInv'
    <2> DEFINE k == [op |-> "cache", lib |-> l, path |-> p, then |-> "watch"]
    <2>1. /\ call' = [call EXCEPT ![s] = k] /\ path' = [path EXCEPT ![l] = p] /\ used' = used \cup {l}
          /\ UNCHANGED <<cache, inst, count>>
      BY <1>9 DEF Save, Begin, instVars
    <2>2. Carries(k, used')
      BY DEF Carries
    <2> HIDE DEF k
    <2>3. CallsTyped'
      BY <2>1, <2>2, CallsTypedStep
    <2>4. Rows'
      BY <2>1, WatchersAssumption DEF RInv, Rows
    <2> QED BY <2>1, <2>3, <2>4 DEF RInv, Watched
  <1>10. ASSUME NEW s \in Session, NEW l \in Library, NEW p \in Path, UpdateReads(s, l, p) PROVE RInv'
    <2> DEFINE k == [op |-> "put", lib |-> l, path |-> p, old |-> path[l]]
    <2>1. /\ call' = [call EXCEPT ![s] = k] /\ path[l] # NoPath /\ UNCHANGED <<path, used, cache, inst, count>>
      BY <1>10 DEF UpdateReads, Begin, rowVars, instVars
    <2>2. Carries(k, used')
      BY <2>1 DEF Carries, RInv, Rows
    <2> HIDE DEF k
    <2>3. CallsTyped'
      BY <2>1, <2>2, CallsTypedStep
    <2> QED BY <2>1, <2>3 DEF RInv, Rows, Watched
  <1> QED BY <1>2, <1>3, <1>4, <1>5, <1>6, <1>7, <1>8, <1>9, <1>10 DEF WatchersNext

\* The default library keeps its row, a row's id is never given out again, and every
\* watcher watches a path for a library, whatever calls overlap.
THEOREM WatchersTypeCorrect == WatchersSpec => []WatchersTypeOK
  <1>1. WatchersSpec => []RInv
    BY RInvInit, RInvStep, WInvAlways, PTL DEF WatchersSpec
  <1>2. WInv /\ RInv => WatchersTypeOK
    BY DEF WInv, WatcherShapes, OwnLibrary, RInv, Rows, Watched, WatchersTypeOK
  <1> QED BY <1>1, <1>2, WInvAlways, PTL

-----------------------------------------------------------------------------
(* WatchedInPlace.  It has to be followed through the calls: a call that no  *)
(* other overlaps knows what the row says, the watcher is behind the row     *)
(* only while such a call is yet to tell it, and while Run goes through its  *)
(* list what is left of it agrees with the rows.                             *)

About(s, l) == call[s] # Idle /\ call[s].lib = l

\* The watcher is yet to be told of what the call did to the row.
Tells(c) == c.op \in {"watch", "stop"} \/ (c.op = "cache" /\ c.then # "done")
Pending(l) == \E s \in Session : About(s, l) /\ Tells(call[s])

\* Run, or a call, has had the watcher of l started.
Due(l) == run = "loop" \/ (run = "listing" /\ <<l, path[l]>> \notin toWatch)

Lone(l) == \A s, t \in Session : About(s, l) /\ About(t, l) => s = t
Knows(l) == \A s \in Session : About(s, l) =>
              IF call[s].op = "put" THEN call[s].old = path[l] ELSE call[s].path = path[l]
CacheFits(l) == (\A s \in Session : About(s, l) => call[s].op # "cache") => cache[l] \in {NoPath, path[l]}
WatcherFits(l) == ~Pending(l) /\ watchers[l] # 0 => inst[watchers[l]].path = path[l]
GoneFits(l) == ~Pending(l) /\ Due(l) /\ path[l] # NoPath /\ watchers[l] = 0 =>
                 \E i \in gaveUp : inst[i] = [lib |-> l, path |-> path[l]]
ListFits(l) == run = "listing" => \A p \in Path : <<l, p>> \in toWatch => p = path[l]

Fits(l) == Lone(l) /\ Knows(l) /\ CacheFits(l) /\ WatcherFits(l) /\ GoneFits(l) /\ ListFits(l)

Records ==
  /\ gaveUp \subseteq 1..count
  /\ \A i \in 1..count : inst[i] = [lib |-> inst[i].lib, path |-> inst[i].path]

\* Nothing is watched before Run, and a call stops the watcher of a row that is gone.
NotYet == run = "off" => \A l \in Library : watchers[l] = 0
Stops(c) == c.op = "stop" \/ (c.op = "cache" /\ c.then = "stop") => c.path = NoPath
StopsGone == \A s \in Session : Stops(call[s])

PInv == WInv /\ RInv /\ Records /\ NotYet /\ StopsGone /\ \A l \in Library \ raced : Fits(l)

\* Where a call stands in its way through the service decides nothing for the
\* libraries it is not about.
LEMMA CallsFit ==
  ASSUME NEW l \in Library, Fits(l), path'[l] = path[l], cache'[l] \in {cache[l], path[l]},
         \A s \in Session : call'[s] = call[s] \/ (~About(s, l) /\ ~About(s, l)')
  PROVE  Lone(l)' /\ Knows(l)' /\ CacheFits(l)' /\ (Pending(l)' <=> Pending(l))
  <1>1. \A s \in Session : (About(s, l)' <=> About(s, l)) /\ (About(s, l) => call'[s] = call[s])
    BY DEF About
  <1>2. Lone(l)'
    BY <1>1 DEF Fits, Lone
  <1>3. Knows(l)'
    BY <1>1 DEF Fits, Knows
  <1>4. CacheFits(l)'
    BY <1>1 DEF Fits, CacheFits
  <1>5. Pending(l)' <=> Pending(l)
    BY <1>1 DEF Pending
  <1> QED BY <1>2, <1>3, <1>4, <1>5

LEMMA WatcherKept ==
  ASSUME PInv, NEW l \in Library, Fits(l), path'[l] = path[l], Pending(l) => Pending(l)',
         watchers'[l] = watchers[l], \A i \in 1..count : inst'[i] = inst[i], gaveUp \subseteq gaveUp',
         Due(l)' /\ path[l] # NoPath => Due(l)
  PROVE  WatcherFits(l)' /\ GoneFits(l)'
  <1>1. watchers[l] # 0 => watchers[l] \in 1..count
    BY DEF PInv, WInv, WatcherShapes
  <1>2. WatcherFits(l)'
    BY <1>1 DEF Fits, WatcherFits
  <1>3. GoneFits(l)'
    BY DEF Fits, GoneFits, PInv, Records
  <1> QED BY <1>2, <1>3

\* What Watch does to the map and to the instances.
LEMMA WatchFacts ==
  ASSUME PInv, NEW k \in Library, NEW p, Watch(k, p)
  PROVE  /\ \A l \in Library : l # k => watchers'[l] = watchers[l]
         /\ \A i \in 1..count : inst'[i] = inst[i]
         /\ gaveUp' = gaveUp
         /\ run = "off" => UNCHANGED <<watchers, count>>
         /\ run # "off" => /\ watchers'[k] # 0 /\ inst'[watchers'[k]].path = p
                           /\ count' = count + 1 /\ inst'[count + 1] = [lib |-> k, path |-> p]
  <1>1. CASE run = "off"
    BY <1>1 DEF Watch, instVars
  <1>2. CASE run # "off"
    <2>1. /\ count < MaxInstances /\ count' = count + 1
          /\ inst' = [inst EXCEPT ![count + 1] = [lib |-> k, path |-> p]]
          /\ watchers' = [watchers EXCEPT ![k] = count + 1] /\ gaveUp' = gaveUp
      BY <1>2 DEF Watch
    <2>2. count + 1 \in Instance /\ count + 1 \notin 1..count /\ count + 1 # 0
      BY <2>1, WatchersAssumption DEF PInv, WInv, WatcherShapes, Instance
    <2>3. inst'[count + 1] = [lib |-> k, path |-> p] /\ watchers'[k] = count + 1
      BY <2>1, <2>2 DEF PInv, WInv, WatcherShapes
    <2>4. \A i \in 1..count : inst'[i] = inst[i]
      BY <2>1, <2>2 DEF PInv, WInv, WatcherShapes, Instance
    <2>5. \A l \in Library : l # k => watchers'[l] = watchers[l]
      BY <2>1 DEF PInv, WInv, WatcherShapes
    <2> QED BY <1>2, <2>1, <2>2, <2>3, <2>4, <2>5
  <1> QED BY <1>1, <1>2

\* Run on its way through its list, and to its end.
LEMMA RunFits ==
  ASSUME PInv, NEW l \in Library, Fits(l),
         \/ RunStarts \/ RunLists \/ RunLoops \/ RunEnds
         \/ \E k \in Library, p \in Path : RunWatches(k, p)
  PROVE  Fits(l)'
  <1>0. UNCHANGED <<path, cache, call>>
    BY DEF RunStarts, RunLists, RunLoops, RunEnds, RunWatches, rowVars
  <1>1. Lone(l)' /\ Knows(l)' /\ CacheFits(l)' /\ (Pending(l)' <=> Pending(l))
    BY <1>0, CallsFit
  <1>2. CASE RunStarts
    <2>1. UNCHANGED <<watchers, inst, gaveUp>> /\ run' = "started"
      BY <1>2 DEF RunStarts, instVars
    <2>2. WatcherFits(l)' /\ GoneFits(l)'
      BY <1>0, <1>1, <2>1, WatcherKept DEF Due
    <2> QED BY <1>1, <2>1, <2>2 DEF Fits, ListFits
  <1>3. CASE RunLists
    <2>1. /\ UNCHANGED <<watchers, inst, gaveUp>> /\ run' = "listing"
          /\ toWatch' = {<<k, path[k]>> : k \in {j \in Library : path[j] # NoPath}}
      BY <1>3 DEF RunLists, instVars
    <2>2. Due(l)' => path[l] = NoPath
      BY <1>0, <2>1 DEF Due
    <2>3. WatcherFits(l)' /\ GoneFits(l)'
      BY <1>0, <1>1, <2>1, <2>2, WatcherKept
    <2>4. ListFits(l)'
      BY <1>0, <2>1 DEF ListFits
    <2> QED BY <1>1, <2>3, <2>4 DEF Fits
  <1>4. CASE RunLoops
    <2>1. UNCHANGED <<watchers, inst, gaveUp>> /\ run = "listing" /\ toWatch = {} /\ run' = "loop"
      BY <1>4 DEF RunLoops, instVars
    <2>2. WatcherFits(l)' /\ GoneFits(l)'
      BY <1>0, <1>1, <2>1, WatcherKept DEF Due
    <2> QED BY <1>1, <2>1, <2>2 DEF Fits, ListFits
  <1>5. CASE RunEnds
    <2>1. watchers'[l] = 0 /\ run' = "ended"
      BY <1>5 DEF RunEnds
    <2> QED BY <1>1, <2>1 DEF Fits, WatcherFits, GoneFits, ListFits, Due
  <1>6. ASSUME NEW k \in Library, NEW p \in Path, RunWatches(k, p) PROVE Fits(l)'
    <2>1. /\ run = "listing" /\ <<k, p>> \in toWatch /\ toWatch' = toWatch \ {<<k, p>>}
          /\ Watch(k, p) /\ run' = run
      BY <1>6 DEF RunWatches
    <2>2. ListFits(l)'
      BY <1>0, <2>1 DEF Fits, ListFits
    <2>3. CASE k = l
      <3>1. p = path[l]
        BY <2>1, <2>3 DEF Fits, ListFits
      <3>2. watchers'[l] # 0 /\ inst'[watchers'[l]].path = path[l]
        BY <2>1, <2>3, <3>1, WatchFacts
      <3> QED BY <1>0, <1>1, <2>2, <3>2 DEF Fits, WatcherFits, GoneFits
    <2>4. CASE k # l
      <3>1. Due(l)' => Due(l)
        BY <1>0, <2>1, <2>4 DEF Due
      <3>2. watchers'[l] = watchers[l] /\ (\A i \in 1..count : inst'[i] = inst[i]) /\ gaveUp' = gaveUp
        BY <2>1, <2>4, WatchFacts
      <3>3. WatcherFits(l)' /\ GoneFits(l)'
        BY <1>0, <1>1, <3>1, <3>2, WatcherKept
      <3> QED BY <1>1, <2>2, <3>3 DEF Fits
    <2> QED BY <2>3, <2>4
  <1> QED BY <1>2, <1>3, <1>4, <1>5, <1>6

\* A watcher that ends was listed with its library and path, or no longer listed.
LEMMA EndsFits ==
  ASSUME PInv, NEW l \in Library, Fits(l), NEW i \in Instance, InstanceEnds(i)
  PROVE  Fits(l)'
  <1>0. /\ UNCHANGED <<path, cache, call, run, toWatch, inst>> /\ i \in live /\ watchers' = Forget(i)
        /\ gaveUp' = IF i \in dead THEN gaveUp ELSE gaveUp \cup {i}
    BY DEF InstanceEnds, rowVars
  <1>1. Lone(l)' /\ Knows(l)' /\ CacheFits(l)' /\ (Pending(l)' <=> Pending(l))
    BY <1>0, CallsFit
  <1>2. ListFits(l)' /\ (Due(l)' <=> Due(l))
    BY <1>0 DEF Fits, ListFits, Due
  <1>3. i \in 1..count /\ inst[i].lib \in Library
    BY <1>0 DEF PInv, WInv, WatcherShapes, OwnLibrary
  <1>4. watchers'[l] = IF watchers[l] = i THEN 0 ELSE watchers[l]
    BY <1>0, <1>3 DEF Forget, PInv, WInv, WatcherShapes, OwnLibrary
  <1>5. CASE watchers[l] # i
    <2>1. WatcherFits(l)' /\ GoneFits(l)'
      BY <1>0, <1>1, <1>2, <1>4, <1>5, WatcherKept
    <2> QED BY <1>1, <1>2, <2>1 DEF Fits
  <1>6. CASE watchers[l] = i
    <2>1. watchers'[l] = 0 /\ i # 0
      BY <1>3, <1>4, <1>6
    <2>2. ASSUME Due(l), ~Pending(l) PROVE i \in gaveUp' /\ inst[i] = [lib |-> l, path |-> path[l]]
      <3>1. i \notin dead
        BY <1>6, <2>1, <2>2 DEF Due, PInv, WInv, ListedIsLive
      <3>2. inst[i].lib = l /\ inst[i].path = path[l]
        BY <1>6, <2>1, <2>2 DEF PInv, WInv, OwnLibrary, Fits, WatcherFits
      <3>3. inst[i] = [lib |-> inst[i].lib, path |-> inst[i].path]
        BY <1>3 DEF PInv, Records
      <3> QED BY <1>0, <3>1, <3>2, <3>3
    <2>3. WatcherFits(l)'
      BY <2>1 DEF WatcherFits
    <2>4. GoneFits(l)'
      BY <1>0, <1>1, <1>2, <2>2 DEF GoneFits
    <2> QED BY <1>1, <1>2, <2>3, <2>4 DEF Fits
  <1> QED BY <1>5, <1>6

\* A step of a call about another library.
LEMMA OtherCallFits ==
  ASSUME PInv, NEW l \in Library, Fits(l), NEW s \in Session, NEW c, call' = [call EXCEPT ![s] = c],
         call[s] = Idle \/ call[s].lib # l, c = Idle \/ c.lib # l,
         path'[l] = path[l], cache'[l] = cache[l], watchers'[l] = watchers[l],
         \A i \in 1..count : inst'[i] = inst[i], gaveUp' = gaveUp, UNCHANGED <<run, toWatch>>
  PROVE  Fits(l)'
  <1>1. \A t \in Session : call'[t] = call[t] \/ (~About(t, l) /\ ~About(t, l)')
    BY DEF About, PInv, WInv, WatcherShapes
  <1>2. Lone(l)' /\ Knows(l)' /\ CacheFits(l)' /\ (Pending(l)' <=> Pending(l))
    BY <1>1, CallsFit
  <1>3. ListFits(l)' /\ (Due(l)' <=> Due(l))
    BY DEF Fits, ListFits, Due
  <1>4. WatcherFits(l)' /\ GoneFits(l)'
    BY <1>2, <1>3, WatcherKept
  <1> QED BY <1>2, <1>3, <1>4 DEF Fits

\* The call of s is the only one about l: c is what it becomes.
LEMMA OwnCall ==
  ASSUME PInv, NEW l \in Library, NEW s \in Session, NEW c, call' = [call EXCEPT ![s] = c],
         \A t \in Session : About(t, l) => t = s
  PROVE  /\ \A t \in Session : About(t, l)' => t = s
         /\ call'[s] = c
         /\ About(s, l)' <=> c # Idle /\ c.lib = l
         /\ Lone(l)'
         /\ Pending(l)' <=> c # Idle /\ c.lib = l /\ Tells(c)
  <1>1. call'[s] = c /\ \A t \in Session : t # s => call'[t] = call[t]
    BY DEF PInv, WInv, WatcherShapes
  <1>2. \A t \in Session : About(t, l)' => t = s
    BY <1>1 DEF About
  <1>3. About(s, l)' <=> c # Idle /\ c.lib = l
    BY <1>1 DEF About
  <1>4. Pending(l)' <=> c # Idle /\ c.lib = l /\ Tells(c)
    BY <1>1, <1>2, <1>3 DEF Pending
  <1> QED BY <1>1, <1>2, <1>3, <1>4 DEF Lone

\* A call begins: no other is about the library, and Run is not in its list, or
\* the library is raced.
LEMMA BeginFits ==
  ASSUME PInv, NEW l \in Library, l \notin raced', Fits(l), NEW s \in Session, NEW k \in Library,
         NEW c, c.lib = k, c # Idle, Begin(s, c), \A j \in Library : j # k => path'[j] = path[j],
         UNCHANGED <<cache, watchers, inst, gaveUp, run, toWatch>>,
         \/ c.op = "cache" /\ c.then # "done" /\ c.path = path'[k]
         \/ c.op = "put" /\ c.old = path'[k] /\ path'[k] = path[k]
  PROVE  Fits(l)'
  <1>1. call[s] = Idle /\ call' = [call EXCEPT ![s] = c] /\ raced' = Races(c.lib)
    BY DEF Begin
  <1>2. CASE k # l
    BY <1>1, <1>2, OtherCallFits
  <1>3. CASE k = l
    <2>1. (\A t \in Session : ~About(t, l)) /\ run # "listing"
      BY <1>1, <1>3 DEF Races, InCall, About
    <2>2. /\ \A t \in Session : About(t, l)' => t = s
          /\ call'[s] = c /\ About(s, l)' /\ Lone(l)'
          /\ Pending(l)' <=> Tells(c)
      <3>1. \A t \in Session : About(t, l) => t = s
        BY <2>1
      <3>2. /\ \A t \in Session : About(t, l)' => t = s
            /\ call'[s] = c
            /\ About(s, l)' <=> c # Idle /\ c.lib = l
            /\ Lone(l)'
            /\ Pending(l)' <=> c # Idle /\ c.lib = l /\ Tells(c)
        BY <1>1, <3>1, OwnCall
      <3> QED BY <1>3, <3>2
    <2>3. Knows(l)'
      BY <1>3, <2>2 DEF Knows
    <2>4. ListFits(l)' /\ (Due(l)' <=> Due(l))
      BY <2>1 DEF ListFits, Due
    <2>5. CASE c.op = "cache" /\ c.then # "done"
      <3>1. Pending(l)'
        BY <2>2, <2>5 DEF Tells
      <3>2. CacheFits(l)'
        BY <2>2, <2>5 DEF CacheFits
      <3> QED BY <2>2, <2>3, <2>4, <3>1, <3>2 DEF Fits, WatcherFits, GoneFits
    <2>6. CASE c.op = "put" /\ path'[k] = path[k]
      <3>1. ~Pending(l)
        BY <2>1 DEF Pending
      <3>2. CacheFits(l)'
        BY <1>3, <2>1, <2>6 DEF Fits, CacheFits
      <3>3. WatcherFits(l)' /\ GoneFits(l)'
        BY <1>3, <2>4, <2>6, <3>1, WatcherKept
      <3> QED BY <2>2, <2>3, <2>4, <3>2, <3>3 DEF Fits
    <2> QED BY <2>5, <2>6
  <1> QED BY <1>2, <1>3

LEMMA CallFits ==
  ASSUME PInv, NEW l \in Library, l \notin raced', Fits(l), NEW s \in Session, NEW k \in Library,
         Delete(s, k) \/ \E p \in Path : Save(s, k, p) \/ UpdateReads(s, k, p)
  PROVE  Fits(l)'
  <1>0. UNCHANGED <<cache, watchers, inst, gaveUp, run, toWatch>>
    BY DEF Delete, Save, UpdateReads, rowVars, instVars
  <1>1. CASE Delete(s, k)
    <2> DEFINE c == [op |-> "cache", lib |-> k, path |-> NoPath, then |-> "stop"]
    <2>1. Begin(s, c) /\ path' = [path EXCEPT ![k] = NoPath]
      BY <1>1 DEF Delete
    <2>2. c.lib = k /\ c # Idle /\ c.op = "cache" /\ c.then # "done" /\ c.path = path'[k]
      BY <2>1 DEF Idle, PInv, RInv, Rows
    <2>3. \A j \in Library : j # k => path'[j] = path[j]
      BY <2>1 DEF PInv, RInv, Rows
    <2> HIDE DEF c
    <2> QED BY <1>0, <2>1, <2>2, <2>3, BeginFits
  <1>2. ASSUME NEW p \in Path, Save(s, k, p) PROVE Fits(l)'
    <2> DEFINE c == [op |-> "cache", lib |-> k, path |-> p, then |-> "watch"]
    <2>1. Begin(s, c) /\ path' = [path EXCEPT ![k] = p]
      BY <1>2 DEF Save
    <2>2. c.lib = k /\ c # Idle /\ c.op = "cache" /\ c.then # "done" /\ c.path = path'[k]
      BY <2>1 DEF Idle, PInv, RInv, Rows
    <2>3. \A j \in Library : j # k => path'[j] = path[j]
      BY <2>1 DEF PInv, RInv, Rows
    <2> HIDE DEF c
    <2> QED BY <1>0, <2>1, <2>2, <2>3, BeginFits
  <1>3. ASSUME NEW p \in Path, UpdateReads(s, k, p) PROVE Fits(l)'
    <2> DEFINE c == [op |-> "put", lib |-> k, path |-> p, old |-> path[k]]
    <2>1. Begin(s, c) /\ path' = path
      BY <1>3 DEF UpdateReads, rowVars
    <2>2. c.lib = k /\ c # Idle /\ c.op = "put" /\ c.old = path'[k] /\ path'[k] = path[k]
      BY <2>1 DEF Idle
    <2> HIDE DEF c
    <2> QED BY <1>0, <2>1, <2>2, BeginFits
  <1> QED BY <1>1, <1>2, <1>3

LEMMA UpdateWritesFits ==
  ASSUME PInv, NEW l \in Library, l \notin raced', Fits(l), NEW s \in Session, UpdateWrites(s)
  PROVE  Fits(l)'
  <1>1. PICK c : c = call[s]
    OBVIOUS
  <1>0. /\ UNCHANGED <<cache, watchers, inst, gaveUp, run, toWatch>> /\ c.op = "put"
        /\ \/ call' = [call EXCEPT ![s] = Idle] /\ UNCHANGED path
           \/ /\ raced' = IF run = "listing" THEN raced \cup {c.lib} ELSE raced
              /\ path' = [path EXCEPT ![c.lib] = c.path]
              /\ call' = [call EXCEPT ![s] = [op |-> "cache", lib |-> c.lib, path |-> c.path,
                                              then |-> Restart(c)]]
    BY <1>1 DEF UpdateWrites, instVars
  <1>2. c.lib \in Library /\ c # Idle
    BY <1>0, <1>1 DEF PInv, RInv, CallsTyped, Carries, Idle
  <1> DEFINE d == [op |-> "cache", lib |-> c.lib, path |-> c.path, then |-> Restart(c)]
  <1>3. /\ d.op = "cache" /\ d.lib = c.lib /\ d.path = c.path /\ d # Idle
        /\ d.then = Restart(c)
    BY DEF Idle
  <1>4. \/ call' = [call EXCEPT ![s] = Idle] /\ UNCHANGED path
        \/ /\ raced' = IF run = "listing" THEN raced \cup {c.lib} ELSE raced
           /\ path' = [path EXCEPT ![c.lib] = c.path]
           /\ call' = [call EXCEPT ![s] = d]
    BY <1>0
  <1> HIDE DEF d
  <1>5. CASE c.lib # l
    <2>1. path'[l] = path[l]
      BY <1>2, <1>4, <1>5 DEF PInv, RInv, Rows
    <2> QED BY <1>0, <1>1, <1>3, <1>4, <1>5, <2>1, OtherCallFits
  <1>6. CASE c.lib = l
    <2>1. About(s, l) /\ \A t \in Session : About(t, l) => t = s
      BY <1>1, <1>2, <1>6 DEF About, Fits, Lone
    <2>2. ~Pending(l) /\ cache[l] \in {NoPath, path[l]} /\ c.old = path[l]
      BY <1>0, <1>1, <2>1 DEF Pending, Tells, Fits, CacheFits, Knows
    <2>3. CASE call' = [call EXCEPT ![s] = Idle] /\ UNCHANGED path
      <3>1. (\A t \in Session : ~About(t, l)') /\ Lone(l)' /\ ~Pending(l)'
        <4>1. /\ \A t \in Session : About(t, l)' => t = s
              /\ call'[s] = Idle
              /\ About(s, l)' <=> Idle # Idle /\ Idle.lib = l
              /\ Lone(l)'
              /\ Pending(l)' <=> Idle # Idle /\ Idle.lib = l /\ Tells(Idle)
          BY <2>1, <2>3, OwnCall
        <4> QED BY <4>1
      <3>2. Knows(l)' /\ CacheFits(l)'
        BY <1>0, <2>2, <2>3, <3>1 DEF Knows, CacheFits
      <3>3. ListFits(l)' /\ (Due(l)' <=> Due(l))
        BY <1>0, <2>3 DEF Fits, ListFits, Due
      <3>4. WatcherFits(l)' /\ GoneFits(l)'
        BY <1>0, <2>2, <2>3, <3>3, WatcherKept
      <3> QED BY <3>1, <3>2, <3>3, <3>4 DEF Fits
    <2>4. CASE /\ raced' = IF run = "listing" THEN raced \cup {c.lib} ELSE raced
               /\ path' = [path EXCEPT ![c.lib] = c.path]
               /\ call' = [call EXCEPT ![s] = d]
      <3>1. run # "listing" /\ path'[l] = c.path
        BY <1>2, <1>6, <2>4 DEF PInv, RInv, Rows
      <3>2. /\ \A t \in Session : About(t, l)' => t = s
            /\ call'[s] = d /\ About(s, l)' /\ Lone(l)'
            /\ Pending(l)' <=> Tells(d)
        <4>1. /\ \A t \in Session : About(t, l)' => t = s
              /\ call'[s] = d
              /\ About(s, l)' <=> d # Idle /\ d.lib = l
              /\ Lone(l)'
              /\ Pending(l)' <=> d # Idle /\ d.lib = l /\ Tells(d)
          BY <2>1, <2>4, OwnCall
        <4> QED BY <1>3, <1>6, <4>1
      <3>3. Knows(l)' /\ CacheFits(l)'
        BY <1>3, <3>1, <3>2 DEF Knows, CacheFits
      <3>4. ListFits(l)' /\ (Due(l)' <=> Due(l))
        BY <1>0, <3>1 DEF ListFits, Due
      <3>5. CASE c.old = c.path
        <4>1. path'[l] = path[l]
          BY <2>2, <3>1, <3>5
        <4>2. WatcherFits(l)' /\ GoneFits(l)'
          BY <1>0, <2>2, <3>4, <4>1, WatcherKept
        <4> QED BY <3>2, <3>3, <3>4, <4>2 DEF Fits
      <3>6. CASE c.old # c.path
        <4>1. Pending(l)'
          BY <1>3, <3>2, <3>6 DEF Tells, Restart
        <4> QED BY <3>2, <3>3, <3>4, <4>1 DEF Fits, WatcherFits, GoneFits
      <3> QED BY <3>5, <3>6
    <2> QED BY <1>4, <2>3, <2>4
  <1> QED BY <1>5, <1>6

LEMMA UpdateCacheFits ==
  ASSUME PInv, NEW l \in Library, Fits(l), NEW s \in Session, UpdateCache(s)
  PROVE  Fits(l)'
  <1>1. PICK c : c = call[s]
    OBVIOUS
  <1>2. PICK d : d = IF c.then = "done" THEN Idle ELSE [op |-> c.then, lib |-> c.lib, path |-> c.path]
    OBVIOUS
  <1>0. /\ UNCHANGED <<path, watchers, inst, gaveUp, run, toWatch>> /\ c.op = "cache"
        /\ cache' = [cache EXCEPT ![c.lib] = c.path]
        /\ call' = [call EXCEPT ![s] = d]
    BY <1>1, <1>2 DEF UpdateCache, Cached, instVars
  <1>3. c.lib \in Library /\ c # Idle /\ c.then \in {"done", "watch", "stop"}
    BY <1>0, <1>1 DEF PInv, RInv, CallsTyped, Carries, Idle
  <1>4. /\ c.then = "done" => d = Idle
        /\ c.then # "done" => d # Idle /\ d.lib = c.lib /\ d.path = c.path /\ d.op \in {"watch", "stop"}
    BY <1>2, <1>3 DEF Idle
  <1>5. CASE c.lib # l
    <2>1. cache'[l] = cache[l]
      BY <1>0, <1>5 DEF PInv, RInv, Rows
    <2> QED BY <1>0, <1>1, <1>4, <1>5, <2>1, OtherCallFits
  <1>6. CASE c.lib = l
    <2>1. About(s, l) /\ \A t \in Session : About(t, l) => t = s
      BY <1>1, <1>3, <1>6 DEF About, Fits, Lone
    <2>2. cache'[l] = path[l] /\ c.path = path[l]
      BY <1>0, <1>1, <1>6, <2>1 DEF Fits, Knows, PInv, RInv, Rows
    <2>3. /\ \A t \in Session : About(t, l)' => t = s
          /\ call'[s] = d
          /\ About(s, l)' <=> d # Idle /\ d.lib = l
          /\ Lone(l)'
          /\ Pending(l)' <=> d # Idle /\ d.lib = l /\ Tells(d)
      BY <1>0, <2>1, OwnCall
    <2>4. Knows(l)' /\ CacheFits(l)'
      BY <1>0, <1>4, <2>2, <2>3 DEF Knows, CacheFits
    <2>5. ListFits(l)' /\ (Due(l)' <=> Due(l))
      BY <1>0 DEF Fits, ListFits, Due
    <2>6. CASE c.then = "done"
      <3>1. ~Pending(l)
        BY <1>0, <1>1, <2>1, <2>6 DEF Pending, Tells
      <3>2. WatcherFits(l)' /\ GoneFits(l)'
        BY <1>0, <2>5, <3>1, WatcherKept
      <3> QED BY <2>3, <2>4, <2>5, <3>2 DEF Fits
    <2>7. CASE c.then # "done"
      <3>1. Pending(l)'
        BY <1>4, <1>6, <2>3, <2>7 DEF Tells
      <3> QED BY <2>3, <2>4, <2>5, <3>1 DEF Fits, WatcherFits, GoneFits
    <2> QED BY <2>6, <2>7
  <1> QED BY <1>5, <1>6

LEMMA GetPathFits ==
  ASSUME PInv, NEW l \in Library, Fits(l), NEW k \in Library, GetPath(k)
  PROVE  Fits(l)'
  <1>1. /\ UNCHANGED <<path, watchers, inst, gaveUp, run, toWatch, call>>
        /\ cache'[l] \in {cache[l], path[l]}
    BY DEF GetPath, instVars
  <1>2. Lone(l)' /\ Knows(l)' /\ CacheFits(l)' /\ (Pending(l)' <=> Pending(l))
    BY <1>1, CallsFit
  <1>3. ListFits(l)' /\ (Due(l)' <=> Due(l))
    BY <1>1 DEF Fits, ListFits, Due
  <1>4. WatcherFits(l)' /\ GoneFits(l)'
    BY <1>1, <1>2, <1>3, WatcherKept
  <1> QED BY <1>2, <1>3, <1>4 DEF Fits

\* The watcher is told: it watches what the row says, or stops when it is gone.
LEMMA TellFits ==
  ASSUME PInv, NEW l \in Library, Fits(l), NEW s \in Session, TellWatcher(s)
  PROVE  Fits(l)'
  <1>1. PICK c : c = call[s]
    OBVIOUS
  <1>0. /\ UNCHANGED <<path, cache, run, toWatch>> /\ call' = [call EXCEPT ![s] = Idle]
        /\ \/ c.op = "watch" /\ Watch(c.lib, c.path)
           \/ c.op = "stop" /\ StopWatching(c.lib)
    BY <1>1 DEF TellWatcher, rowVars
  <1>2. c.lib \in Library /\ c # Idle
    BY <1>0, <1>1 DEF PInv, RInv, CallsTyped, Carries, Idle
  <1>3. CASE c.lib # l
    <2>1. watchers'[l] = watchers[l] /\ (\A i \in 1..count : inst'[i] = inst[i]) /\ gaveUp' = gaveUp
      <3>1. CASE c.op = "watch" /\ Watch(c.lib, c.path)
        BY <1>2, <1>3, <3>1, WatchFacts
      <3>2. CASE c.op = "stop" /\ StopWatching(c.lib)
        BY <1>2, <1>3, <3>2 DEF StopWatching, PInv, WInv, WatcherShapes
      <3> QED BY <1>0, <3>1, <3>2
    <2> QED BY <1>0, <1>1, <1>3, <2>1, OtherCallFits
  <1>4. CASE c.lib = l
    <2>1. About(s, l) /\ \A t \in Session : About(t, l) => t = s
      BY <1>1, <1>2, <1>4 DEF About, Fits, Lone
    <2>2. cache[l] \in {NoPath, path[l]} /\ c.path = path[l]
      BY <1>0, <1>1, <2>1 DEF Fits, CacheFits, Knows
    <2>3. /\ \A t \in Session : About(t, l)' => t = s
          /\ call'[s] = Idle
          /\ About(s, l)' <=> Idle # Idle /\ Idle.lib = l
          /\ Lone(l)'
          /\ Pending(l)' <=> Idle # Idle /\ Idle.lib = l /\ Tells(Idle)
      BY <1>0, <2>1, OwnCall
    <2>4. Knows(l)' /\ CacheFits(l)'
      BY <1>0, <2>2, <2>3 DEF Knows, CacheFits
    <2>5. ListFits(l)' /\ (Due(l)' <=> Due(l))
      BY <1>0 DEF Fits, ListFits, Due
    <2>6. CASE Watch(l, c.path) /\ run # "off"
      <3>1. watchers'[l] # 0 /\ inst'[watchers'[l]].path = path[l]
        BY <2>2, <2>6, WatchFacts
      <3> QED BY <1>0, <2>3, <2>4, <2>5, <3>1 DEF Fits, WatcherFits, GoneFits
    <2>7. CASE Watch(l, c.path) /\ run = "off"
      <3>1. watchers'[l] = 0 /\ ~Due(l)
        BY <2>7, WatchFacts DEF PInv, NotYet, Due
      <3> QED BY <2>3, <2>4, <2>5, <3>1 DEF Fits, WatcherFits, GoneFits
    <2>8. CASE c.op = "stop" /\ StopWatching(l)
      <3>1. watchers'[l] = 0
        BY <2>8 DEF StopWatching, PInv, WInv, WatcherShapes
      <3>2. path[l] = NoPath
        BY <1>1, <2>2, <2>8 DEF PInv, StopsGone, Stops
      <3> QED BY <1>0, <2>3, <2>4, <2>5, <3>1, <3>2 DEF Fits, WatcherFits, GoneFits
    <2> QED BY <1>0, <1>4, <2>6, <2>7, <2>8
  <1> QED BY <1>3, <1>4

LEMMA RecordsStep == ASSUME PInv, [WatchersNext]_watchersVars PROVE Records'
  <1>1. CASE UNCHANGED <<inst, count, gaveUp>>
    BY <1>1 DEF PInv, Records
  <1>2. ASSUME NEW k \in Library, NEW p, Watch(k, p) PROVE Records'
    <2>1. CASE run = "off"
      BY <1>1, <1>2, <2>1 DEF Watch, instVars
    <2>2. CASE run # "off"
      <3>1. /\ \A i \in 1..count : inst'[i] = inst[i]
            /\ gaveUp' = gaveUp /\ count' = count + 1
            /\ inst'[count + 1] = [lib |-> k, path |-> p] /\ count \in Nat
        BY <1>2, <2>2, WatchFacts DEF PInv, WInv, WatcherShapes
      <3>2. gaveUp' \subseteq 1..count'
        BY <3>1 DEF PInv, Records
      <3>3. ASSUME NEW i \in 1..count' PROVE inst'[i] = [lib |-> inst'[i].lib, path |-> inst'[i].path]
        <4>1. CASE i \in 1..count
          BY <3>1, <4>1 DEF PInv, Records
        <4>2. CASE i = count + 1
          BY <3>1, <4>2
        <4> QED BY <3>1, <3>3, <4>1, <4>2
      <3> QED BY <3>2, <3>3 DEF Records
    <2> QED BY <2>1, <2>2
  <1>3. ASSUME NEW i \in Instance, InstanceEnds(i) PROVE Records'
    <2>1. i \in 1..count /\ UNCHANGED <<inst, count>> /\ gaveUp' \subseteq gaveUp \cup {i}
      BY <1>3 DEF InstanceEnds, PInv, WInv, WatcherShapes
    <2> QED BY <2>1 DEF PInv, Records
  <1>4. ASSUME NEW s \in Session, TellWatcher(s) PROVE Records'
    <2>1. CASE StopWatching(call[s].lib)
      BY <1>1, <2>1 DEF StopWatching
    <2>2. CASE call[s].op = "watch" /\ Watch(call[s].lib, call[s].path)
      <3>1. call[s].lib \in Library
        BY <2>2 DEF PInv, RInv, CallsTyped, Carries, Idle
      <3> QED BY <1>2, <2>2, <3>1
    <2> QED BY <1>4, <2>1, <2>2 DEF TellWatcher
  <1>5. ASSUME NEW k \in Library, NEW p \in Path, RunWatches(k, p) PROVE Records'
    BY <1>2, <1>5 DEF RunWatches
  <1>6. CASE UNCHANGED watchersVars \/ RunStarts \/ RunLists \/ RunLoops \/ RunEnds \/ \E l \in Library : GetPath(l)
    BY <1>1, <1>6 DEF watchersVars, RunStarts, RunLists, RunLoops, RunEnds, GetPath, instVars
  <1>7. ASSUME NEW s \in Session,
               \/ UpdateWrites(s) \/ UpdateCache(s)
               \/ \E l \in Library : Delete(s, l) \/ \E p \in Path : Save(s, l, p) \/ UpdateReads(s, l, p)
        PROVE  Records'
    BY <1>1, <1>7 DEF UpdateWrites, UpdateCache, Delete, Save, UpdateReads, instVars
  <1> QED BY <1>3, <1>4, <1>5, <1>6, <1>7 DEF WatchersNext

LEMMA NotYetStep == ASSUME PInv, [WatchersNext]_watchersVars PROVE NotYet'
  <1>1. CASE run' # "off"
    BY <1>1 DEF NotYet
  <1>2. CASE run' = "off"
    <2>1. run = "off"
      BY <1>2 DEF WatchersNext, watchersVars, RunStarts, RunLists, RunLoops, RunEnds, RunWatches, InstanceEnds, GetPath,
                  UpdateWrites, UpdateCache, TellWatcher, Delete, Save, UpdateReads
    <2>2. \A l \in Library : watchers[l] = 0
      BY <2>1 DEF PInv, NotYet
    <2>3. \A l \in Library : watchers'[l] = 0
      <3>1. CASE UNCHANGED watchers
        BY <2>2, <3>1
      <3>2. ASSUME NEW k \in Library, StopWatching(k) PROVE \A l \in Library : watchers'[l] = 0
        BY <2>2, <3>2 DEF StopWatching, PInv, WInv, WatcherShapes
      <3>3. ASSUME NEW s \in Session, TellWatcher(s) PROVE \A l \in Library : watchers'[l] = 0
        <4>1. call[s].op \in {"watch", "stop"}
          BY <3>3 DEF TellWatcher
        <4>2. call[s].lib \in Library
          BY <4>1 DEF PInv, RInv, CallsTyped, Carries, Idle
        <4> QED BY <2>1, <3>1, <3>2, <3>3, <4>2 DEF TellWatcher, Watch
      <3>4. ASSUME NEW i \in Instance, InstanceEnds(i) PROVE \A l \in Library : watchers'[l] = 0
        <4>1. watchers' = watchers \/ watchers' = [watchers EXCEPT ![inst[i].lib] = 0]
          BY <3>4 DEF InstanceEnds, Forget
        <4> QED BY <2>2, <4>1 DEF PInv, WInv, WatcherShapes
      <3>5. ASSUME NEW s \in Session,
                   \/ UpdateWrites(s) \/ UpdateCache(s)
                   \/ \E l \in Library : Delete(s, l) \/ \E p \in Path : Save(s, l, p) \/ UpdateReads(s, l, p)
            PROVE  UNCHANGED watchers
        BY <3>5 DEF UpdateWrites, UpdateCache, Delete, Save, UpdateReads
      <3>6. CASE UNCHANGED watchersVars \/ \E l \in Library : GetPath(l)
        BY <3>1, <3>6 DEF watchersVars, GetPath
      <3>7. ~(RunStarts \/ RunLists \/ RunLoops \/ RunEnds \/ \E l \in Library, p \in Path : RunWatches(l, p))
        BY <1>2, <2>1 DEF RunStarts, RunLists, RunLoops, RunEnds, RunWatches
      <3> QED BY <3>1, <3>3, <3>4, <3>5, <3>6, <3>7 DEF WatchersNext
    <2> QED BY <2>3 DEF NotYet
  <1> QED BY <1>1, <1>2

LEMMA StopsGoneStep == ASSUME PInv, [WatchersNext]_watchersVars PROVE StopsGone'
  <1>0. Stops(Idle) /\ \A s \in Session : Stops(call[s])
    BY DEF PInv, StopsGone, Stops, Idle
  <1>1. CASE UNCHANGED call
    BY <1>0, <1>1 DEF StopsGone
  <1>2. ASSUME NEW s \in Session, NEW c, call' = [call EXCEPT ![s] = c], Stops(c) PROVE StopsGone'
    <2>1. \A t \in Session : call'[t] = IF t = s THEN c ELSE call[t]
      BY <1>2 DEF PInv, WInv, WatcherShapes
    <2> QED BY <1>0, <1>2, <2>1 DEF StopsGone
  <1>3. ASSUME NEW s \in Session, UpdateWrites(s) PROVE StopsGone'
    <2> DEFINE d == [op |-> "cache", lib |-> call[s].lib, path |-> call[s].path, then |-> Restart(call[s])]
    <2>1. call' = [call EXCEPT ![s] = Idle] \/ call' = [call EXCEPT ![s] = d]
      BY <1>3 DEF UpdateWrites
    <2>2. Stops(d)
      BY DEF Stops, Restart
    <2> HIDE DEF d
    <2> QED BY <1>0, <1>2, <2>1, <2>2
  <1>4. ASSUME NEW s \in Session, UpdateCache(s) PROVE StopsGone'
    <2> DEFINE d == [op |-> call[s].then, lib |-> call[s].lib, path |-> call[s].path]
    <2>1. /\ call[s].op = "cache"
          /\ call' = [call EXCEPT ![s] = Idle] \/ call' = [call EXCEPT ![s] = d]
      BY <1>4 DEF UpdateCache
    <2>2. call[s].then \in {"done", "watch", "stop"}
      BY <2>1 DEF PInv, RInv, CallsTyped, Carries, Idle
    <2>3. Stops(d)
      BY <1>0, <2>1, <2>2 DEF Stops
    <2> HIDE DEF d
    <2> QED BY <1>0, <1>2, <2>1, <2>3
  <1>5. ASSUME NEW s \in Session, TellWatcher(s) PROVE StopsGone'
    BY <1>0, <1>2, <1>5 DEF TellWatcher
  <1>6. ASSUME NEW s \in Session, NEW l \in Library, Delete(s, l) PROVE StopsGone'
    <2> DEFINE d == [op |-> "cache", lib |-> l, path |-> NoPath, then |-> "stop"]
    <2>1. call' = [call EXCEPT ![s] = d] /\ Stops(d)
      BY <1>6 DEF Delete, Begin, Stops
    <2> HIDE DEF d
    <2> QED BY <1>2, <2>1
  <1>7. ASSUME NEW s \in Session, NEW l \in Library, NEW p \in Path, Save(s, l, p) PROVE StopsGone'
    <2> DEFINE d == [op |-> "cache", lib |-> l, path |-> p, then |-> "watch"]
    <2>1. call' = [call EXCEPT ![s] = d] /\ Stops(d)
      BY <1>7 DEF Save, Begin, Stops
    <2> HIDE DEF d
    <2> QED BY <1>2, <2>1
  <1>8. ASSUME NEW s \in Session, NEW l \in Library, NEW p \in Path, UpdateReads(s, l, p) PROVE StopsGone'
    <2> DEFINE d == [op |-> "put", lib |-> l, path |-> p, old |-> path[l]]
    <2>1. call' = [call EXCEPT ![s] = d] /\ Stops(d)
      BY <1>8 DEF UpdateReads, Begin, Stops
    <2> HIDE DEF d
    <2> QED BY <1>2, <2>1
  <1>9. CASE \/ UNCHANGED watchersVars \/ RunStarts \/ RunLists \/ RunLoops \/ RunEnds
             \/ \E l \in Library, p \in Path : RunWatches(l, p)
             \/ \E i \in Instance : InstanceEnds(i)
             \/ \E l \in Library : GetPath(l)
    BY <1>1, <1>9 DEF watchersVars, RunStarts, RunLists, RunLoops, RunEnds, RunWatches, InstanceEnds, GetPath
  <1> QED BY <1>3, <1>4, <1>5, <1>6, <1>7, <1>8, <1>9 DEF WatchersNext

LEMMA FitsStep ==
  ASSUME PInv, [WatchersNext]_watchersVars, NEW l \in Library \ raced' PROVE Fits(l)'
  <1>1. raced \subseteq raced'
    <2>1. ASSUME NEW s \in Session, NEW c, Begin(s, c) PROVE raced \subseteq raced'
      BY <2>1 DEF Begin, Races
    <2>2. ASSUME NEW s \in Session, UpdateWrites(s) PROVE raced \subseteq raced'
      BY <2>2 DEF UpdateWrites
    <2>3. ASSUME NEW s \in Session, NEW k \in Library,
                 Delete(s, k) \/ \E p \in Path : Save(s, k, p) \/ UpdateReads(s, k, p)
          PROVE  raced \subseteq raced'
      BY <2>1, <2>3 DEF Delete, Save, UpdateReads
    <2>4. CASE \/ UNCHANGED watchersVars \/ RunStarts \/ RunLists \/ RunLoops \/ RunEnds
               \/ \E k \in Library, p \in Path : RunWatches(k, p)
               \/ \E i \in Instance : InstanceEnds(i)
               \/ \E k \in Library : GetPath(k)
               \/ \E s \in Session : UpdateCache(s) \/ TellWatcher(s)
      BY <2>4 DEF watchersVars, RunStarts, RunLists, RunLoops, RunEnds, RunWatches, InstanceEnds, GetPath,
                  UpdateCache, TellWatcher
    <2> QED BY <2>2, <2>3, <2>4 DEF WatchersNext
  <1>2. l \in Library /\ l \notin raced' /\ Fits(l)
    BY <1>1 DEF PInv
  <1>3. CASE UNCHANGED watchersVars
    <2>1. UNCHANGED <<path, cache, call, watchers, inst, gaveUp, run, toWatch>>
      BY <1>3 DEF watchersVars, rowVars, instVars
    <2>2. Lone(l)' /\ Knows(l)' /\ CacheFits(l)' /\ (Pending(l)' <=> Pending(l))
      BY <1>2, <2>1, CallsFit
    <2>3. ListFits(l)' /\ (Due(l)' <=> Due(l))
      BY <1>2, <2>1 DEF Fits, ListFits, Due
    <2>4. WatcherFits(l)' /\ GoneFits(l)'
      BY <1>2, <2>1, <2>2, <2>3, WatcherKept
    <2> QED BY <2>2, <2>3, <2>4 DEF Fits
  <1>4. CASE \/ RunStarts \/ RunLists \/ RunLoops \/ RunEnds
             \/ \E k \in Library, p \in Path : RunWatches(k, p)
    BY <1>2, <1>4, RunFits
  <1>5. CASE \E i \in Instance : InstanceEnds(i)
    BY <1>2, <1>5, EndsFits
  <1>6. CASE \E k \in Library : GetPath(k)
    BY <1>2, <1>6, GetPathFits
  <1>7. CASE \E s \in Session : UpdateWrites(s) \/ UpdateCache(s) \/ TellWatcher(s)
    BY <1>2, <1>7, UpdateWritesFits, UpdateCacheFits, TellFits
  <1>8. CASE \E s \in Session, k \in Library :
               Delete(s, k) \/ \E p \in Path : Save(s, k, p) \/ UpdateReads(s, k, p)
    BY <1>2, <1>8, CallFits
  <1> QED BY <1>3, <1>4, <1>5, <1>6, <1>7, <1>8 DEF WatchersNext

LEMMA PInvInit == WatchersInit => PInv
  <1> SUFFICES ASSUME WatchersInit PROVE PInv
    OBVIOUS
  <1>1. WInv /\ RInv
    BY WInvInit, RInvInit
  <1>2. Records /\ NotYet /\ StopsGone
    BY DEF WatchersInit, Records, NotYet, StopsGone, Stops, Idle
  <1>3. ASSUME NEW l \in Library PROVE Fits(l)
    BY DEF WatchersInit, Fits, Lone, Knows, CacheFits, WatcherFits, GoneFits, ListFits, Due, About
  <1> QED BY <1>1, <1>2, <1>3 DEF PInv

LEMMA PInvStep == PInv /\ [WatchersNext]_watchersVars => PInv'
  <1> SUFFICES ASSUME PInv, [WatchersNext]_watchersVars PROVE PInv'
    OBVIOUS
  <1>1. WInv' /\ RInv'
    BY WInvStep, RInvStep DEF PInv
  <1>2. Records' /\ NotYet' /\ StopsGone'
    BY RecordsStep, NotYetStep, StopsGoneStep
  <1> QED BY <1>1, <1>2, FitsStep DEF PInv

\* While Run is in its loop, a library that no call is about is watched where its
\* row says or by a watcher that gave up there, and GetPath never answers with
\* another path than the row's, in every interleaving of sessions, watchers and the
\* start of Run, for the libraries whose calls met neither each other nor Run's list.
THEOREM WatchedInPlaceCorrect == WatchersSpec => []WatchedInPlace
  <1>1. PInv => WatchedInPlace
    <2> SUFFICES ASSUME PInv, NEW l \in Library \ raced, ~InCall(l)
                 PROVE  /\ cache[l] \in {NoPath, path[l]}
                        /\ run = "loop" /\ watchers[l] # 0 => inst[watchers[l]].path = path[l]
                        /\ run = "loop" /\ path[l] # NoPath /\ watchers[l] = 0 =>
                             \E i \in gaveUp : inst[i] = [lib |-> l, path |-> path[l]]
      BY DEF WatchedInPlace
    <2>1. (\A s \in Session : ~About(s, l)) /\ ~Pending(l) /\ Fits(l)
      BY DEF InCall, About, Pending, PInv
    <2> QED BY <2>1 DEF Fits, CacheFits, WatcherFits, GoneFits, Due
  <1> QED BY <1>1, PInvInit, PInvStep, PTL DEF WatchersSpec
=============================================================================
