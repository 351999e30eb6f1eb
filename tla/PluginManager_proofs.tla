----------------------- MODULE PluginManager_proofs ------------------------
(***************************************************************************)
(* For any workers, versions, requests, file changes and faults: Stop is   *)
(* final, an object is closed once, and a plugin that lost its users is    *)
(* disabled; and with operations one at a time and no fault, the map       *)
(* follows the row and the row follows the file.                           *)
(*                                                                         *)
(* The first three rest on where a worker can be: its steps follow as they *)
(* do in the code (Fits), so that nobody is past the second look at Stop   *)
(* once Stop has waited, and who is about to close or insert an object     *)
(* holds it alone.  For the grants, a row about to be written is one whose *)
(* plugin is disabled or has what it asks for; what the deletion of a user *)
(* takes away is made good by the worker that took it.                     *)
(*                                                                         *)
(* The last two need to know what the only worker has in hand at each of   *)
(* its steps (Stage): where the plugin is, which objects are closed, that  *)
(* the copy it works on is still the row, and, unless a change of the file *)
(* is still to be handled (Told), that what it writes last is the file's.  *)
(***************************************************************************)
EXTENDS PluginManager, Integers, TLAPS

RowType == [there : BOOLEAN, enabled : BOOLEAN, sha : Version \cup {None}, granted : BOOLEAN]
Name == {"readdir", "hash", "hashChanged", "get", "getRemoved", "extract", "put", "putOn", "save", "delete",
         "strip", "autoDisable", "disabled", "unload", "close", "check", "add", "build", "insert", "init",
         "enabled", "watch", "event"}
Kind == {"idle", "boot", "enable", "disable", "settings", "deleteUser", "rescan", "event"}
Op == [kind : Kind, todo : Seq(Name), rec : RowType, ver : Version \cup {None}, obj : Nat]
Obj == [granted : BOOLEAN, closes : Nat]
Watch == [on : BOOLEAN, event : BOOLEAN, timers : Int, entry : {"none", "armed", "fired"}, missed : BOOLEAN]

Typed ==
  /\ op \in [Worker -> Op] /\ row \in RowType /\ disk \in Version \cup {None}
  /\ objs \in Seq(Obj) /\ loaded \in 0..Len(objs)
  /\ stop \in {"no", "stopped", "unwatched", "waited", "closed", "crashed"}
  /\ watch \in Watch
  /\ budget \in [ops : Nat, changes : Nat, faults : Nat]

\* b may come after a in the steps of an operation.
Follows(a, b) ==
  /\ (a = "unload") <=> (b = "close")
  /\ (a = "strip") <=> (b = "autoDisable")
  /\ (a = "check") <=> (b = "add")
  /\ (a = "add") <=> (b = "build")
  /\ (a = "build") <=> (b = "insert")
  /\ (a = "insert") <=> (b = "init")
  /\ b # "save"
Linked == {"unload", "strip", "check", "add", "build", "insert"}

Fits(s) ==
  /\ s \in Seq(Name)
  /\ \A k \in 1..Len(s) : s[k] \in Linked => k < Len(s)
  /\ \A k \in 1..(Len(s) - 1) : Follows(s[k], s[k + 1])

\* What a worker has read is what the steps it is at will write.
ToPut == <<"put", "close", "unload">>
ToPutOn == <<"putOn", "init", "insert", "build", "add", "check">>
Writes(o) ==
  \A k \in 1..Len(o.todo) :
    /\ o.todo[k] = "put" => ~o.rec.enabled /\ k <= 3 /\ o.todo[1] = ToPut[k]
    /\ o.todo[k] = "putOn" => o.rec.granted /\ k <= 6 /\ o.todo[1] = ToPutOn[k]
    /\ o.todo[k] \in {"strip", "autoDisable"} => o.kind = "deleteUser"

Plans == \A w \in Worker : Fits(op[w].todo) /\ Writes(op[w])

\* Between taking an object out of the map and closing it, and between building an
\* object and inserting it, a worker is the only one that knows it.
Holds(w) == At(w, "close") \/ At(w, "insert")
Owned ==
  /\ \A w \in Worker : Holds(w) => op[w].obj \in 1..Len(objs) /\ op[w].obj # loaded /\ objs[op[w].obj].closes = 0
  /\ \A v, w \in Worker : Holds(v) /\ Holds(w) /\ op[v].obj = op[w].obj => v = w

Halted ==
  /\ stop \in {"waited", "closed"} => Loading = {}
  /\ stop = "closed" => loaded = None

\* No statement failed and the file is what it was.
Undisturbed == budget.faults = MaxFaults /\ budget.changes = MaxChanges /\ disk # None
Grants ==
  /\ budget.faults <= MaxFaults /\ budget.changes <= MaxChanges
  /\ budget.changes = MaxChanges => disk \in {Installed, None} /\ ~watch.event
  /\ Undisturbed =>
       /\ row.enabled => row.granted \/ \E w \in Worker : At(w, "autoDisable")
       /\ \A w \in Worker : At(w, "save") => (op[w].rec.enabled => op[w].rec.granted)

PInv == Typed /\ Plans /\ Owned /\ ClosedOnce /\ Halted /\ Grants

-----------------------------------------------------------------------------
(* The steps of an operation. *)

LEMMA EmptySteps == ASSUME NEW s \in Seq(Name) PROVE s # <<>> <=> Len(s) > 0
  OBVIOUS

LEMMA TailSteps ==
  ASSUME NEW s \in Seq(Name), s # <<>>
  PROVE  /\ Tail(s) \in Seq(Name) /\ Len(Tail(s)) = Len(s) - 1 /\ Head(s) = s[1] /\ Len(s) \in Nat /\ Len(s) > 0
         /\ \A k \in 1..(Len(s) - 1) : Tail(s)[k] = s[k + 1]
         /\ <<>> \o Tail(s) = Tail(s)
  OBVIOUS

LEMMA PopFits == ASSUME NEW s, Fits(s), s # <<>> PROVE Fits(Tail(s))
  <1>1. s \in Seq(Name)
    BY DEF Fits
  <1>2. /\ Tail(s) \in Seq(Name) /\ Len(Tail(s)) = Len(s) - 1 /\ Len(s) \in Nat /\ Len(s) > 0
        /\ \A k \in 1..(Len(s) - 1) : Tail(s)[k] = s[k + 1]
    BY <1>1, TailSteps
  <1>3. ASSUME NEW k \in 1..Len(Tail(s)), Tail(s)[k] \in Linked PROVE k < Len(Tail(s))
    <2>1. k + 1 \in 1..Len(s) /\ s[k + 1] \in Linked
      BY <1>2, <1>3
    <2>2. k + 1 < Len(s)
      BY <2>1 DEF Fits
    <2> QED BY <1>2, <2>2
  <1>4. ASSUME NEW k \in 1..(Len(Tail(s)) - 1) PROVE Follows(Tail(s)[k], Tail(s)[k + 1])
    <2>1. k + 1 \in 1..(Len(s) - 1) /\ k \in 1..(Len(s) - 1)
      BY <1>2
    <2>2. Tail(s)[k] = s[k + 1] /\ Tail(s)[k + 1] = s[(k + 1) + 1]
      BY <1>2, <2>1
    <2> QED BY <2>1, <2>2 DEF Fits
  <1> QED BY <1>2, <1>3, <1>4 DEF Fits

LEMMA CatSteps ==
  ASSUME NEW s \in Seq(Name), NEW t \in Seq(Name)
  PROVE  /\ s \o t \in Seq(Name) /\ Len(s \o t) = Len(s) + Len(t) /\ Len(s) \in Nat /\ Len(t) \in Nat
         /\ \A k \in 1..Len(s) : (s \o t)[k] = s[k]
         /\ \A k \in 1..(Len(s) + Len(t)) : k > Len(s) => (s \o t)[k] = t[k - Len(s)] /\ k - Len(s) \in 1..Len(t)
  OBVIOUS

\* What cannot be the first of the steps that come after others.
Bound == {"close", "autoDisable", "add", "build", "insert", "init", "save"}

LEMMA CatFits ==
  ASSUME NEW s, NEW t, Fits(s), Fits(t), t # <<>> => t[1] \notin Bound
  PROVE  Fits(s \o t)
  <1> DEFINE n == s \o t
  <1>1. s \in Seq(Name) /\ t \in Seq(Name)
    BY DEF Fits
  <1>2. /\ n \in Seq(Name) /\ Len(n) = Len(s) + Len(t) /\ Len(s) \in Nat /\ Len(t) \in Nat
        /\ \A k \in 1..Len(s) : n[k] = s[k]
        /\ \A k \in 1..Len(n) : k > Len(s) => n[k] = t[k - Len(s)] /\ k - Len(s) \in 1..Len(t)
    BY <1>1, CatSteps
  <1>3. Len(t) > 0 => t # <<>>
    BY <1>1
  <1> HIDE DEF n
  <1>4. ASSUME NEW k \in 1..Len(n), n[k] \in Linked PROVE k < Len(n)
    <2>1. CASE k <= Len(s)
      <3>1. k \in 1..Len(s) /\ s[k] \in Linked
        BY <1>2, <1>4, <2>1
      <3> QED BY <1>2, <3>1 DEF Fits
    <2>2. CASE k > Len(s)
      <3> DEFINE j == k - Len(s)
      <3>1. j \in 1..Len(t) /\ t[j] \in Linked
        BY <1>2, <1>4, <2>2
      <3>2. j < Len(t)
        BY <3>1 DEF Fits
      <3> QED BY <1>2, <3>2
    <2> QED BY <1>2, <2>1, <2>2
  <1>5. ASSUME NEW k \in 1..(Len(n) - 1) PROVE Follows(n[k], n[k + 1])
    <2>1. CASE k < Len(s)
      <3>1. k \in 1..(Len(s) - 1) /\ n[k] = s[k] /\ n[k + 1] = s[k + 1]
        BY <1>2, <2>1
      <3> QED BY <3>1 DEF Fits
    <2>2. CASE k = Len(s)
      <3>1. k \in 1..Len(s) /\ k + 1 \in 1..Len(n) /\ k + 1 > Len(s) /\ (k + 1) - Len(s) = 1
        BY <1>2, <2>2
      <3>2. n[k] = s[k] /\ n[k + 1] = t[1] /\ 1 \in 1..Len(t)
        BY <1>2, <3>1
      <3>3. s[k] \notin Linked /\ t[1] \notin Bound
        BY <1>2, <1>3, <2>2, <3>1, <3>2 DEF Fits
      <3> QED BY <3>2, <3>3 DEF Follows, Linked, Bound
    <2>3. CASE k > Len(s)
      <3> DEFINE j == k - Len(s)
      <3>1. k \in 1..Len(n) /\ k + 1 \in 1..Len(n) /\ k + 1 > Len(s) /\ (k + 1) - Len(s) = j + 1
        BY <1>2, <2>3
      <3>2. n[k] = t[j] /\ n[k + 1] = t[j + 1] /\ j \in 1..(Len(t) - 1)
        BY <1>2, <2>3, <3>1
      <3> HIDE DEF j
      <3> QED BY <3>2 DEF Fits
    <2> QED BY <1>2, <2>1, <2>2, <2>3
  <1> QED BY <1>2, <1>4, <1>5 DEF Fits, n

\* The step after one that links to none.
LEMMA SecondStep ==
  ASSUME NEW s, Fits(s), s # <<>>, s[1] \notin Linked, Tail(s) # <<>>
  PROVE  Tail(s)[1] \notin Bound
  <1>1. s \in Seq(Name)
    BY DEF Fits
  <1>2. Tail(s) \in Seq(Name) /\ Len(Tail(s)) = Len(s) - 1 /\ Len(s) \in Nat
    BY <1>1, TailSteps
  <1>3. 1 \in 1..(Len(s) - 1)
    BY <1>2
  <1>4. Tail(s)[1] = s[1 + 1] /\ Follows(s[1], s[1 + 1])
    BY <1>1, <1>3, TailSteps DEF Fits
  <1> QED BY <1>4 DEF Follows, Linked, Bound

\* The steps a worker can be given in place of the one it is at, with what it read.
Held == {"close", "autoDisable", "build", "insert", "init", "save"}
Given(t, r) ==
  /\ Fits(t)
  /\ t # <<>> => t[1] \notin Held
  /\ \A k \in 1..Len(t) :
       /\ t[k] = "put" => ~r.enabled /\ k <= 3 /\ t[1] = ToPut[k]
       /\ t[k] # "putOn" /\ t[k] \notin {"strip", "autoDisable"}

LEMMA OneStep ==
  ASSUME NEW x \in Name
  PROVE  <<x>> \in Seq(Name) /\ Len(<<x>>) = 1 /\ <<x>>[1] = x /\ <<x>> # <<>> /\ <<>> \o <<x>> = <<x>>
  OBVIOUS

LEMMA OneFits == ASSUME NEW x \in Name, x \notin Linked PROVE Fits(<<x>>)
  <1> DEFINE s == <<x>>
  <1>1. s \in Seq(Name) /\ Len(s) = 1 /\ s[1] = x
    BY OneStep
  <1> HIDE DEF s
  <1>2. Fits(s)
    BY <1>1 DEF Fits
  <1> QED BY <1>2 DEF s

LEMMA UnloadSteps ==
  /\ Unload \in Seq(Name) /\ Len(Unload) = 2 /\ Unload[1] = "unload" /\ Unload[2] = "close" /\ Unload # <<>>
  /\ Fits(Unload)
  <1>1. Unload \in Seq(Name) /\ Len(Unload) = 2 /\ Unload[1] = "unload" /\ Unload[2] = "close" /\ Unload # <<>>
    BY DEF Unload, Name
  <1>2. Fits(Unload)
    BY <1>1 DEF Fits, Linked, Follows
  <1> QED BY <1>1, <1>2

LEMMA LoadSteps ==
  /\ Load \in Seq(Name) /\ Len(Load) = 5 /\ Load # <<>> /\ Fits(Load)
  /\ Load[1] = "check" /\ Load[2] = "add" /\ Load[3] = "build" /\ Load[4] = "insert" /\ Load[5] = "init"
  <1>1. /\ Load \in Seq(Name) /\ Len(Load) = 5 /\ Load # <<>>
        /\ Load[1] = "check" /\ Load[2] = "add" /\ Load[3] = "build" /\ Load[4] = "insert" /\ Load[5] = "init"
    BY DEF Load, Name
  <1>2. Fits(Load)
    BY <1>1 DEF Fits, Linked, Follows
  <1> QED BY <1>1, <1>2

\* unloadPlugin, then x.
LEMMA UnloadThen ==
  ASSUME NEW x \in Name, x \notin Linked \cup Bound, NEW s, s = Unload \o <<x>>
  PROVE  Fits(s) /\ Len(s) = 3 /\ s[1] = "unload" /\ s[2] = "close" /\ s[3] = x /\ s # <<>> /\ s \in Seq(Name)
  <1> DEFINE t == <<x>>
  <1>1. t \in Seq(Name) /\ Len(t) = 1 /\ t[1] = x /\ Fits(t)
    BY OneStep, OneFits
  <1> HIDE DEF t
  <1>2. Fits(Unload \o t)
    BY <1>1, UnloadSteps, CatFits
  <1>3. /\ Len(Unload \o t) = 3 /\ (Unload \o t)[1] = "unload" /\ (Unload \o t)[2] = "close" /\ (Unload \o t)[3] = x
    <2> DEFINE n == Unload \o t
    <2>1. /\ Len(n) = Len(Unload) + Len(t) /\ \A k \in 1..Len(Unload) : n[k] = Unload[k]
          /\ \A k \in 1..(Len(Unload) + Len(t)) : k > Len(Unload) => n[k] = t[k - Len(Unload)]
      BY <1>1, UnloadSteps, CatSteps
    <2> HIDE DEF n
    <2>2. Len(n) = 3 /\ n[1] = "unload" /\ n[2] = "close" /\ n[3] = x
      BY <1>1, <2>1, UnloadSteps
    <2> QED BY <2>2 DEF n
  <1> QED BY <1>2, <1>3 DEF t, Fits

LEMMA GivenSteps ==
  ASSUME NEW r \in RowType
  PROVE  /\ Given(<<>>, r) /\ Given(Unload, r) /\ Given(Load, r)
         /\ \A x \in {"hash", "extract", "get", "hashChanged", "getRemoved"} : Given(<<x>>, r)
         /\ \A q \in RowType : ~r.enabled => Given(Disabling(q), r)
         /\ \A q \in RowType : Given(Remove(q), r)
  <1>1. Given(<<>>, r)
    BY DEF Given, Fits
  <1>2. Given(Unload, r) /\ Given(Load, r)
    BY UnloadSteps, LoadSteps DEF Given, Held
  <1>3. ASSUME NEW x \in {"hash", "extract", "get", "hashChanged", "getRemoved", "delete", "put"},
               x = "put" => ~r.enabled
        PROVE  Given(<<x>>, r)
    <2> DEFINE s == <<x>>
    <2>1. x \in Name /\ x \notin Linked \cup Held
      BY DEF Name, Linked, Held
    <2>2. s \in Seq(Name) /\ Len(s) = 1 /\ s[1] = x /\ Fits(s)
      BY <2>1, OneStep, OneFits
    <2> HIDE DEF s
    <2>3. Given(s, r)
      BY <1>3, <2>1, <2>2 DEF Given, ToPut
    <2> QED BY <2>3 DEF s
  <1>4. ASSUME NEW x \in {"delete", "put"}, x = "put" => ~r.enabled PROVE Given(Unload \o <<x>>, r)
    <2> DEFINE s == Unload \o <<x>>
    <2>1. x \in Name /\ x \notin Linked \cup Bound
      BY DEF Name, Linked, Bound
    <2>2. Fits(s) /\ Len(s) = 3 /\ s[1] = "unload" /\ s[2] = "close" /\ s[3] = x /\ s # <<>>
      BY <2>1, UnloadThen
    <2> HIDE DEF s
    <2>3. Given(s, r)
      BY <1>4, <2>2 DEF Given, Held, ToPut
    <2> QED BY <2>3 DEF s
  <1>5. \A x \in {"delete", "put"} : <<>> \o <<x>> = <<x>>
    BY OneStep DEF Name
  <1>6. \A q \in RowType : Given(Remove(q), r)
    BY <1>3, <1>4, <1>5 DEF Remove
  <1>7. \A q \in RowType : ~r.enabled => Given(Disabling(q), r)
    BY <1>3, <1>4, <1>5 DEF Disabling
  <1> QED BY <1>1, <1>2, <1>3, <1>6, <1>7

\* Worker w moves; whoever goes Onward needs nobody's leave.
Moves(w) ==
  /\ op' \in [Worker -> Op] /\ \A v \in Worker \ {w} : op'[v] = op[v]
  /\ op'[w].kind = op[w].kind
Onward(w) ==
  /\ op' \in [Worker -> Op] /\ \A v \in Worker \ {w} : op'[v] = op[v]
  /\ Fits(op'[w].todo) /\ Writes(op'[w])
  /\ op'[w].todo # <<>> => op'[w].todo[1] \notin Held

LEMMA AtStep ==
  ASSUME PInv, NEW w \in Worker, NEW s, At(w, s)
  PROVE  /\ op[w] \in Op /\ op[w].todo \in Seq(Name) /\ op[w].todo # <<>> /\ op[w].todo[1] = s
         /\ Fits(op[w].todo) /\ Writes(op[w])
  <1>1. op[w] \in Op /\ op[w].todo \in Seq(Name) /\ op[w].todo # <<>>
    BY DEF PInv, Typed, Op, At, Busy
  <1>2. Head(op[w].todo) = op[w].todo[1]
    BY <1>1, TailSteps
  <1> QED BY <1>1, <1>2 DEF At, PInv, Plans

LEMMA GoMoves ==
  ASSUME PInv, NEW w \in Worker, NEW s, At(w, s), NEW t \in Seq(Name), Go(w, t)
  PROVE  /\ Moves(w) /\ op'[w].todo = t \o Tail(op[w].todo) /\ op'[w].rec = op[w].rec /\ op'[w].obj = op[w].obj
         /\ op'[w].ver = op[w].ver /\ op[w].rec \in RowType
  <1>1. op[w] \in Op /\ op[w].todo \in Seq(Name) /\ op[w].todo # <<>>
    BY AtStep
  <1>2. Tail(op[w].todo) \in Seq(Name)
    BY <1>1, TailSteps
  <1> DEFINE n == t \o Tail(op[w].todo)
  <1>3. n \in Seq(Name)
    BY <1>2
  <1>4. op' = [op EXCEPT ![w].todo = n]
    BY DEF Go, Then
  <1> HIDE DEF n
  <1>5. op'[w] = [op[w] EXCEPT !.todo = n] /\ \A v \in Worker \ {w} : op'[v] = op[v]
    BY <1>4 DEF PInv, Typed
  <1>6. op'[w] \in Op /\ op'[w].todo = n /\ op'[w].rec = op[w].rec /\ op'[w].obj = op[w].obj
        /\ op'[w].ver = op[w].ver /\ op'[w].kind = op[w].kind
    BY <1>1, <1>3, <1>5 DEF Op
  <1>7. op' \in [Worker -> Op]
    BY <1>4, <1>5, <1>6 DEF PInv, Typed
  <1> QED BY <1>1, <1>5, <1>6, <1>7 DEF n, Moves, Op

LEMMA GoWithMoves ==
  ASSUME PInv, NEW w \in Worker, NEW s, At(w, s), NEW t \in Seq(Name), NEW r \in RowType, GoWith(w, t, r)
  PROVE  Moves(w) /\ op'[w].todo = t \o Tail(op[w].todo) /\ op'[w].rec = r
  <1>1. op[w] \in Op /\ op[w].todo \in Seq(Name) /\ op[w].todo # <<>>
    BY AtStep
  <1>2. Tail(op[w].todo) \in Seq(Name)
    BY <1>1, TailSteps
  <1> DEFINE n == t \o Tail(op[w].todo)
  <1>3. n \in Seq(Name)
    BY <1>2
  <1>4. op' = [op EXCEPT ![w].todo = n, ![w].rec = r]
    BY DEF GoWith, Then
  <1> HIDE DEF n
  <1>5. op'[w] = [op[w] EXCEPT !.todo = n, !.rec = r] /\ \A v \in Worker \ {w} : op'[v] = op[v]
    BY <1>4 DEF PInv, Typed
  <1>6. op'[w] \in Op /\ op'[w].todo = n /\ op'[w].rec = r /\ op'[w].kind = op[w].kind
    BY <1>1, <1>3, <1>5 DEF Op
  <1>7. op' \in [Worker -> Op]
    BY <1>4, <1>5, <1>6 DEF PInv, Typed
  <1> QED BY <1>5, <1>6, <1>7 DEF n, Moves

LEMMA GoOnward ==
  ASSUME PInv, NEW w \in Worker, NEW s, At(w, s), s \notin Linked \cup {"close", "init"}, Moves(w),
         NEW t, Given(t, op'[w].rec), op'[w].todo = t \o Tail(op[w].todo)
  PROVE  Onward(w)
  <1> DEFINE o == op[w].todo
             u == Tail(op[w].todo)
             n == op'[w].todo
  <1>1. o \in Seq(Name) /\ o # <<>> /\ o[1] = s /\ Fits(o) /\ Writes(op[w])
    BY AtStep
  <1>2. /\ u \in Seq(Name) /\ Len(u) = Len(o) - 1 /\ Len(o) \in Nat
        /\ \A k \in 1..(Len(o) - 1) : u[k] = o[k + 1]
    BY <1>1, TailSteps
  <1>3. Fits(u) /\ Fits(t) /\ t \in Seq(Name)
    BY <1>1, PopFits DEF Given, Fits
  <1>4. u # <<>> => u[1] \notin Bound
    BY <1>1, SecondStep
  <1>5. Fits(n)
    BY <1>3, <1>4, CatFits
  <1>6. /\ Len(n) = Len(t) + Len(u) /\ Len(t) \in Nat /\ Len(u) \in Nat
        /\ \A k \in 1..Len(t) : n[k] = t[k]
        /\ \A k \in 1..(Len(t) + Len(u)) : k > Len(t) => n[k] = u[k - Len(t)] /\ k - Len(t) \in 1..Len(u)
    BY <1>2, <1>3, CatSteps
  <1>7. (n # <<>> <=> Len(n) > 0) /\ (t # <<>> <=> Len(t) > 0) /\ (u # <<>> <=> Len(u) > 0)
    <2>1. u \in Seq(Name) /\ t \in Seq(Name) /\ n \in Seq(Name)
      BY <1>2, <1>3, <1>5 DEF Fits
    <2> HIDE DEF u, n
    <2> QED BY <2>1, EmptySteps
  <1>8. \A k \in 2..Len(o) : o[k] \notin {"put", "putOn"}
    <2> SUFFICES ASSUME NEW k \in 2..Len(o), o[k] \in {"put", "putOn"} PROVE FALSE
      OBVIOUS
    <2>1. (k <= 3 /\ s = ToPut[k]) \/ (k <= 6 /\ s = ToPutOn[k])
      BY <1>1, <1>2 DEF Writes
    <2> QED BY <1>2, <2>1 DEF ToPut, ToPutOn, Linked
  <1>9. \A k \in 1..Len(u) : u[k] \notin {"put", "putOn"} /\ (u[k] \in {"strip", "autoDisable"} => op[w].kind = "deleteUser")
    <2> SUFFICES ASSUME NEW k \in 1..Len(u)
                 PROVE  u[k] \notin {"put", "putOn"} /\ (u[k] \in {"strip", "autoDisable"} => op[w].kind = "deleteUser")
      OBVIOUS
    <2>1. u[k] = o[k + 1] /\ k + 1 \in 2..Len(o)
      BY <1>2
    <2> QED BY <1>1, <1>8, <2>1 DEF Writes
  <1> HIDE DEF o, u, n
  <1>10. Writes(op'[w])
    <2> SUFFICES ASSUME NEW k \in 1..Len(n)
                 PROVE  /\ n[k] = "put" => ~op'[w].rec.enabled /\ k <= 3 /\ n[1] = ToPut[k]
                        /\ n[k] = "putOn" => op'[w].rec.granted /\ k <= 6 /\ n[1] = ToPutOn[k]
                        /\ n[k] \in {"strip", "autoDisable"} => op'[w].kind = "deleteUser"
      BY DEF Writes, n
    <2>1. CASE k <= Len(t)
      BY <1>6, <2>1 DEF Given
    <2>2. CASE k > Len(t)
      BY <1>6, <1>9, <2>2 DEF Moves
    <2> QED BY <1>6, <2>1, <2>2
  <1>11. n # <<>> => n[1] \notin Held
    <2>1. CASE t # <<>>
      BY <1>6, <1>7, <2>1 DEF Given
    <2>2. CASE t = <<>>
      BY <1>4, <1>6, <1>7, <2>2 DEF Held, Bound
    <2> QED BY <2>1, <2>2
  <1> QED BY <1>5, <1>10, <1>11 DEF Onward, Moves, n

\* A step is done and what was read is kept.
LEMMA PopSteps ==
  ASSUME PInv, NEW w \in Worker, NEW s, At(w, s), Moves(w), op'[w].todo = Tail(op[w].todo),
         op'[w].rec = op[w].rec
  PROVE  /\ Fits(op'[w].todo) /\ Writes(op'[w])
         /\ s \in Linked => op'[w].todo # <<>> /\ Follows(s, op'[w].todo[1])
         /\ s \notin Linked => Onward(w)
  <1> DEFINE o == op[w].todo
             n == op'[w].todo
  <1>1. o \in Seq(Name) /\ o # <<>> /\ o[1] = s /\ Fits(o) /\ Writes(op[w])
    BY AtStep
  <1>2. /\ n \in Seq(Name) /\ Len(n) = Len(o) - 1 /\ Len(o) \in Nat /\ Len(o) > 0
        /\ \A k \in 1..(Len(o) - 1) : n[k] = o[k + 1]
    BY <1>1, TailSteps
  <1>3. Fits(n)
    BY <1>1, PopFits
  <1>4. s \notin Linked /\ n # <<>> => n[1] \notin Held
    BY <1>1, SecondStep DEF Held, Bound
  <1> HIDE DEF o, n
  <1>5. n # <<>> <=> Len(n) > 0
    BY <1>2, EmptySteps
  <1>6. s \in Linked => n # <<>> /\ Follows(s, n[1])
    <2> SUFFICES ASSUME s \in Linked PROVE n # <<>> /\ Follows(s, n[1])
      OBVIOUS
    <2>1. 1 \in 1..(Len(o) - 1)
      BY <1>1, <1>2 DEF Fits
    <2>2. Follows(o[1], o[1 + 1]) /\ n[1] = o[1 + 1]
      BY <1>1, <1>2, <2>1 DEF Fits
    <2> QED BY <1>1, <1>2, <1>5, <2>1, <2>2
  <1>7. Writes(op'[w])
    <2> SUFFICES ASSUME NEW k \in 1..Len(n)
                 PROVE  /\ n[k] = "put" => ~op[w].rec.enabled /\ k <= 3 /\ n[1] = ToPut[k]
                        /\ n[k] = "putOn" => op[w].rec.granted /\ k <= 6 /\ n[1] = ToPutOn[k]
                        /\ n[k] \in {"strip", "autoDisable"} => op[w].kind = "deleteUser"
      BY DEF Writes, n, Moves
    <2>1. n[k] = o[k + 1] /\ k + 1 \in 2..Len(o)
      BY <1>2
    <2>2. /\ o[k + 1] = "put" => ~op[w].rec.enabled /\ k + 1 <= 3 /\ s = ToPut[k + 1]
          /\ o[k + 1] = "putOn" => op[w].rec.granted /\ k + 1 <= 6 /\ s = ToPutOn[k + 1]
          /\ o[k + 1] \in {"strip", "autoDisable"} => op[w].kind = "deleteUser"
      BY <1>1, <1>2, <2>1 DEF Writes, o
    <2>3. ASSUME n[k] = "put" PROVE n[1] = ToPut[k]
      <3>1. k = 1 \/ (k = 2 /\ s = "unload")
        BY <2>1, <2>2, <2>3 DEF ToPut
      <3> QED BY <1>6, <2>3, <3>1 DEF ToPut, Follows, Linked
    <2>4. ASSUME n[k] = "putOn" PROVE n[1] = ToPutOn[k]
      <3>1. \/ k = 1 \/ (k = 2 /\ s = "insert") \/ (k = 3 /\ s = "build") \/ (k = 4 /\ s = "add")
            \/ (k = 5 /\ s = "check")
        BY <2>1, <2>2, <2>4 DEF ToPutOn
      <3> QED BY <1>6, <2>4, <3>1 DEF ToPutOn, Follows, Linked
    <2> QED BY <1>2, <2>1, <2>2, <2>3, <2>4
  <1> QED BY <1>3, <1>4, <1>6, <1>7 DEF Onward, Moves, n

LEMMA RestSteps ==
  ASSUME NEW kind
  PROVE  /\ Fits(Rest(kind)) /\ (Rest(kind) # <<>> => Rest(kind)[1] \notin Bound)
         /\ Len(Rest(kind)) <= 1 /\ \A k \in 1..Len(Rest(kind)) : Rest(kind)[k] = "watch"
  <1>1. CASE kind = "boot"
    <2> DEFINE s == <<"watch">>
    <2>1. "watch" \in Name /\ "watch" \notin Linked \cup Bound
      BY DEF Name, Linked, Bound
    <2>2. Fits(s) /\ Len(s) = 1 /\ s[1] = "watch"
      BY <2>1, OneStep, OneFits
    <2>3. Rest(kind) = s
      BY <1>1 DEF Rest
    <2> HIDE DEF s
    <2>4. Len(s) <= 1 /\ \A k \in 1..Len(s) : s[k] = "watch"
      BY <2>2
    <2> QED BY <2>1, <2>2, <2>3, <2>4
  <1>2. CASE kind # "boot"
    BY <1>2 DEF Rest, Fits
  <1> QED BY <1>1, <1>2

\* The caller gives up, or stores the error.
LEMMA QuitOnward ==
  ASSUME PInv, NEW w \in Worker, NEW s, At(w, s), Moves(w), NEW t \in {<<>>, <<"put">>},
         t = <<>> \/ ~op'[w].rec.enabled, op'[w].todo = t \o Rest(op[w].kind)
  PROVE  Onward(w)
  <1> DEFINE n == op'[w].todo
             u == Rest(op[w].kind)
  <1>1. Fits(u) /\ u \in Seq(Name) /\ (u # <<>> => u[1] \notin Bound) /\ \A k \in 1..Len(u) : u[k] = "watch"
    BY RestSteps DEF Fits
  <1>2. Fits(t) /\ t \in Seq(Name) /\ Len(t) <= 1 /\ \A k \in 1..Len(t) : t[k] = "put"
    <2>1. CASE t = <<>>
      BY <2>1 DEF Fits
    <2>2. CASE t = <<"put">>
      <3> DEFINE p == <<"put">>
      <3>1. "put" \in Name /\ "put" \notin Linked
        BY DEF Name, Linked
      <3>2. Fits(p) /\ p \in Seq(Name) /\ Len(p) = 1 /\ p[1] = "put"
        BY <3>1, OneStep, OneFits
      <3>3. t = p
        BY <2>2
      <3> HIDE DEF p
      <3>4. Len(p) <= 1 /\ \A k \in 1..Len(p) : p[k] = "put"
        BY <3>2
      <3> QED BY <3>2, <3>3, <3>4
    <2> QED BY <2>1, <2>2
  <1>3. Fits(n)
    BY <1>1, <1>2, CatFits
  <1>4. /\ Len(n) = Len(t) + Len(u) /\ Len(t) \in Nat /\ Len(u) \in Nat
        /\ \A k \in 1..Len(t) : n[k] = t[k]
        /\ \A k \in 1..(Len(t) + Len(u)) : k > Len(t) => n[k] = u[k - Len(t)] /\ k - Len(t) \in 1..Len(u)
    BY <1>1, <1>2, CatSteps
  <1>5. t # <<>> <=> Len(t) > 0
    BY <1>2, EmptySteps
  <1> HIDE DEF n, u
  <1>6. \A k \in 1..Len(n) : (k = 1 /\ n[k] = "put" /\ ~op'[w].rec.enabled) \/ n[k] = "watch"
    <2> SUFFICES ASSUME NEW k \in 1..Len(n)
                 PROVE  (k = 1 /\ n[k] = "put" /\ ~op'[w].rec.enabled) \/ n[k] = "watch"
      OBVIOUS
    <2>1. CASE k <= Len(t)
      BY <1>2, <1>4, <1>5, <2>1
    <2>2. CASE k > Len(t)
      <3>1. n[k] = u[k - Len(t)] /\ k - Len(t) \in 1..Len(u)
        BY <1>4, <2>2
      <3> QED BY <1>1, <3>1
    <2> QED BY <1>4, <2>1, <2>2
  <1>7. Writes(op'[w])
    BY <1>6 DEF Writes, ToPut, n
  <1>8. n # <<>> => n[1] \notin Held
    <2>1. n \in Seq(Name)
      BY <1>3 DEF Fits
    <2>2. n # <<>> => 1 \in 1..Len(n)
      BY <2>1, EmptySteps
    <2> QED BY <1>6, <2>2 DEF Held
  <1> QED BY <1>3, <1>7, <1>8 DEF Onward, Moves, n

LEMMA LoadFailsOnward == ASSUME PInv, NEW w \in Worker, NEW s, At(w, s), LoadFails(w) PROVE Onward(w)
  <1> DEFINE n == <<"put">> \o Rest(op[w].kind)
  <1>1. op[w] \in Op /\ op[w].rec \in RowType
    BY AtStep DEF Op
  <1>2. n \in Seq(Name)
    <2>1. <<"put">> \in Seq(Name)
      BY OneStep DEF Name
    <2>2. Rest(op[w].kind) \in Seq(Name)
      BY RestSteps DEF Fits
    <2> QED BY <2>1, <2>2
  <1>3. op' = [op EXCEPT ![w].todo = n, ![w].rec.enabled = FALSE]
    BY DEF LoadFails
  <1> HIDE DEF n
  <1>4. op'[w] = [op[w] EXCEPT !.todo = n, !.rec.enabled = FALSE] /\ \A v \in Worker \ {w} : op'[v] = op[v]
    BY <1>3 DEF PInv, Typed
  <1> DEFINE r == [op[w].rec EXCEPT !.enabled = FALSE]
  <1>5. r \in RowType /\ ~r.enabled
    BY <1>1 DEF RowType
  <1>6. op'[w] = [op[w] EXCEPT !.todo = n, !.rec = r]
    BY <1>1, <1>4 DEF Op
  <1> HIDE DEF r
  <1>7. op'[w] \in Op /\ op'[w].todo = n /\ op'[w].rec = r /\ op'[w].kind = op[w].kind
    BY <1>1, <1>2, <1>5, <1>6 DEF Op
  <1>8. Moves(w)
    BY <1>3, <1>4, <1>7 DEF PInv, Typed, Moves
  <1> QED BY <1>5, <1>7, <1>8, QuitOnward DEF n

LEMMA QuitsOnward == ASSUME PInv, NEW w \in Worker, NEW s, At(w, s), Quit(w, <<>>) PROVE Onward(w)
  <1> DEFINE n == <<>> \o Rest(op[w].kind)
  <1>1. op[w] \in Op
    BY AtStep
  <1>2. n \in Seq(Name)
    BY RestSteps DEF Fits
  <1>3. op' = [op EXCEPT ![w].todo = n]
    BY DEF Quit
  <1> HIDE DEF n
  <1>4. op'[w] = [op[w] EXCEPT !.todo = n] /\ \A v \in Worker \ {w} : op'[v] = op[v]
    BY <1>3 DEF PInv, Typed
  <1>5. op'[w] \in Op /\ op'[w].todo = n /\ op'[w].kind = op[w].kind
    BY <1>1, <1>2, <1>4 DEF Op
  <1>6. Moves(w)
    BY <1>3, <1>4, <1>5 DEF PInv, Typed, Moves
  <1> QED BY <1>5, <1>6, QuitOnward DEF n

\* The shapes of op' that the steps use.
LEMMA GoGiven ==
  ASSUME PInv, NEW w \in Worker, NEW s, At(w, s), s \notin Linked \cup {"close", "init"},
         NEW t, Given(t, op[w].rec), Go(w, t)
  PROVE  Onward(w)
  <1>1. t \in Seq(Name)
    BY DEF Given, Fits
  <1>2. Moves(w) /\ op'[w].todo = t \o Tail(op[w].todo) /\ op'[w].rec = op[w].rec
    BY <1>1, GoMoves
  <1> QED BY <1>2, GoOnward

LEMMA GoWithGiven ==
  ASSUME PInv, NEW w \in Worker, NEW s, At(w, s), s \notin Linked \cup {"close", "init"},
         NEW r \in RowType, NEW t, Given(t, r), GoWith(w, t, r)
  PROVE  Onward(w)
  <1>1. t \in Seq(Name)
    BY DEF Given, Fits
  <1>2. Moves(w) /\ op'[w].todo = t \o Tail(op[w].todo) /\ op'[w].rec = r
    BY <1>1, GoWithMoves
  <1> QED BY <1>2, GoOnward

LEMMA GoOn ==
  ASSUME PInv, NEW w \in Worker, NEW s, At(w, s), Go(w, <<>>)
  PROVE  /\ Moves(w) /\ op'[w].obj = op[w].obj /\ op'[w].rec = op[w].rec /\ Fits(op'[w].todo) /\ Writes(op'[w])
         /\ s \in Linked => op'[w].todo # <<>> /\ Follows(s, op'[w].todo[1])
         /\ s \notin Linked => Onward(w)
  <1>1. <<>> \in Seq(Name)
    OBVIOUS
  <1>2. Moves(w) /\ op'[w].todo = <<>> \o Tail(op[w].todo) /\ op'[w].rec = op[w].rec /\ op'[w].obj = op[w].obj
    BY <1>1, GoMoves
  <1>3. <<>> \o Tail(op[w].todo) = Tail(op[w].todo)
    BY AtStep, TailSteps
  <1> QED BY <1>2, <1>3, PopSteps

-----------------------------------------------------------------------------
(* Steps that take nothing out of the map and put nothing in. *)

LEMMA AtNext ==
  ASSUME NEW w \in Worker, op' \in [Worker -> Op], NEW x
  PROVE  At(w, x)' <=> op'[w].todo # <<>> /\ op'[w].todo[1] = x
  <1>1. op'[w].todo \in Seq(Name)
    BY DEF Op
  <1>2. op'[w].todo # <<>> => Head(op'[w].todo) = op'[w].todo[1]
    BY <1>1, TailSteps
  <1> QED BY <1>2 DEF At, Busy

LEMMA AtOthers ==
  ASSUME NEW w \in Worker, NEW v \in Worker, op'[v] = op[v], NEW x
  PROVE  At(v, x)' <=> At(v, x)
  BY DEF At, Busy

LEMMA OnwardAt ==
  ASSUME NEW w \in Worker, Onward(w)
  PROVE  /\ \A x \in Held : ~At(w, x)'
         /\ \A v \in Worker \ {w} : op'[v] = op[v] /\ \A x : At(v, x)' <=> At(v, x)
  <1>1. \A x \in Held : ~At(w, x)'
    BY AtNext DEF Onward
  <1>2. \A v \in Worker \ {w} : op'[v] = op[v] /\ \A x : At(v, x)' <=> At(v, x)
    BY AtOthers DEF Onward
  <1> QED BY <1>1, <1>2

\* w neither holds an object nor loads one.
Apart(w) ==
  /\ op' \in [Worker -> Op] /\ \A v \in Worker \ {w} : op'[v] = op[v]
  /\ Fits(op'[w].todo) /\ Writes(op'[w])
  /\ \A x \in {"close", "build", "insert", "init"} : ~At(w, x)'

LEMMA ApartKeeps ==
  ASSUME PInv, NEW w \in Worker, Apart(w), UNCHANGED <<objs, loaded, stop>>
  PROVE  Plans' /\ Owned' /\ ClosedOnce' /\ Halted'
  <1>1. /\ \A x \in {"close", "build", "insert", "init"} : ~At(w, x)'
        /\ \A v \in Worker \ {w} : op'[v] = op[v] /\ \A x : At(v, x)' <=> At(v, x)
    BY AtOthers DEF Apart
  <1>2. Plans'
    BY <1>1 DEF PInv, Plans, Apart, Writes
  <1>3. \A v \in Worker : Holds(v)' => Holds(v) /\ v # w /\ op'[v] = op[v]
    BY <1>1 DEF Holds
  <1>4. Owned'
    BY <1>3 DEF PInv, Owned
  <1>5. ClosedOnce'
    BY DEF PInv, ClosedOnce
  <1>6. Halted'
    <2>1. Loading' \subseteq Loading
      BY <1>1 DEF Loading
    <2> QED BY <2>1 DEF PInv, Halted
  <1> QED BY <1>2, <1>4, <1>5, <1>6

LEMMA OnwardKeeps ==
  ASSUME PInv, NEW w \in Worker, Onward(w), UNCHANGED <<objs, loaded, stop>>
  PROVE  Plans' /\ Owned' /\ ClosedOnce' /\ Halted'
  BY OnwardAt, ApartKeeps DEF Onward, Apart, Held

LEMMA FaultSpends == ASSUME PInv, Fault PROVE /\ budget' \in [ops : Nat, changes : Nat, faults : Nat]
                                             /\ budget'.changes = budget.changes /\ budget'.faults < MaxFaults
  <1>1. budget \in [ops : Nat, changes : Nat, faults : Nat] /\ budget.faults <= MaxFaults /\ MaxFaults \in Nat
    BY PluginAssumption DEF PInv, Typed, Grants
  <1>2. budget' = [budget EXCEPT !.faults = budget.faults - 1] /\ budget.faults > 0
    BY DEF Fault
  <1> QED BY <1>1, <1>2

LEMMA StepKeeps ==
  ASSUME PInv, NEW w \in Worker, Onward(w), UNCHANGED <<disk, objs, loaded, stop>>,
         watch' \in Watch,
         watch'.event = watch.event, row' \in RowType,
         Fault \/ (UNCHANGED budget /\ \/ UNCHANGED row /\ ~At(w, "autoDisable")
                                       \/ Undisturbed => (row'.enabled => row'.granted))
  PROVE  PInv'
  <1>1. Plans' /\ Owned' /\ ClosedOnce' /\ Halted'
    BY OnwardKeeps
  <1>2. budget' \in [ops : Nat, changes : Nat, faults : Nat] /\ budget'.changes = budget.changes
    BY FaultSpends DEF PInv, Typed
  <1>3. Typed'
    BY <1>2 DEF PInv, Typed, Onward
  <1>4. Grants'
    <2>1. budget'.changes <= MaxChanges /\ (budget'.changes = MaxChanges => disk' \in {Installed, None} /\ ~watch'.event)
      BY <1>2 DEF PInv, Grants
    <2>2. CASE Fault
      <3>1. budget'.faults < MaxFaults /\ budget'.faults \in Nat /\ MaxFaults \in Nat
        BY <1>2, <2>2, FaultSpends, PluginAssumption
      <3> QED BY <2>1, <3>1 DEF Grants, Undisturbed
    <2>3. CASE UNCHANGED budget
      <3>1. /\ \A x \in Held : ~At(w, x)'
            /\ \A v \in Worker \ {w} : op'[v] = op[v] /\ \A x : At(v, x)' <=> At(v, x)
        BY OnwardAt
      <3>2. Undisturbed' <=> Undisturbed
        BY <2>3 DEF Undisturbed
      <3>3. Undisturbed => \A v \in Worker : At(v, "save")' => (op'[v].rec.enabled => op'[v].rec.granted)
        BY <3>1 DEF PInv, Grants, Held
      <3>4. Undisturbed => (row'.enabled => row'.granted \/ \E v \in Worker : At(v, "autoDisable")')
        <4>1. CASE UNCHANGED row /\ ~At(w, "autoDisable")
          BY <3>1, <4>1 DEF PInv, Grants
        <4>2. CASE Undisturbed => (row'.enabled => row'.granted)
          BY <4>2
        <4>3. CASE Fault
          BY <2>2, <4>3, <3>2 DEF Grants
        <4> QED BY <4>1, <4>2, <4>3
      <3> QED BY <2>1, <2>3, <3>2, <3>3, <3>4 DEF PInv, Grants
    <2> QED BY <2>2, <2>3
  <1> QED BY <1>1, <1>3, <1>4 DEF PInv

Reads(w) == ReadDir(w) \/ HashFile(w) \/ HashChanged(w) \/ GetChanged(w) \/ GetRemoved(w) \/ Extract(w)

LEMMA ReadsOnward == ASSUME PInv, NEW w \in Worker, Reads(w) PROVE Onward(w)
  <1>0. row \in RowType /\ NoRow \in RowType /\ op[w].rec \in RowType
    BY DEF PInv, Typed, Op, NoRow, RowType
  <1>1. CASE ReadDir(w)
    <2>1. Given(IF disk # None THEN <<"hash">> ELSE IF row.there THEN Remove(row) ELSE <<>>, row)
      BY <1>0, GivenSteps
    <2> QED BY <1>0, <1>1, <2>1, GoWithGiven DEF ReadDir, Linked
  <1>2. CASE HashFile(w)
    <2>1. Given(AfterHash(op[w].rec, disk), op[w].rec)
      BY <1>0, GivenSteps DEF AfterHash
    <2>2. Given(IF op[w].rec.there THEN Remove(op[w].rec) ELSE <<>>, op[w].rec)
      BY <1>0, GivenSteps
    <2> QED BY <1>2, <2>1, <2>2, GoGiven DEF HashFile, Linked
  <1>3. CASE HashChanged(w)
    <2>1. At(w, "hashChanged") /\ "hashChanged" \notin Linked \cup {"close", "init"}
      BY <1>3 DEF HashChanged, Linked
    <2>2. CASE Go(w, <<>>)
      BY <2>1, <2>2, GoOn
    <2>3. CASE op' = [op EXCEPT ![w].todo = Then(w, <<"get">>), ![w].ver = disk]
      <3> DEFINE t == <<"get">>
                 n == t \o Tail(op[w].todo)
      <3>1. op[w] \in Op /\ Tail(op[w].todo) \in Seq(Name) /\ t \in Seq(Name) /\ disk \in Version \cup {None}
        BY <2>1, AtStep, TailSteps, OneStep DEF Name, PInv, Typed
      <3>2. n \in Seq(Name)
        BY <3>1, CatSteps
      <3>3. Given(t, op[w].rec)
        BY <1>0, GivenSteps
      <3>4. op' = [op EXCEPT ![w].todo = n, ![w].ver = disk]
        BY <2>3 DEF Then
      <3> HIDE DEF t, n
      <3>5. op'[w] = [op[w] EXCEPT !.todo = n, !.ver = disk] /\ \A v \in Worker \ {w} : op'[v] = op[v]
        BY <3>4 DEF PInv, Typed
      <3>6. op'[w] \in Op /\ op'[w].todo = n /\ op'[w].rec = op[w].rec /\ op'[w].kind = op[w].kind
        BY <3>1, <3>2, <3>5 DEF Op
      <3>7. Moves(w)
        BY <3>4, <3>5, <3>6 DEF PInv, Typed, Moves
      <3> QED BY <2>1, <3>3, <3>6, <3>7, GoOnward DEF n
    <2> QED BY <1>3, <2>2, <2>3 DEF HashChanged
  <1>4. CASE GetChanged(w)
    <2>1. Given(AfterHash(row, op[w].ver), row) /\ Given(<<"extract">>, NoRow)
      BY <1>0, GivenSteps DEF AfterHash
    <2> QED BY <1>0, <1>4, <2>1, GoWithGiven DEF GetChanged, Linked
  <1>5. CASE GetRemoved(w)
    <2>1. Given(IF row.there THEN Remove(row) ELSE <<>>, row)
      BY <1>0, GivenSteps
    <2>2. At(w, "getRemoved") /\ "getRemoved" \notin Linked \cup {"close", "init"}
      BY <1>5 DEF GetRemoved, Linked
    <2> QED BY <1>0, <1>5, <2>1, <2>2, GoWithGiven, GoOn DEF GetRemoved
  <1>6. CASE Extract(w)
    <2> DEFINE rec == op[w].rec
               new == [there |-> TRUE, enabled |-> FALSE, sha |-> disk, granted |-> rec.granted]
               off == [rec EXCEPT !.enabled = FALSE]
    <2>1. new \in RowType /\ off \in RowType /\ ~new.enabled /\ ~off.enabled
      BY <1>0 DEF PInv, Typed, RowType
    <2>2. Given(Disabling(rec), new) /\ Given(IF rec.there THEN Disabling(rec) ELSE <<>>, off)
      BY <1>0, <2>1, GivenSteps
    <2>3. At(w, "extract") /\ "extract" \notin Linked \cup {"close", "init"}
      BY <1>6 DEF Extract, Linked
    <2>4. GoWith(w, Disabling(rec), new) \/ GoWith(w, IF rec.there THEN Disabling(rec) ELSE <<>>, off)
      BY <1>6 DEF Extract, ShaOfFile
    <2> HIDE DEF rec, new, off
    <2> QED BY <2>1, <2>2, <2>3, <2>4, GoWithGiven
  <1> QED BY <1>1, <1>2, <1>3, <1>4, <1>5, <1>6 DEF Reads

LEMMA ReadsKeep == ASSUME PInv, NEW w \in Worker, Reads(w) PROVE PInv'
  <1>1. /\ UNCHANGED <<disk, row, objs, loaded, watch, stop>> /\ (Fault \/ UNCHANGED budget)
    BY DEF Reads, ReadDir, HashFile, HashChanged, GetChanged, GetRemoved, Extract, ContextFails
  <1>2. ~At(w, "autoDisable")
    BY DEF Reads, ReadDir, HashFile, HashChanged, GetChanged, GetRemoved, Extract, At
  <1> QED BY <1>1, <1>2, ReadsOnward, StepKeeps DEF PInv, Typed

LEMMA PutsKeep ==
  ASSUME PInv, NEW w \in Worker,
         Put(w) \/ PutEnabled(w) \/ SaveSettings(w) \/ Delete(w) \/ AutoDisable(w) \/ UnloadDisabled(w)
  PROVE  PInv'
  <1>0. /\ row \in RowType /\ NoRow \in RowType /\ op[w].rec \in RowType /\ UNCHANGED <<disk, objs, loaded, watch, stop>>
    BY DEF PInv, Typed, Op, NoRow, RowType, Put, PutEnabled, SaveSettings, Delete, AutoDisable, UnloadDisabled
  <1>1. CASE Put(w)
    <2>1. At(w, "put") /\ Onward(w)
      BY <1>1, GoOn DEF Put, Linked
    <2>2. ~op[w].rec.enabled
      <3>1. 1 \in 1..Len(op[w].todo) /\ op[w].todo[1] = "put" /\ Writes(op[w])
        BY <2>1, AtStep, TailSteps
      <3> QED BY <3>1 DEF Writes
    <2>3. ~At(w, "autoDisable")
      BY <2>1 DEF At
    <2> QED BY <1>0, <1>1, <2>1, <2>2, <2>3, StepKeeps DEF Put, PInv, Typed
  <1>2. CASE PutEnabled(w)
    <2>1. At(w, "putOn") /\ ~At(w, "autoDisable")
      BY <1>2 DEF PutEnabled, At
    <2>2. op[w].rec.granted
      <3>1. 1 \in 1..Len(op[w].todo) /\ op[w].todo[1] = "putOn" /\ Writes(op[w])
        BY <2>1, AtStep, TailSteps
      <3> QED BY <3>1 DEF Writes
    <2>3. CASE row' = [op[w].rec EXCEPT !.enabled = TRUE] /\ Go(w, <<>>) /\ UNCHANGED budget
      <3>1. row' \in RowType /\ row'.granted
        BY <1>0, <2>2, <2>3 DEF RowType
      <3>2. Onward(w)
        BY <2>1, <2>3, GoOn DEF Linked
      <3> QED BY <1>0, <2>3, <3>1, <3>2, StepKeeps DEF PInv, Typed
    <2>4. CASE Fault /\ Go(w, Unload) /\ UNCHANGED row
      <3>1. Onward(w)
        BY <1>0, <2>1, <2>4, GivenSteps, GoGiven DEF Linked
      <3> QED BY <1>0, <2>4, <3>1, StepKeeps DEF PInv, Typed
    <2> QED BY <1>2, <2>3, <2>4 DEF PutEnabled
  <1>3. CASE SaveSettings(w)
    <2>1. At(w, "save")
      BY <1>3 DEF SaveSettings
    <2>2. Onward(w)
      BY <1>3, <2>1, GoOn, QuitsOnward DEF SaveSettings, Linked
    <2>3. Undisturbed => (op[w].rec.enabled => op[w].rec.granted)
      BY <2>1 DEF PInv, Grants
    <2> QED BY <1>0, <1>3, <2>2, <2>3, StepKeeps DEF SaveSettings, PInv, Typed
  <1>4. CASE Delete(w)
    <2>1. At(w, "delete") /\ Onward(w)
      BY <1>4, GoOn DEF Delete, Linked
    <2>2. ~At(w, "autoDisable") /\ ~NoRow.enabled
      BY <2>1 DEF At, NoRow
    <2> QED BY <1>0, <1>4, <2>1, <2>2, StepKeeps DEF Delete, ContextFails, PInv, Typed
  <1>5. CASE AutoDisable(w)
    <2>1. Onward(w)
      BY <1>5, GoOn DEF AutoDisable, Linked
    <2>2. CASE row' = [row EXCEPT !.enabled = @ /\ row.granted] /\ UNCHANGED budget
      <3>1. row' \in RowType /\ (row'.enabled => row'.granted)
        BY <1>0, <2>2 DEF RowType
      <3> QED BY <1>0, <2>1, <2>2, <3>1, StepKeeps DEF PInv, Typed
    <2>3. CASE Fault /\ UNCHANGED row
      BY <1>0, <2>1, <2>3, StepKeeps DEF PInv, Typed
    <2> QED BY <1>5, <2>2, <2>3 DEF AutoDisable
  <1>6. CASE UnloadDisabled(w)
    <2>1. At(w, "disabled") /\ ~At(w, "autoDisable")
      BY <1>6 DEF UnloadDisabled, At
    <2>2. Given(IF row.there /\ ~row.enabled THEN Unload ELSE <<>>, op[w].rec)
      BY <1>0, GivenSteps
    <2>3. Onward(w)
      BY <1>6, <2>1, <2>2, GoGiven, GoOn DEF UnloadDisabled, Linked
    <2> QED BY <1>0, <1>6, <2>1, <2>3, StepKeeps DEF UnloadDisabled, PInv, Typed
  <1> QED BY <1>1, <1>2, <1>3, <1>4, <1>5, <1>6

\* The deletion of a user: who takes the grant away will disable the plugin.
LEMMA StripUserKeeps == ASSUME PInv, NEW w \in Worker, StripUser(w) PROVE PInv'
  <1>0. /\ row \in RowType /\ UNCHANGED <<disk, objs, loaded, watch, stop>> /\ At(w, "strip")
    BY DEF PInv, Typed, StripUser
  <1>1. CASE row' = [row EXCEPT !.granted = FALSE] /\ Go(w, <<>>) /\ UNCHANGED budget
    <2>1. /\ Moves(w) /\ Fits(op'[w].todo) /\ Writes(op'[w]) /\ op'[w].todo # <<>> /\ Follows("strip", op'[w].todo[1])
      BY <1>0, <1>1, GoOn DEF Linked
    <2>2. op'[w].todo[1] = "autoDisable"
      BY <2>1 DEF Follows
    <2>3. At(w, "autoDisable")' /\ \A x \in {"close", "build", "insert", "init", "save"} : ~At(w, x)'
      BY <2>1, <2>2, AtNext DEF Moves
    <2>4. Plans' /\ Owned' /\ ClosedOnce' /\ Halted'
      BY <1>0, <2>1, <2>3, ApartKeeps DEF Apart, Moves
    <2>5. Typed'
      BY <1>0, <1>1, <2>1 DEF PInv, Typed, Moves, RowType
    <2>6. Grants'
      <3>1. \A v \in Worker \ {w} : op'[v] = op[v] /\ \A x : At(v, x)' <=> At(v, x)
        BY <2>1, AtOthers DEF Moves
      <3>2. Undisturbed' <=> Undisturbed
        BY <1>0, <1>1 DEF Undisturbed
      <3> QED BY <1>0, <1>1, <2>3, <3>1, <3>2 DEF PInv, Grants
    <2> QED BY <2>4, <2>5, <2>6 DEF PInv
  <1>2. CASE Fault /\ UNCHANGED row /\ op' = [op EXCEPT ![w].todo = <<"disabled">>]
    <2> DEFINE n == <<"disabled">>
    <2>1. "disabled" \in Name /\ "disabled" \notin Linked \cup Held
      BY DEF Name, Linked, Held
    <2>2. n \in Seq(Name) /\ Len(n) = 1 /\ n[1] = "disabled" /\ Fits(n)
      BY <2>1, OneStep, OneFits
    <2>3. op' = [op EXCEPT ![w].todo = n]
      BY <1>2
    <2> HIDE DEF n
    <2>4. op[w] \in Op /\ op'[w] = [op[w] EXCEPT !.todo = n] /\ \A v \in Worker \ {w} : op'[v] = op[v]
      BY <2>3 DEF PInv, Typed
    <2>5. op'[w] \in Op /\ op'[w].todo = n
      BY <2>2, <2>4 DEF Op
    <2>6. op' \in [Worker -> Op]
      BY <2>3, <2>4, <2>5 DEF PInv, Typed
    <2>7. Writes(op'[w])
      <3>1. \A k \in 1..Len(op'[w].todo) : op'[w].todo[k] = "disabled"
        BY <2>2, <2>5
      <3> QED BY <3>1 DEF Writes
    <2>8. Onward(w)
      BY <2>1, <2>2, <2>4, <2>5, <2>6, <2>7 DEF Onward
    <2> QED BY <1>0, <1>2, <2>8, StepKeeps DEF PInv, Typed
  <1> QED BY <1>1, <1>2 DEF StripUser

LEMMA OtherStepsKeep ==
  ASSUME PInv, NEW w \in Worker,
         CheckStopped(w) \/ CallInit(w) \/ LoadEnabled(w) \/ StartWatcher(w) \/ ProcessPluginEvent(w)
  PROVE  PInv'
  <1>0. /\ row \in RowType /\ op[w].rec \in RowType /\ UNCHANGED <<disk, row, objs, loaded, stop>> /\ ~At(w, "autoDisable")
        /\ watch \in Watch
    BY DEF PInv, Typed, Op, At, CheckStopped, CallInit, LoadEnabled, StartWatcher, ProcessPluginEvent
  <1>1. CASE CheckStopped(w)
    <2>1. At(w, "check")
      BY <1>1 DEF CheckStopped
    <2>2. CASE LoadFails(w)
      <3>1. Onward(w)
        BY <2>1, <2>2, LoadFailsOnward
      <3> QED BY <1>0, <1>1, <3>1, StepKeeps DEF CheckStopped
    <2>3. CASE Go(w, <<>>)
      <3>1. Moves(w) /\ Fits(op'[w].todo) /\ Writes(op'[w]) /\ op'[w].todo # <<>> /\ Follows("check", op'[w].todo[1])
        BY <2>1, <2>3, GoOn DEF Linked
      <3>2. Onward(w)
        BY <3>1 DEF Follows, Moves, Onward, Held
      <3> QED BY <1>0, <1>1, <3>2, StepKeeps DEF CheckStopped
    <2> QED BY <1>1, <2>2, <2>3 DEF CheckStopped
  <1>2. CASE CallInit(w)
    <2>1. Onward(w)
      BY <1>2, GoOn, QuitsOnward DEF CallInit, Linked
    <2> QED BY <1>0, <1>2, <2>1, StepKeeps DEF CallInit
  <1>3. CASE LoadEnabled(w)
    <2>1. At(w, "enabled") /\ "enabled" \notin Linked \cup {"close", "init"}
      BY <1>3 DEF LoadEnabled, Linked
    <2>2. CASE GoWith(w, IF row.enabled THEN Load ELSE <<>>, row) /\ UNCHANGED budget
      <3>1. Given(IF row.enabled THEN Load ELSE <<>>, row)
        BY <1>0, GivenSteps
      <3>2. Onward(w)
        BY <1>0, <2>1, <2>2, <3>1, GoWithGiven
      <3> QED BY <1>0, <1>3, <2>2, <3>2, StepKeeps DEF LoadEnabled
    <2>3. CASE Fault /\ op' = [op EXCEPT ![w].todo = <<>>]
      <3>1. op[w] \in Op /\ op'[w] = [op[w] EXCEPT !.todo = <<>>] /\ \A v \in Worker \ {w} : op'[v] = op[v]
        BY <2>3 DEF PInv, Typed
      <3>2. op'[w] \in Op /\ op'[w].todo = <<>>
        <4>1. <<>> \in Seq(Name)
          OBVIOUS
        <4> DEFINE n == <<>>
        <4> HIDE DEF n
        <4>2. op'[w] = [op[w] EXCEPT !.todo = n] /\ n \in Seq(Name)
          BY <3>1, <4>1 DEF n
        <4>3. op'[w] \in Op /\ op'[w].todo = n
          BY <3>1, <4>2 DEF Op
        <4> QED BY <4>3 DEF n
      <3>3. op' \in [Worker -> Op]
        BY <2>3, <3>1, <3>2 DEF PInv, Typed
      <3>4. Onward(w)
        BY <3>1, <3>2, <3>3 DEF Onward, Fits, Writes
      <3> QED BY <1>0, <1>3, <2>3, <3>4, StepKeeps DEF LoadEnabled
    <2> QED BY <1>3, <2>2, <2>3 DEF LoadEnabled
  <1>4. CASE StartWatcher(w)
    <2>1. Onward(w)
      BY <1>4, GoOn DEF StartWatcher, Linked
    <2>2. PICK b \in BOOLEAN : watch' = [watch EXCEPT !.on = b]
      BY <1>4, Zenon DEF StartWatcher, Stopped
    <2>3. /\ watch' \in Watch
          /\ watch'.event = watch.event
      BY <1>0, <2>2 DEF Watch
    <2> QED BY <1>0, <1>4, <2>1, <2>3, StepKeeps DEF StartWatcher
  <1>5. CASE ProcessPluginEvent(w)
    <2>1. At(w, "event") /\ "event" \notin Linked \cup {"close", "init"}
      BY <1>5 DEF ProcessPluginEvent, Linked
    <2>2. Given(IF disk # None THEN <<"hashChanged">> ELSE <<"getRemoved">>, op[w].rec)
      BY <1>0, GivenSteps
    <2>3. Onward(w)
      BY <1>5, <2>1, <2>2, GoGiven, GoOn DEF ProcessPluginEvent
    <2>4. /\ watch' \in Watch
          /\ watch'.event = watch.event
      BY <1>0, <1>5 DEF ProcessPluginEvent, Watch
    <2> QED BY <1>0, <1>5, <2>3, <2>4, StepKeeps DEF ProcessPluginEvent
  <1> QED BY <1>1, <1>2, <1>3, <1>4, <1>5

-----------------------------------------------------------------------------
(* The map and the objects. *)

LEMMA GrantsFrame ==
  ASSUME PInv, NEW w \in Worker, UNCHANGED <<disk, row, watch>>, UNCHANGED budget \/ Fault,
         \A v \in Worker \ {w} : op'[v] = op[v], ~At(w, "autoDisable"), ~At(w, "save")'
  PROVE  Grants'
  <1>1. \A v \in Worker \ {w} : \A x : At(v, x)' <=> At(v, x)
    BY AtOthers
  <1>2. CASE UNCHANGED budget
    <2>1. Undisturbed' <=> Undisturbed
      BY <1>2 DEF Undisturbed
    <2> QED BY <1>1, <1>2, <2>1 DEF PInv, Grants
  <1>3. CASE Fault
    <2>1. budget'.faults < MaxFaults /\ budget'.faults \in Nat /\ MaxFaults \in Nat /\ budget'.changes = budget.changes
      BY <1>3, FaultSpends, PluginAssumption
    <2> QED BY <2>1 DEF PInv, Grants, Undisturbed
  <1> QED BY <1>2, <1>3

LEMMA AddLoadKeeps == ASSUME PInv, NEW w \in Worker, AddLoad(w) PROVE PInv'
  <1>0. UNCHANGED <<disk, row, objs, loaded, watch, stop, budget>> /\ At(w, "add") /\ ~At(w, "autoDisable")
    BY DEF AddLoad, At
  <1>1. CASE LoadFails(w)
    <2>1. Onward(w)
      BY <1>0, <1>1, LoadFailsOnward
    <2> QED BY <1>0, <2>1, StepKeeps DEF PInv, Typed
  <1>2. CASE Go(w, <<>>) /\ ~Stopped
    <2>1. Moves(w) /\ Fits(op'[w].todo) /\ Writes(op'[w]) /\ op'[w].todo # <<>> /\ Follows("add", op'[w].todo[1])
      BY <1>0, <1>2, GoOn DEF Linked
    <2>2. op'[w].todo[1] = "build"
      BY <2>1 DEF Follows
    <2>3. ~At(w, "close")' /\ ~At(w, "insert")' /\ ~At(w, "save")'
      BY <2>1, <2>2, AtNext DEF Moves
    <2>4. \A v \in Worker \ {w} : op'[v] = op[v] /\ \A x : At(v, x)' <=> At(v, x)
      BY <2>1, AtOthers DEF Moves
    <2>5. Typed'
      BY <1>0, <2>1 DEF PInv, Typed, Moves
    <2>6. Plans'
      BY <2>1, <2>4 DEF PInv, Plans, Writes
    <2>7. Owned'
      <3>1. \A v \in Worker : Holds(v)' => Holds(v) /\ op'[v] = op[v]
        BY <2>3, <2>4 DEF Holds
      <3> QED BY <1>0, <3>1 DEF PInv, Owned
    <2>8. ClosedOnce' /\ Halted'
      BY <1>0, <1>2 DEF PInv, ClosedOnce, Halted, Stopped
    <2>9. Grants'
      BY <1>0, <2>3, <2>4, GrantsFrame
    <2> QED BY <2>5, <2>6, <2>7, <2>8, <2>9 DEF PInv
  <1> QED BY <1>1, <1>2 DEF AddLoad

\* An object nobody knows yet.
LEMMA Appended ==
  ASSUME Typed, NEW g \in BOOLEAN, objs' = Append(objs, [granted |-> g, closes |-> 0])
  PROVE  /\ objs' \in Seq(Obj) /\ Len(objs') = Len(objs) + 1 /\ Len(objs) \in Nat
         /\ objs'[Len(objs')].closes = 0 /\ objs'[Len(objs')].granted = g
         /\ DOMAIN objs' = 1..Len(objs') /\ DOMAIN objs = 1..Len(objs)
         /\ \A o \in 1..Len(objs) : objs'[o] = objs[o]
  <1>1. objs \in Seq(Obj) /\ [granted |-> g, closes |-> 0] \in Obj
    BY DEF Typed, Obj
  <1> DEFINE n == [granted |-> g, closes |-> 0]
  <1>2. n.closes = 0 /\ n.granted = g
    OBVIOUS
  <1> HIDE DEF n
  <1>3. objs' = Append(objs, n) /\ n \in Obj
    BY <1>1 DEF n
  <1> QED BY <1>1, <1>2, <1>3

LEMMA BuildKeeps == ASSUME PInv, NEW w \in Worker, Build(w) PROVE PInv'
  <1>0. UNCHANGED <<disk, row, loaded, watch, stop>> /\ At(w, "build") /\ ~At(w, "autoDisable")
    BY DEF Build, At
  <1>1. CASE ~Readable
    <2>1. LoadFails(w) /\ UNCHANGED <<objs, budget>>
      BY <1>1 DEF Build
    <2>2. Onward(w)
      BY <1>0, <2>1, LoadFailsOnward
    <2> QED BY <1>0, <2>1, <2>2, StepKeeps DEF PInv, Typed
  <1>2. CASE Readable
    <2>1. /\ objs' = Append(objs, [granted |-> op[w].rec.granted, closes |-> 0])
          /\ \/ op' = [op EXCEPT ![w].todo = Tail(@), ![w].obj = Len(objs')] /\ UNCHANGED budget
             \/ Fault /\ LoadFails(w)
             \/ LoadFails(w) /\ UNCHANGED budget
      BY <1>2 DEF Build
    <2>2. op[w] \in Op /\ op[w].rec.granted \in BOOLEAN
      BY DEF PInv, Typed, Op, RowType
    <2>3. /\ objs' \in Seq(Obj) /\ Len(objs') = Len(objs) + 1 /\ Len(objs) \in Nat
          /\ objs'[Len(objs')].closes = 0 /\ DOMAIN objs' = 1..Len(objs') /\ DOMAIN objs = 1..Len(objs)
          /\ \A o \in 1..Len(objs) : objs'[o] = objs[o]
      BY <2>1, <2>2, Appended DEF PInv
    <2>4. loaded \in 0..Len(objs) /\ loaded' = loaded /\ (loaded # None => loaded \in 1..Len(objs))
      BY <1>0, <2>3 DEF PInv, Typed, None
    <2>5. ClosedOnce'
      <3>1. ASSUME NEW o \in DOMAIN objs' PROVE objs'[o].closes <= 1
        <4>1. CASE o \in 1..Len(objs)
          BY <2>3, <4>1 DEF PInv, ClosedOnce
        <4>2. CASE o = Len(objs')
          BY <2>3, <4>2
        <4> QED BY <2>3, <4>1, <4>2
      <3> QED BY <2>3, <2>4, <3>1 DEF PInv, ClosedOnce
    <2>6. budget' \in [ops : Nat, changes : Nat, faults : Nat]
      BY <2>1, FaultSpends DEF PInv, Typed
    <2>7. ASSUME op' \in [Worker -> Op] PROVE Typed'
      <3>1. loaded' \in 0..Len(objs')
        BY <2>3, <2>4
      <3> QED BY <1>0, <2>3, <2>6, <2>7, <3>1 DEF PInv, Typed
    <2>8. CASE LoadFails(w)
      <3>1. Onward(w)
        BY <1>0, <2>8, LoadFailsOnward
      <3>2. /\ \A x \in Held : ~At(w, x)'
            /\ \A v \in Worker \ {w} : op'[v] = op[v] /\ \A x : At(v, x)' <=> At(v, x)
        BY <3>1, OnwardAt
      <3>3. Plans'
        BY <3>1, <3>2 DEF PInv, Plans, Onward, Writes
      <3>4. Owned'
        <4>1. \A v \in Worker : Holds(v)' => Holds(v) /\ op'[v] = op[v]
          BY <3>2 DEF Holds, Held
        <4> QED BY <2>3, <2>4, <4>1 DEF PInv, Owned
      <3>5. Halted'
        <4>1. Loading' \subseteq Loading
          BY <3>2 DEF Loading, Held
        <4> QED BY <1>0, <4>1 DEF PInv, Halted
      <3>6. Grants'
        BY <1>0, <2>1, <3>2, GrantsFrame DEF Held
      <3> QED BY <2>5, <2>7, <3>1, <3>3, <3>4, <3>5, <3>6 DEF PInv, Onward
    <2>9. CASE op' = [op EXCEPT ![w].todo = Tail(@), ![w].obj = Len(objs')] /\ UNCHANGED budget
      <3> DEFINE n == Tail(op[w].todo)
      <3>1. n \in Seq(Name)
        BY <1>0, AtStep, TailSteps
      <3>2. op' = [op EXCEPT ![w].todo = n, ![w].obj = Len(objs')]
        BY <2>9
      <3> HIDE DEF n
      <3>3. op'[w] = [op[w] EXCEPT !.todo = n, !.obj = Len(objs')] /\ \A v \in Worker \ {w} : op'[v] = op[v]
        BY <3>2 DEF PInv, Typed
      <3>4. op'[w] \in Op /\ op'[w].todo = n /\ op'[w].obj = Len(objs') /\ op'[w].rec = op[w].rec /\ op'[w].kind = op[w].kind
        <4> DEFINE l == Len(objs')
        <4>1. l \in Nat
          BY <2>3
        <4>2. op'[w] = [op[w] EXCEPT !.todo = n, !.obj = l]
          BY <3>3
        <4> HIDE DEF l
        <4>3. op'[w] \in Op /\ op'[w].todo = n /\ op'[w].obj = l /\ op'[w].rec = op[w].rec /\ op'[w].kind = op[w].kind
          BY <2>2, <3>1, <4>1, <4>2 DEF Op
        <4> QED BY <4>3 DEF l
      <3>5. Moves(w)
        BY <3>2, <3>3, <3>4 DEF PInv, Typed, Moves
      <3>6. Fits(op'[w].todo) /\ Writes(op'[w]) /\ op'[w].todo # <<>> /\ Follows("build", op'[w].todo[1])
        BY <1>0, <3>4, <3>5, PopSteps DEF n, Linked
      <3>7. \A x : At(w, x)' <=> x = "insert"
        BY <3>5, <3>6, AtNext DEF Follows, Moves
      <3>8. \A v \in Worker \ {w} : op'[v] = op[v] /\ \A x : At(v, x)' <=> At(v, x)
        BY <3>3, AtOthers
      <3>9. Plans'
        BY <3>6, <3>8 DEF PInv, Plans, Writes
      <3>10. Owned'
        <4>1. \A v \in Worker \ {w} : Holds(v)' => Holds(v) /\ op'[v].obj = op[v].obj /\ op'[v].obj \in 1..Len(objs)
          BY <3>8 DEF Holds, PInv, Owned
        <4>2. ASSUME NEW v \in Worker, Holds(v)'
              PROVE  op'[v].obj \in 1..Len(objs') /\ op'[v].obj # loaded /\ objs'[op'[v].obj].closes = 0
          <5>1. CASE v = w
            BY <2>3, <2>4, <3>4, <5>1
          <5>2. CASE v # w
            BY <2>3, <4>1, <4>2, <5>2 DEF PInv, Owned
          <5> QED BY <5>1, <5>2
        <4>3. ASSUME NEW v \in Worker, NEW x \in Worker, Holds(v)', Holds(x)', op'[v].obj = op'[x].obj PROVE v = x
          BY <2>3, <3>4, <4>1, <4>3 DEF PInv, Owned
        <4> QED BY <2>4, <4>2, <4>3 DEF Owned
      <3>11. Halted'
        <4>1. w \in Loading
          BY <1>0 DEF Loading
        <4> QED BY <1>0, <4>1 DEF PInv, Halted
      <3>12. Grants'
        BY <1>0, <2>9, <3>7, <3>8, GrantsFrame
      <3> QED BY <2>5, <2>7, <3>5, <3>9, <3>10, <3>11, <3>12 DEF PInv, Moves
    <2> QED BY <2>1, <2>8, <2>9
  <1> QED BY <1>1, <1>2

LEMMA InsertKeeps == ASSUME PInv, NEW w \in Worker, Insert(w) PROVE PInv'
  <1>0. /\ UNCHANGED <<disk, row, objs, watch, stop, budget>> /\ At(w, "insert") /\ ~At(w, "autoDisable")
        /\ loaded' = op[w].obj /\ Go(w, <<>>)
    BY DEF Insert, At
  <1>1. Moves(w) /\ Fits(op'[w].todo) /\ Writes(op'[w]) /\ op'[w].todo # <<>> /\ Follows("insert", op'[w].todo[1])
    BY <1>0, GoOn DEF Linked
  <1>2. \A x : At(w, x)' <=> x = "init"
    BY <1>1, AtNext DEF Follows, Moves
  <1>3. \A v \in Worker \ {w} : op'[v] = op[v] /\ \A x : At(v, x)' <=> At(v, x)
    BY <1>1, AtOthers DEF Moves
  <1>4. Holds(w) /\ loaded' \in 1..Len(objs) /\ objs[loaded'].closes = 0
    BY <1>0 DEF Holds, PInv, Owned
  <1>5. Typed'
    <2>1. objs' \in Seq(Obj) /\ Len(objs') \in Nat /\ loaded' \in 0..Len(objs')
      BY <1>0, <1>4 DEF PInv, Typed
    <2> QED BY <1>0, <1>1, <2>1 DEF PInv, Typed, Moves
  <1>6. Plans'
    BY <1>1, <1>3 DEF PInv, Plans, Writes
  <1>7. Owned'
    <2>1. \A v \in Worker : Holds(v)' => Holds(v) /\ v # w /\ op'[v] = op[v]
      BY <1>2, <1>3 DEF Holds
    <2>2. \A v \in Worker : Holds(v)' => op[v].obj # loaded'
      BY <1>0, <1>4, <2>1 DEF PInv, Owned
    <2> QED BY <1>0, <2>1, <2>2 DEF PInv, Owned
  <1>8. ClosedOnce'
    BY <1>0, <1>4 DEF PInv, ClosedOnce
  <1>9. Halted'
    <2>1. w \in Loading
      BY <1>0 DEF Loading
    <2> QED BY <1>0, <2>1 DEF PInv, Halted
  <1>10. Grants'
    BY <1>0, <1>2, <1>3, GrantsFrame
  <1> QED BY <1>5, <1>6, <1>7, <1>8, <1>9, <1>10 DEF PInv

\* Closing an object that is open and in nobody else's hands.
LEMMA Closed ==
  ASSUME PInv, NEW o \in 1..Len(objs), objs' = [objs EXCEPT ![o].closes = @ + 1], objs[o].closes = 0
  PROVE  /\ objs' \in Seq(Obj) /\ Len(objs') = Len(objs) /\ DOMAIN objs' = 1..Len(objs) /\ DOMAIN objs = 1..Len(objs)
         /\ objs'[o].closes = 1 /\ \A x \in 1..Len(objs) \ {o} : objs'[x] = objs[x]
  <1>1. objs \in Seq(Obj) /\ objs[o] \in Obj /\ Len(objs) \in Nat /\ DOMAIN objs = 1..Len(objs)
    BY DEF PInv, Typed
  <1> DEFINE c == [objs[o] EXCEPT !.closes = @ + 1]
  <1>2. c \in Obj /\ c.closes = 1
    BY <1>1 DEF Obj
  <1>3. objs' = [objs EXCEPT ![o] = c]
    OBVIOUS
  <1> HIDE DEF c
  <1>4. objs' \in Seq(Obj) /\ Len(objs') = Len(objs)
    BY <1>1, <1>2, <1>3
  <1> QED BY <1>1, <1>2, <1>3, <1>4

LEMMA ClosePluginKeeps == ASSUME PInv, NEW w \in Worker, ClosePlugin(w) PROVE PInv'
  <1>0. /\ UNCHANGED <<disk, row, loaded, watch, stop, budget>> /\ At(w, "close") /\ ~At(w, "autoDisable")
        /\ objs' = [objs EXCEPT ![op[w].obj].closes = @ + 1] /\ Go(w, <<>>)
    BY DEF ClosePlugin, At
  <1>1. Onward(w)
    BY <1>0, GoOn DEF Linked
  <1>2. /\ \A x \in Held : ~At(w, x)'
        /\ \A v \in Worker \ {w} : op'[v] = op[v] /\ \A x : At(v, x)' <=> At(v, x)
    BY <1>1, OnwardAt
  <1>3. Holds(w) /\ op[w].obj \in 1..Len(objs) /\ op[w].obj # loaded /\ objs[op[w].obj].closes = 0
    BY <1>0 DEF Holds, PInv, Owned
  <1>4. /\ objs' \in Seq(Obj) /\ Len(objs') = Len(objs) /\ DOMAIN objs' = 1..Len(objs) /\ DOMAIN objs = 1..Len(objs)
        /\ objs'[op[w].obj].closes = 1 /\ \A x \in 1..Len(objs) \ {op[w].obj} : objs'[x] = objs[x]
    BY <1>0, <1>3, Closed
  <1>5. Typed'
    BY <1>0, <1>1, <1>4 DEF PInv, Typed, Onward
  <1>6. Plans'
    BY <1>1, <1>2 DEF PInv, Plans, Onward, Writes
  <1>7. Owned'
    <2>1. \A v \in Worker : Holds(v)' => Holds(v) /\ v # w /\ op'[v] = op[v]
      BY <1>2 DEF Holds, Held
    <2>2. \A v \in Worker : Holds(v)' => op[v].obj # op[w].obj
      BY <1>3, <2>1 DEF PInv, Owned
    <2> QED BY <1>0, <1>4, <2>1, <2>2 DEF PInv, Owned
  <1>8. ClosedOnce'
    <2>1. ASSUME NEW x \in DOMAIN objs' PROVE objs'[x].closes <= 1
      <3>1. CASE x = op[w].obj
        BY <1>4, <3>1
      <3>2. CASE x # op[w].obj
        BY <1>4, <3>2 DEF PInv, ClosedOnce
      <3> QED BY <3>1, <3>2
    <2>2. loaded # None => loaded \in 1..Len(objs)
      BY <1>4 DEF PInv, Typed, None
    <2> QED BY <1>0, <1>3, <1>4, <2>1, <2>2 DEF PInv, ClosedOnce
  <1>9. Halted'
    <2>1. Loading' \subseteq Loading
      BY <1>2 DEF Loading, Held
    <2> QED BY <1>0, <2>1 DEF PInv, Halted
  <1>10. Grants'
    BY <1>0, <1>2, GrantsFrame DEF Held
  <1> QED BY <1>5, <1>6, <1>7, <1>8, <1>9, <1>10 DEF PInv

LEMMA UnloadPluginKeeps == ASSUME PInv, NEW w \in Worker, UnloadPlugin(w) PROVE PInv'
  <1>0. /\ UNCHANGED <<disk, row, objs, watch, stop, budget>> /\ At(w, "unload") /\ ~At(w, "autoDisable")
    BY DEF UnloadPlugin, At
  <1> DEFINE o == op[w].todo
             u == Tail(op[w].todo)
  <1>1. /\ o \in Seq(Name) /\ o # <<>> /\ o[1] = "unload" /\ Fits(o) /\ Writes(op[w]) /\ op[w] \in Op
    BY <1>0, AtStep
  <1>2. /\ u \in Seq(Name) /\ Len(u) = Len(o) - 1 /\ Len(o) \in Nat /\ Len(o) > 0 /\ Fits(u)
        /\ \A k \in 1..(Len(o) - 1) : u[k] = o[k + 1]
    BY <1>1, TailSteps, PopFits
  <1>3. CASE loaded = None
    <2> DEFINE n == Tail(u)
    <2>1. 1 \in 1..(Len(o) - 1)
      BY <1>1, <1>2 DEF Fits, Linked
    <2>2. Follows(o[1], o[1 + 1]) /\ u[1] = o[1 + 1] /\ Len(u) > 0
      BY <1>1, <1>2, <2>1 DEF Fits
    <2>3. u # <<>> /\ u[1] = "close"
      BY <1>1, <1>2, <2>2, EmptySteps DEF Follows
    <2>4. /\ n \in Seq(Name) /\ Len(n) = Len(u) - 1 /\ \A k \in 1..(Len(u) - 1) : n[k] = u[k + 1]
      BY <1>2, <2>3, TailSteps
    <2>5. Fits(n) /\ (n # <<>> => n[1] \notin Held)
      BY <1>2, <2>3, PopFits, SecondStep DEF Held, Bound, Linked
    <2>6. op' = [op EXCEPT ![w].todo = n] /\ UNCHANGED loaded
      BY <1>3 DEF UnloadPlugin
    <2> HIDE DEF n, o, u
    <2>7. ASSUME NEW k \in 1..Len(n) PROVE n[k] = o[k + 2] /\ k + 2 \in 1..Len(o)
      <3>1. k \in 1..(Len(u) - 1) /\ k + 1 \in 1..(Len(o) - 1) /\ (k + 1) + 1 = k + 2
        BY <1>2, <2>4
      <3>2. n[k] = u[k + 1] /\ u[k + 1] = o[(k + 1) + 1]
        BY <1>2, <2>4, <3>1
      <3> QED BY <1>2, <3>1, <3>2
    <2>8. op'[w] = [op[w] EXCEPT !.todo = n] /\ \A v \in Worker \ {w} : op'[v] = op[v]
      BY <2>6 DEF PInv, Typed
    <2>9. op'[w] \in Op /\ op'[w].todo = n /\ op'[w].rec = op[w].rec /\ op'[w].kind = op[w].kind
      BY <1>1, <2>4, <2>8 DEF Op
    <2>10. op' \in [Worker -> Op]
      BY <2>6, <2>8, <2>9 DEF PInv, Typed
    <2>11. Writes(op'[w])
      <3> SUFFICES ASSUME NEW k \in 1..Len(n)
                   PROVE  /\ n[k] = "put" => ~op[w].rec.enabled /\ k <= 3 /\ n[1] = ToPut[k]
                          /\ n[k] # "putOn"
                          /\ n[k] \in {"strip", "autoDisable"} => op[w].kind = "deleteUser"
        BY <2>9 DEF Writes
      <3>1. /\ n[k] = "put" => ~op[w].rec.enabled /\ k + 2 <= 3 /\ o[1] = ToPut[k + 2]
            /\ n[k] = "putOn" => k + 2 <= 6 /\ o[1] = ToPutOn[k + 2]
            /\ n[k] \in {"strip", "autoDisable"} => op[w].kind = "deleteUser"
        BY <1>1, <2>7 DEF Writes, o
      <3>2. k \in Nat /\ k >= 1
        OBVIOUS
      <3>3. n[k] # "putOn"
        BY <1>1, <3>1, <3>2 DEF ToPutOn
      <3>4. n[k] = "put" => k = 1
        BY <3>1, <3>2
      <3> QED BY <3>1, <3>3, <3>4 DEF ToPut
    <2>12. Onward(w)
      BY <2>5, <2>8, <2>9, <2>10, <2>11 DEF Onward
    <2> QED BY <1>0, <2>6, <2>12, StepKeeps DEF PInv, Typed
  <1>4. CASE loaded # None
    <2>1. loaded' = None /\ op' = [op EXCEPT ![w].todo = u, ![w].obj = loaded]
      BY <1>4 DEF UnloadPlugin, AfterUnload
    <2>2. loaded \in 1..Len(objs) /\ loaded \in Nat /\ objs[loaded].closes = 0
      <3>1. objs \in Seq(Obj) /\ loaded \in 0..Len(objs) /\ Len(objs) \in Nat
        BY DEF PInv, Typed
      <3> QED BY <1>4, <3>1 DEF PInv, ClosedOnce, None
    <2> HIDE DEF o, u
    <2>3. op'[w] = [op[w] EXCEPT !.todo = u, !.obj = loaded] /\ \A v \in Worker \ {w} : op'[v] = op[v]
      BY <2>1 DEF PInv, Typed
    <2>4. op'[w] \in Op /\ op'[w].todo = u /\ op'[w].obj = loaded /\ op'[w].rec = op[w].rec /\ op'[w].kind = op[w].kind
      BY <1>1, <1>2, <2>2, <2>3 DEF Op
    <2>5. Moves(w)
      BY <2>1, <2>3, <2>4 DEF PInv, Typed, Moves
    <2>6. Fits(op'[w].todo) /\ Writes(op'[w]) /\ op'[w].todo # <<>> /\ Follows("unload", op'[w].todo[1])
      BY <1>0, <2>4, <2>5, PopSteps DEF u, Linked
    <2>7. \A x : At(w, x)' <=> x = "close"
      BY <2>5, <2>6, AtNext DEF Follows, Moves
    <2>8. \A v \in Worker \ {w} : op'[v] = op[v] /\ \A x : At(v, x)' <=> At(v, x)
      BY <2>3, AtOthers
    <2>9. Typed'
      <3>1. objs' \in Seq(Obj) /\ Len(objs') \in Nat /\ loaded' \in 0..Len(objs')
        BY <1>0, <2>1 DEF PInv, Typed, None
      <3> QED BY <1>0, <2>5, <3>1 DEF PInv, Typed, Moves
    <2>10. Plans'
      BY <2>6, <2>8 DEF PInv, Plans, Writes
    <2>11. Owned'
      <3>1. \A v \in Worker \ {w} : Holds(v)' => /\ Holds(v) /\ op'[v] = op[v] /\ op[v].obj # loaded
                                                 /\ op[v].obj \in 1..Len(objs) /\ objs[op[v].obj].closes = 0
        BY <2>8 DEF Holds, PInv, Owned
      <3>2. \A v \in Worker : Holds(v)' => op'[v].obj \in 1..Len(objs) /\ objs[op'[v].obj].closes = 0
        BY <2>2, <2>4, <3>1
      <3>3. \A x \in 1..Len(objs) : x # None
        BY DEF None
      <3>4. \A v, x \in Worker : Holds(v)' /\ Holds(x)' /\ op'[v].obj = op'[x].obj => v = x
        BY <2>4, <3>1 DEF PInv, Owned
      <3> QED BY <1>0, <2>1, <3>2, <3>3, <3>4 DEF Owned
    <2>12. ClosedOnce'
      BY <1>0, <2>1 DEF PInv, ClosedOnce
    <2>13. Halted'
      <3>1. Loading' \subseteq Loading
        BY <2>7, <2>8 DEF Loading
      <3> QED BY <1>0, <2>1, <3>1 DEF PInv, Halted
    <2>14. Grants'
      BY <1>0, <2>7, <2>8, GrantsFrame
    <2> QED BY <2>9, <2>10, <2>11, <2>12, <2>13, <2>14 DEF PInv
  <1> QED BY <1>3, <1>4

-----------------------------------------------------------------------------
(* Operations begin. *)

LEMMA CatAll ==
  ASSUME NEW s \in Seq(Name), NEW t \in Seq(Name), NEW X, \A k \in 1..Len(s) : s[k] \in X, \A k \in 1..Len(t) : t[k] \in X
  PROVE  \A k \in 1..Len(s \o t) : (s \o t)[k] \in X
  <1> DEFINE n == s \o t
  <1>1. /\ Len(n) = Len(s) + Len(t) /\ Len(s) \in Nat /\ Len(t) \in Nat
        /\ \A k \in 1..Len(s) : n[k] = s[k]
        /\ \A k \in 1..(Len(s) + Len(t)) : k > Len(s) => n[k] = t[k - Len(s)] /\ k - Len(s) \in 1..Len(t)
    BY CatSteps
  <1> HIDE DEF n
  <1>2. ASSUME NEW k \in 1..Len(n) PROVE n[k] \in X
    <2>1. CASE k <= Len(s)
      BY <1>1, <2>1
    <2>2. CASE k > Len(s)
      BY <1>1, <2>2
    <2> QED BY <1>1, <2>1, <2>2
  <1> QED BY <1>2 DEF n

LEMMA CatHead ==
  ASSUME NEW s \in Seq(Name), NEW t \in Seq(Name), s # <<>>
  PROVE  (s \o t)[1] = s[1] /\ s \o t # <<>> /\ s \o t \in Seq(Name)
  <1>1. Len(s) > 0 /\ Len(s) \in Nat /\ Len(t) \in Nat
    BY EmptySteps
  <1> DEFINE n == s \o t
  <1>2. n \in Seq(Name) /\ Len(n) = Len(s) + Len(t) /\ \A k \in 1..Len(s) : n[k] = s[k]
    BY CatSteps
  <1> HIDE DEF n
  <1>3. n # <<>> /\ n[1] = s[1]
    BY <1>1, <1>2, EmptySteps
  <1> QED BY <1>2, <1>3 DEF n

\* EnablePlugin's steps.
LEMMA EnableSteps ==
  ASSUME NEW n, n = Load \o <<"putOn">>
  PROVE  /\ Fits(n) /\ n \in Seq(Name) /\ n # <<>> /\ n[1] = "check"
         /\ \A k \in 1..Len(n) : n[k] \in {"check", "add", "build", "insert", "init"} \/ (k = 6 /\ n[k] = "putOn")
  <1> DEFINE t == <<"putOn">>
  <1>1. "putOn" \in Name /\ "putOn" \notin Linked \cup Bound
    BY DEF Name, Linked, Bound
  <1>2. t \in Seq(Name) /\ Len(t) = 1 /\ t[1] = "putOn" /\ Fits(t)
    BY <1>1, OneStep, OneFits
  <1>3. n = Load \o t
    OBVIOUS
  <1> HIDE DEF t
  <1>4. Fits(n)
    BY <1>1, <1>2, <1>3, LoadSteps, CatFits
  <1>5. n[1] = "check" /\ n # <<>> /\ n \in Seq(Name)
    BY <1>2, <1>3, LoadSteps, CatHead
  <1>6. /\ Len(n) = Len(Load) + Len(t) /\ \A k \in 1..Len(Load) : n[k] = Load[k]
        /\ \A k \in 1..(Len(Load) + Len(t)) : k > Len(Load) => n[k] = t[k - Len(Load)]
    <2>1. /\ Len(Load \o t) = Len(Load) + Len(t) /\ \A k \in 1..Len(Load) : (Load \o t)[k] = Load[k]
          /\ \A k \in 1..(Len(Load) + Len(t)) : k > Len(Load) => (Load \o t)[k] = t[k - Len(Load)]
      BY <1>2, LoadSteps, CatSteps
    <2> QED BY <1>3, <2>1, Zenon
  <1>7. ASSUME NEW k \in 1..Len(n)
        PROVE  n[k] \in {"check", "add", "build", "insert", "init"} \/ (k = 6 /\ n[k] = "putOn")
    <2>1. CASE k <= 5
      BY <1>6, <2>1, LoadSteps
    <2>2. CASE k > 5
      BY <1>2, <1>6, <2>2, LoadSteps
    <2> QED BY <1>2, <1>6, <2>1, <2>2, LoadSteps
  <1> QED BY <1>4, <1>5, <1>7

\* updatePluginSettings' steps when the plugin stays enabled, or is not.
LEMMA SettingsSteps ==
  ASSUME NEW b \in BOOLEAN, NEW n, n = <<"save">> \o (IF b THEN Unload \o Load ELSE <<>>)
  PROVE  /\ Fits(n) /\ n \in Seq(Name) /\ n # <<>> /\ n[1] = "save"
         /\ \A k \in 1..Len(n) : n[k] \notin {"put", "putOn", "strip", "autoDisable"}
  <1> DEFINE s == <<"save">>
             u == IF b THEN Unload \o Load ELSE <<>>
             X == Name \ {"put", "putOn", "strip", "autoDisable"}
  <1>1. "save" \in Name /\ "save" \notin Linked /\ "save" \in X
    BY DEF Name, Linked
  <1>2. s \in Seq(Name) /\ Len(s) = 1 /\ s[1] = "save" /\ Fits(s) /\ s # <<>>
    BY <1>1, OneStep, OneFits
  <1>3. Fits(u) /\ u \in Seq(Name) /\ (u # <<>> => u[1] \notin Bound) /\ \A k \in 1..Len(u) : u[k] \in X
    <2>1. CASE b
      <3>1. Fits(Unload \o Load)
        BY UnloadSteps, LoadSteps, CatFits DEF Bound
      <3>2. (Unload \o Load)[1] = "unload" /\ Unload \o Load \in Seq(Name)
        BY UnloadSteps, LoadSteps, CatHead
      <3>3. \A k \in 1..Len(Unload) : Unload[k] \in X
        BY UnloadSteps DEF Name
      <3>4. \A k \in 1..Len(Load) : Load[k] \in X
        BY LoadSteps DEF Name
      <3>5. \A k \in 1..Len(Unload \o Load) : (Unload \o Load)[k] \in X
        <4> HIDE DEF X
        <4> QED BY <3>3, <3>4, UnloadSteps, LoadSteps, CatAll
      <3>6. u = Unload \o Load
        BY <2>1
      <3> HIDE DEF u, X
      <3> QED BY <3>1, <3>2, <3>5, <3>6 DEF Bound
    <2>2. CASE ~b
      BY <2>2 DEF Fits
    <2> QED BY <2>1, <2>2
  <1>4. n = s \o u
    OBVIOUS
  <1>5. \A x \in X : x \notin {"put", "putOn", "strip", "autoDisable"}
    OBVIOUS
  <1> HIDE DEF s, u, X
  <1>6. Fits(n)
    BY <1>2, <1>3, <1>4, CatFits
  <1>7. n[1] = "save" /\ n # <<>> /\ n \in Seq(Name)
    BY <1>2, <1>3, <1>4, CatHead
  <1>8. \A k \in 1..Len(s) : s[k] \in X
    BY <1>1, <1>2
  <1>9. \A k \in 1..Len(n) : n[k] \in X
    BY <1>2, <1>3, <1>4, <1>8, CatAll
  <1> QED BY <1>5, <1>6, <1>7, <1>9

LEMMA DeleteUserSteps ==
  ASSUME NEW n, n = <<"strip", "autoDisable", "disabled">>
  PROVE  /\ Fits(n) /\ n \in Seq(Name) /\ n # <<>> /\ n[1] = "strip"
         /\ \A k \in 1..Len(n) : n[k] \notin {"put", "putOn"}
  <1>1. n \in Seq(Name) /\ Len(n) = 3 /\ n[1] = "strip" /\ n[2] = "autoDisable" /\ n[3] = "disabled" /\ n # <<>>
    BY DEF Name
  <1>2. Fits(n)
    BY <1>1 DEF Fits, Linked, Follows
  <1>3. \A k \in 1..Len(n) : n[k] \notin {"put", "putOn"}
    BY <1>1
  <1> QED BY <1>1, <1>2, <1>3

LEMMA BeginKeeps ==
  ASSUME PInv, NEW w \in Worker, NEW kind \in Kind, NEW t \in Seq(Name), NEW r \in RowType,
         Begin(w, kind, t, r), Fits(t), t # <<>>, t[1] \notin {"close", "build", "insert", "init", "autoDisable"},
         \A k \in 1..Len(t) :
           /\ t[k] = "put" => ~r.enabled /\ k <= 3 /\ t[1] = ToPut[k]
           /\ t[k] = "putOn" => r.granted /\ k <= 6 /\ t[1] = ToPutOn[k]
           /\ t[k] \in {"strip", "autoDisable"} => kind = "deleteUser",
         t[1] = "save" /\ Undisturbed => (r.enabled => r.granted),
         UNCHANGED <<disk, row, objs, loaded, stop>>,
         watch' \in Watch,
         watch'.event = watch.event,
         budget' \in [ops : Nat, changes : Nat, faults : Nat],
         budget'.changes = budget.changes, budget'.faults = budget.faults
  PROVE  PInv'
  <1>1. ~Busy(w) /\ op' = [op EXCEPT ![w] = [Idle EXCEPT !.kind = kind, !.todo = t, !.rec = r]]
    BY DEF Begin
  <1> DEFINE n == [Idle EXCEPT !.kind = kind, !.todo = t, !.rec = r]
  <1>2. n \in Op /\ n.todo = t /\ n.rec = r /\ n.kind = kind
    BY DEF Idle, Op, None
  <1>3. op' = [op EXCEPT ![w] = n]
    BY <1>1
  <1> HIDE DEF n
  <1>4. op'[w] = n /\ op' \in [Worker -> Op] /\ \A v \in Worker \ {w} : op'[v] = op[v]
    BY <1>2, <1>3 DEF PInv, Typed
  <1>5. Writes(op'[w])
    BY <1>2, <1>4 DEF Writes
  <1>6. \A x : At(w, x)' <=> x = t[1]
    BY <1>2, <1>4, AtNext
  <1>7. \A v \in Worker \ {w} : \A x : At(v, x)' <=> At(v, x)
    BY <1>4, AtOthers
  <1>8. \A x : ~At(w, x)
    BY <1>1 DEF At
  <1>9. Plans' /\ Owned' /\ ClosedOnce' /\ Halted'
    BY <1>2, <1>4, <1>5, <1>6, ApartKeeps DEF Apart
  <1>10. Typed'
    BY <1>4 DEF PInv, Typed
  <1>11. Grants'
    <2>1. Undisturbed' <=> Undisturbed
      BY DEF Undisturbed
    <2>2. Undisturbed => (row.enabled => row.granted \/ \E v \in Worker : At(v, "autoDisable")')
      BY <1>7, <1>8 DEF PInv, Grants
    <2>3. Undisturbed => \A v \in Worker : At(v, "save")' => (op'[v].rec.enabled => op'[v].rec.granted)
      BY <1>2, <1>4, <1>6, <1>7 DEF PInv, Grants
    <2> QED BY <2>1, <2>2, <2>3 DEF PInv, Grants
  <1> QED BY <1>9, <1>10, <1>11 DEF PInv

LEMMA RequestKeeps ==
  ASSUME PInv, NEW w \in Worker, NEW kind \in Kind, NEW t \in Seq(Name), NEW r \in RowType,
         Request(w, kind, t, r), Fits(t), t # <<>>, t[1] \notin {"close", "build", "insert", "init", "autoDisable"},
         \A k \in 1..Len(t) :
           /\ t[k] = "put" => ~r.enabled /\ k <= 3 /\ t[1] = ToPut[k]
           /\ t[k] = "putOn" => r.granted /\ k <= 6 /\ t[1] = ToPutOn[k]
           /\ t[k] \in {"strip", "autoDisable"} => kind = "deleteUser",
         t[1] = "save" /\ Undisturbed => (r.enabled => r.granted)
  PROVE  PInv'
  <1>1. /\ Begin(w, kind, t, r) /\ UNCHANGED <<disk, row, objs, loaded, watch, stop>>
        /\ budget.ops > 0 /\ budget' = [budget EXCEPT !.ops = @ - 1]
    BY DEF Request
  <1>2. /\ budget' \in [ops : Nat, changes : Nat, faults : Nat]
        /\ budget'.changes = budget.changes /\ budget'.faults = budget.faults
    <2>1. budget \in [ops : Nat, changes : Nat, faults : Nat]
      BY DEF PInv, Typed
    <2> QED BY <1>1, <2>1
  <1> QED BY <1>1, <1>2, BeginKeeps DEF PInv, Typed

LEMMA EnablePluginKeeps == ASSUME PInv, NEW w \in Worker, EnablePlugin(w) PROVE PInv'
  <1> DEFINE n == Load \o <<"putOn">>
  <1>1. /\ Fits(n) /\ n \in Seq(Name) /\ n # <<>> /\ n[1] = "check"
        /\ \A k \in 1..Len(n) : n[k] \in {"check", "add", "build", "insert", "init"} \/ (k = 6 /\ n[k] = "putOn")
    BY EnableSteps
  <1>2. Request(w, "enable", n, row) /\ row.granted /\ row \in RowType
    BY DEF EnablePlugin, PInv, Typed
  <1> HIDE DEF n
  <1>3. \A k \in 1..Len(n) :
          /\ n[k] = "put" => ~row.enabled /\ k <= 3 /\ n[1] = ToPut[k]
          /\ n[k] = "putOn" => row.granted /\ k <= 6 /\ n[1] = ToPutOn[k]
          /\ n[k] \notin {"strip", "autoDisable"}
    BY <1>1, <1>2 DEF ToPutOn
  <1> QED BY <1>1, <1>2, <1>3, RequestKeeps DEF Kind

\* The plugin is to be disabled, by a request or for want of its users.
LEMMA DisableKeeps ==
  ASSUME PInv, NEW w \in Worker, NEW kind \in Kind, NEW r \in RowType, ~r.enabled,
         Request(w, kind, Unload \o <<"put">>, r)
  PROVE  PInv'
  <1> DEFINE n == Unload \o <<"put">>
  <1>1. "put" \in Name /\ "put" \notin Linked \cup Bound
    BY DEF Name, Linked, Bound
  <1>2. Fits(n) /\ Len(n) = 3 /\ n[1] = "unload" /\ n[2] = "close" /\ n[3] = "put" /\ n # <<>> /\ n \in Seq(Name)
    BY <1>1, UnloadThen
  <1>3. Request(w, kind, n, r)
    OBVIOUS
  <1> HIDE DEF n
  <1>4. \A k \in 1..Len(n) :
          /\ n[k] = "put" => ~r.enabled /\ k <= 3 /\ n[1] = ToPut[k]
          /\ n[k] # "putOn" /\ n[k] \notin {"strip", "autoDisable"}
    BY <1>2 DEF ToPut
  <1> QED BY <1>2, <1>3, <1>4, RequestKeeps

LEMMA DisablePluginKeeps == ASSUME PInv, NEW w \in Worker, DisablePlugin(w) PROVE PInv'
  <1>1. [row EXCEPT !.enabled = FALSE] \in RowType /\ ~[row EXCEPT !.enabled = FALSE].enabled
    BY DEF PInv, Typed, RowType
  <1> QED BY <1>1, DisableKeeps DEF DisablePlugin, Kind

LEMMA UpdateSettingsKeeps ==
  ASSUME PInv, NEW w \in Worker, NEW granted \in BOOLEAN, UpdateSettings(w, granted)
  PROVE  PInv'
  <1>1. CASE Revoked(granted)
    <2> DEFINE r == [row EXCEPT !.granted = granted, !.enabled = FALSE]
    <2>1. r \in RowType /\ ~r.enabled
      BY DEF PInv, Typed, RowType
    <2>2. Request(w, "settings", Unload \o <<"put">>, r)
      BY <1>1 DEF UpdateSettings
    <2> HIDE DEF r
    <2> QED BY <2>1, <2>2, DisableKeeps DEF Kind
  <1>2. CASE ~Revoked(granted)
    <2> DEFINE r == [row EXCEPT !.granted = granted]
               n == <<"save">> \o (IF row.enabled THEN Unload \o Load ELSE <<>>)
    <2>1. r \in RowType /\ r.enabled = row.enabled /\ r.granted = granted /\ row.enabled \in BOOLEAN
      BY DEF PInv, Typed, RowType
    <2>2. /\ Fits(n) /\ n \in Seq(Name) /\ n # <<>> /\ n[1] = "save"
          /\ \A k \in 1..Len(n) : n[k] \notin {"put", "putOn", "strip", "autoDisable"}
      BY <2>1, SettingsSteps
    <2>3. Request(w, "settings", n, r)
      BY <1>2 DEF UpdateSettings
    <2>4. Undisturbed => Readable
      <3>1. Undisturbed => disk = Installed
        BY DEF PInv, Grants, Undisturbed
      <3> QED BY <3>1, PluginAssumption DEF Readable, Undisturbed
    <2>5. Undisturbed => (r.enabled => r.granted)
      BY <1>2, <2>1, <2>4 DEF Revoked
    <2> HIDE DEF r, n
    <2> QED BY <2>1, <2>2, <2>3, <2>5, RequestKeeps DEF Kind
  <1> QED BY <1>1, <1>2

LEMMA DeleteUserKeeps == ASSUME PInv, NEW w \in Worker, DeleteUser(w) PROVE PInv'
  <1> DEFINE n == <<"strip", "autoDisable", "disabled">>
  <1>1. /\ Fits(n) /\ n \in Seq(Name) /\ n # <<>> /\ n[1] = "strip"
        /\ \A k \in 1..Len(n) : n[k] \notin {"put", "putOn"}
    BY DeleteUserSteps
  <1>2. Request(w, "deleteUser", n, row) /\ row \in RowType
    BY DEF DeleteUser, PInv, Typed
  <1> HIDE DEF n
  <1> QED BY <1>1, <1>2, RequestKeeps DEF Kind

\* An operation that begins with one step.
LEMMA SingleSteps ==
  ASSUME NEW x \in {"readdir", "event"}, NEW n, n = <<x>>
  PROVE  Fits(n) /\ n \in Seq(Name) /\ n # <<>> /\ n[1] = x /\ \A k \in 1..Len(n) : n[k] = x
  <1>1. x \in Name /\ x \notin Linked
    BY DEF Name, Linked
  <1>2. Fits(n) /\ n \in Seq(Name) /\ n # <<>> /\ n[1] = x /\ Len(n) = 1
    BY <1>1, OneStep, OneFits
  <1>3. ASSUME NEW k \in 1..Len(n) PROVE n[k] = x
    <2>1. k = 1
      BY <1>2
    <2> QED BY <1>2, <2>1
  <1> QED BY <1>2, <1>3

LEMMA RescanPluginsKeeps == ASSUME PInv, NEW w \in Worker, RescanPlugins(w) PROVE PInv'
  <1> DEFINE n == <<"readdir">>
  <1>1. Fits(n) /\ n \in Seq(Name) /\ n # <<>> /\ n[1] = "readdir" /\ \A k \in 1..Len(n) : n[k] = "readdir"
    BY SingleSteps
  <1>2. Request(w, "rescan", n, NoRow) /\ NoRow \in RowType
    BY DEF RescanPlugins, NoRow, RowType
  <1> HIDE DEF n
  <1> QED BY <1>1, <1>2, RequestKeeps DEF Kind

LEMMA TimerFiresKeeps == ASSUME PInv, NEW w \in Worker, TimerFires(w) PROVE PInv'
  <1> DEFINE n == <<"event">>
  <1>1. Fits(n) /\ n \in Seq(Name) /\ n # <<>> /\ n[1] = "event" /\ \A k \in 1..Len(n) : n[k] = "event"
    BY SingleSteps
  <1>2. Begin(w, "event", n, NoRow) /\ NoRow \in RowType /\ UNCHANGED <<disk, row, objs, loaded, stop, budget>>
    BY DEF TimerFires, NoRow, RowType
  <1>3. /\ watch' \in Watch
        /\ watch'.event = watch.event
    <2>1. PICK b \in BOOLEAN : watch' = [watch EXCEPT !.timers = @ - 1,
                                                      !.entry = IF @ = "armed" /\ b THEN "fired" ELSE @]
      BY DEF TimerFires
    <2> DEFINE e == IF watch.entry = "armed" /\ b THEN "fired" ELSE watch.entry
    <2>2. e \in {"none", "armed", "fired"} /\ watch.timers - 1 \in Int
      BY DEF PInv, Typed, Watch
    <2>3. watch' = [watch EXCEPT !.timers = watch.timers - 1, !.entry = e]
      BY <2>1
    <2> HIDE DEF e
    <2> QED BY <2>2, <2>3 DEF PInv, Typed, Watch
  <1>4. \A k \in 1..Len(n) :
          /\ n[k] = "put" => ~NoRow.enabled /\ k <= 3 /\ n[1] = ToPut[k]
          /\ n[k] = "putOn" => NoRow.granted /\ k <= 6 /\ n[1] = ToPutOn[k]
          /\ n[k] \in {"strip", "autoDisable"} => "event" = "deleteUser"
    <2> HIDE DEF n
    <2> QED BY <1>1
  <1> HIDE DEF n
  <1> QED BY <1>1, <1>2, <1>3, <1>4, BeginKeeps DEF Kind, PInv, Typed

-----------------------------------------------------------------------------
(* Stop, the watcher and the file. *)

\* Nobody moves.
LEMMA StillKeeps ==
  ASSUME PInv, UNCHANGED <<row, op>>, disk' \in Version \cup {None}, watch' \in Watch,
         budget' \in [ops : Nat, changes : Nat, faults : Nat], budget'.faults = budget.faults,
         \/ UNCHANGED disk /\ budget'.changes = budget.changes /\ (watch'.event => watch.event)
         \/ budget'.changes < budget.changes
  PROVE  Plans' /\ Grants'
  <1>1. Plans'
    BY DEF PInv, Plans, Writes
  <1>2. \A v \in Worker : \A x : At(v, x)' <=> At(v, x)
    BY DEF At, Busy
  <1>3. CASE UNCHANGED disk /\ budget'.changes = budget.changes /\ (watch'.event => watch.event)
    <2>1. Undisturbed' <=> Undisturbed
      BY <1>3 DEF Undisturbed
    <2> QED BY <1>1, <1>2, <1>3, <2>1 DEF PInv, Grants
  <1>4. CASE budget'.changes < budget.changes
    <2>1. budget'.changes \in Nat /\ budget.changes \in Nat /\ budget.changes <= MaxChanges /\ MaxChanges \in Nat
      BY PluginAssumption DEF PInv, Typed, Grants
    <2>2. budget'.changes < MaxChanges
      BY <1>4, <2>1
    <2> QED BY <1>1, <2>1, <2>2 DEF PInv, Grants, Undisturbed
  <1> QED BY <1>3, <1>4

LEMMA QuietKeeps ==
  ASSUME PInv, UNCHANGED <<row, op, objs, loaded, stop>>, disk' \in Version \cup {None}, watch' \in Watch,
         budget' \in [ops : Nat, changes : Nat, faults : Nat], budget'.faults = budget.faults,
         \/ UNCHANGED disk /\ budget'.changes = budget.changes /\ (watch'.event => watch.event)
         \/ budget'.changes < budget.changes
  PROVE  PInv'
  <1>1. Plans' /\ Grants'
    BY StillKeeps
  <1>2. Typed'
    BY DEF PInv, Typed, Watch
  <1>3. \A v \in Worker : \A x : At(v, x)' <=> At(v, x)
    BY DEF At, Busy
  <1>4. Owned' /\ ClosedOnce' /\ Halted'
    BY <1>3 DEF PInv, Owned, Holds, ClosedOnce, Halted, Loading
  <1> QED BY <1>1, <1>2, <1>4 DEF PInv

LEMMA ChangeFileKeeps == ASSUME PInv, NEW v \in Version \cup {None}, ChangeFile(v) PROVE PInv'
  <1>1. /\ UNCHANGED <<row, op, objs, loaded, stop>> /\ disk' \in Version \cup {None}
    BY DEF ChangeFile
  <1>2. PICK a \in BOOLEAN, b \in BOOLEAN : watch' = [watch EXCEPT !.event = a, !.missed = b]
    <2>1. watch.event \in BOOLEAN /\ watch.on \in BOOLEAN /\ watch.missed \in BOOLEAN
      BY DEF PInv, Typed, Watch
    <2> DEFINE a == watch.event \/ watch.on
               b == watch.missed \/ ~(watch.on \/ At(Boot, "readdir"))
    <2>2. a \in BOOLEAN /\ b \in BOOLEAN
      OBVIOUS
    <2>3. watch' = [watch EXCEPT !.event = a, !.missed = b]
      BY DEF ChangeFile
    <2> HIDE DEF a, b
    <2> QED BY <2>2, <2>3
  <1>3. watch' \in Watch
    BY <1>2 DEF PInv, Typed, Watch
  <1>4. /\ budget' \in [ops : Nat, changes : Nat, faults : Nat] /\ budget'.faults = budget.faults
        /\ budget'.changes < budget.changes
    BY DEF PInv, Typed, ChangeFile
  <1> QED BY <1>1, <1>3, <1>4, QuietKeeps

LEMMA LoopEndsKeeps == ASSUME PInv, LoopEnds PROVE PInv'
  <1>1. /\ UNCHANGED <<disk, row, op, objs, loaded, stop, budget>>
        /\ watch' = [watch EXCEPT !.on = FALSE, !.event = FALSE]
    BY DEF LoopEnds
  <1>2. watch' \in Watch /\ ~watch'.event
    BY <1>1 DEF PInv, Typed, Watch
  <1> QED BY <1>1, <1>2, QuietKeeps DEF PInv, Typed

LEMMA HandleEventKeeps == ASSUME PInv, HandleEvent PROVE PInv'
  <1>0. UNCHANGED <<disk, row, objs, loaded, budget>> /\ watch.event
    BY DEF HandleEvent
  <1>1. CASE stop \in {"no", "stopped"}
    <2> DEFINE t == IF watch.entry = "armed" THEN watch.timers ELSE watch.timers + 1
    <2>1. t \in Int
      BY DEF PInv, Typed, Watch
    <2>2. watch' = [watch EXCEPT !.event = FALSE, !.entry = "armed", !.timers = t] /\ UNCHANGED <<op, stop>>
      BY <1>1 DEF HandleEvent
    <2> HIDE DEF t
    <2>3. watch' \in Watch /\ ~watch'.event
      BY <2>1, <2>2 DEF PInv, Typed, Watch
    <2> QED BY <1>0, <2>2, <2>3, QuietKeeps DEF PInv, Typed
  <1>2. CASE stop \notin {"no", "stopped"}
    <2>1. watch' = [NoWatcher EXCEPT !.missed = TRUE] /\ op' = [w \in Worker |-> Idle] /\ stop' = "crashed"
      BY <1>2 DEF HandleEvent
    <2>2. Idle \in Op /\ Idle.todo = <<>>
      <3>1. NoRow \in RowType
        BY DEF NoRow, RowType
      <3> DEFINE n == <<>>
      <3>2. n \in Seq(Name)
        OBVIOUS
      <3>3. Idle = [kind |-> "idle", todo |-> n, rec |-> NoRow, ver |-> None, obj |-> None]
        BY DEF Idle
      <3> HIDE DEF n
      <3>4. Idle \in Op /\ Idle.todo = n
        BY <3>1, <3>2, <3>3 DEF Op, None, Kind
      <3> QED BY <3>4 DEF n
    <2>3. op' \in [Worker -> Op] /\ \A w \in Worker : op'[w] = Idle
      BY <2>1, <2>2
    <2>4. Typed'
      <3>1. watch' \in Watch
        <4>1. NoWatcher \in Watch
          BY DEF NoWatcher, Watch
        <4> QED BY <2>1, <4>1 DEF Watch
      <3>2. stop' \in {"no", "stopped", "unwatched", "waited", "closed", "crashed"}
        BY <2>1
      <3>3. row' \in RowType /\ disk' \in Version \cup {None} /\ objs' \in Seq(Obj) /\ loaded' \in 0..Len(objs')
            /\ budget' \in [ops : Nat, changes : Nat, faults : Nat]
        BY <1>0 DEF PInv, Typed
      <3> QED BY <2>3, <3>1, <3>2, <3>3 DEF Typed
    <2>5. \A w \in Worker : \A x : ~At(w, x)'
      BY <2>2, <2>3 DEF At, Busy
    <2>6. Fits(Idle.todo) /\ Writes(Idle)
      BY <2>2 DEF Fits, Writes
    <2>7. Plans'
      BY <2>3, <2>6 DEF Plans, Writes
    <2>8. Owned' /\ ClosedOnce' /\ Halted'
      BY <1>0, <2>1, <2>5 DEF PInv, Owned, Holds, ClosedOnce, Halted
    <2>9. Grants'
      BY <1>0 DEF PInv, Grants, Undisturbed
    <2> QED BY <2>4, <2>7, <2>8, <2>9 DEF PInv
  <1> QED BY <1>1, <1>2

LEMMA StopKeeps == ASSUME PInv, Stop PROVE PInv'
  <1>0. UNCHANGED <<disk, row, op, budget>>
    BY DEF Stop
  <1>1. \A v \in Worker : \A x : At(v, x)' <=> At(v, x)
    BY <1>0 DEF At, Busy
  <1>2. CASE \/ stop = "no" /\ stop' = "stopped" /\ UNCHANGED <<watch, objs, loaded>>
             \/ stop = "unwatched" /\ Loading = {} /\ stop' = "waited" /\ UNCHANGED <<watch, objs, loaded>>
    <2>1. Plans' /\ Grants'
      BY <1>0, <1>2, StillKeeps DEF PInv, Typed, Watch
    <2>2. Typed'
      BY <1>0, <1>2 DEF PInv, Typed
    <2>3. Owned' /\ ClosedOnce'
      BY <1>0, <1>1, <1>2 DEF PInv, Owned, Holds, ClosedOnce
    <2>4. Halted'
      <3>1. Loading' = Loading
        BY <1>1 DEF Loading
      <3> QED BY <1>2, <3>1 DEF Halted
    <2> QED BY <2>1, <2>2, <2>3, <2>4 DEF PInv
  <1>3. CASE /\ stop = "stopped" /\ stop' = "unwatched" /\ UNCHANGED <<objs, loaded>>
             /\ watch' = [watch EXCEPT !.timers = IF watch.entry = "armed" THEN @ - 1 ELSE @, !.entry = "none",
                                       !.on = FALSE]
    <2> DEFINE t == IF watch.entry = "armed" THEN watch.timers - 1 ELSE watch.timers
    <2>1. t \in Int
      BY DEF PInv, Typed, Watch
    <2>2. watch' = [watch EXCEPT !.timers = t, !.entry = "none", !.on = FALSE]
      BY <1>3
    <2> HIDE DEF t
    <2>3. watch' \in Watch /\ watch'.event = watch.event
      BY <2>1, <2>2 DEF PInv, Typed, Watch
    <2>4. Plans' /\ Grants'
      BY <1>0, <2>3, StillKeeps DEF PInv, Typed
    <2>5. Typed'
      BY <1>0, <1>3, <2>3 DEF PInv, Typed, Watch
    <2>6. Owned' /\ ClosedOnce' /\ Halted'
      BY <1>0, <1>1, <1>3 DEF PInv, Owned, Holds, ClosedOnce, Halted
    <2> QED BY <2>4, <2>5, <2>6 DEF PInv
  <1>4. CASE /\ stop = "waited" /\ stop' = "closed" /\ loaded' = None /\ UNCHANGED watch
             /\ objs' = [o \in DOMAIN objs |-> IF o = loaded THEN [objs[o] EXCEPT !.closes = @ + 1] ELSE objs[o]]
    <2>1. Plans' /\ Grants'
      BY <1>0, <1>4, StillKeeps DEF PInv, Typed, Watch
    <2>2. objs \in Seq(Obj) /\ Len(objs) \in Nat /\ DOMAIN objs = 1..Len(objs) /\ loaded \in 0..Len(objs)
      BY DEF PInv, Typed
    <2>3. ASSUME NEW o \in 1..Len(objs)
          PROVE  /\ o = loaded => objs'[o] \in Obj /\ objs'[o].closes = 1
                 /\ o # loaded => objs'[o] = objs[o] /\ objs'[o] \in Obj
      <3>1. objs[o] \in Obj
        BY <2>2
      <3>2. CASE o = loaded
        <4>1. objs'[o] = [objs[o] EXCEPT !.closes = objs[o].closes + 1]
          BY <1>4, <2>2, <3>2
        <4>2. objs[o].closes = 0
          BY <2>2, <3>2 DEF PInv, ClosedOnce, None
        <4> QED BY <3>1, <3>2, <4>1, <4>2 DEF Obj
      <3>3. CASE o # loaded
        BY <1>4, <2>2, <3>1, <3>3
      <3> QED BY <3>2, <3>3
    <2>4. objs' \in Seq(Obj) /\ Len(objs') = Len(objs) /\ DOMAIN objs' = 1..Len(objs)
      <3>1. DOMAIN objs' = 1..Len(objs) /\ objs' \in [1..Len(objs) -> Obj]
        <4>1. objs' = [o \in 1..Len(objs) |-> objs'[o]]
          BY <1>4, <2>2
        <4> QED BY <2>3, <4>1
      <3>2. objs' \in Seq(Obj)
        BY <2>2, <3>1
      <3> QED BY <2>2, <3>1, <3>2
    <2>5. Typed'
      <3>1. loaded' \in 0..Len(objs')
        BY <1>4, <2>2, <2>4 DEF None
      <3> QED BY <1>0, <1>4, <2>4, <3>1 DEF PInv, Typed
    <2>6. ClosedOnce'
      BY <1>4, <2>2, <2>3, <2>4 DEF PInv, ClosedOnce
    <2>7. Owned'
      BY <1>0, <1>1, <1>4, <2>2, <2>3, <2>4 DEF PInv, Owned, Holds, None
    <2>8. Halted'
      BY <1>1, <1>4 DEF PInv, Halted, Loading
    <2> QED BY <2>1, <2>5, <2>6, <2>7, <2>8 DEF PInv
  <1> QED BY <1>2, <1>3, <1>4 DEF Stop, StopStep

-----------------------------------------------------------------------------
(* The invariant, and what it is for. *)

LEMMA PInvInit == Init => PInv
  <1> SUFFICES ASSUME Init PROVE PInv
    OBVIOUS
  <1> DEFINE t == <<"readdir", "enabled", "watch">>
             b == [Idle EXCEPT !.kind = "boot", !.todo = t]
  <1>1. NoRow \in RowType /\ row \in RowType /\ None \in Nat
    <2>1. NoRow \in RowType /\ None \in Nat
      BY DEF NoRow, RowType, None
    <2>2. \A r \in Row : r \in RowType
      BY DEF Row, RowType
    <2> QED BY <2>1, <2>2 DEF Init
  <1>2. /\ t \in Seq(Name) /\ Len(t) = 3 /\ t[1] = "readdir" /\ t[2] = "enabled" /\ t[3] = "watch" /\ t # <<>>
    BY DEF Name
  <1> HIDE DEF t
  <1>3. Fits(t) /\ \A k \in 1..Len(t) : t[k] \in {"readdir", "enabled", "watch"}
    BY <1>2 DEF Fits, Linked, Follows
  <1>4. Idle \in Op /\ Idle.todo = <<>>
    <2> DEFINE n == <<>>
    <2>1. n \in Seq(Name)
      OBVIOUS
    <2>2. Idle = [kind |-> "idle", todo |-> n, rec |-> NoRow, ver |-> None, obj |-> None]
      BY DEF Idle
    <2> HIDE DEF n
    <2>3. Idle \in Op /\ Idle.todo = n
      BY <1>1, <2>1, <2>2 DEF Op, Kind
    <2> QED BY <2>3 DEF n
  <1>5. b \in Op /\ b.todo = t
    BY <1>2, <1>4 DEF Op, Kind
  <1>6. op = [w \in Worker |-> IF w = Boot THEN b ELSE Idle]
    BY DEF Init, t
  <1>7. op \in [Worker -> Op] /\ \A w \in Worker : op[w] = b \/ op[w] = Idle
    BY <1>4, <1>5, <1>6
  <1>8. Fits(Idle.todo) /\ Writes(Idle) /\ Fits(b.todo) /\ Writes(b)
    BY <1>3, <1>4, <1>5 DEF Fits, Writes
  <1> HIDE DEF b
  <1>9. Plans
    BY <1>7, <1>8 DEF Plans
  <1>10. \A w \in Worker : \A x : At(w, x) => x = "readdir"
    <2> SUFFICES ASSUME NEW w \in Worker, NEW x, At(w, x) PROVE x = "readdir"
      OBVIOUS
    <2>1. op[w].todo # <<>> /\ Head(op[w].todo) = x
      BY DEF At, Busy
    <2>2. op[w].todo = t
      BY <1>4, <1>5, <1>7, <2>1
    <2> QED BY <1>2, <2>1, <2>2, TailSteps
  <1>11. objs = <<>> /\ loaded = None /\ stop = "no" /\ watch = NoWatcher /\ disk \in {Installed, None}
    BY DEF Init
  <1>12. budget = [ops |-> MaxOps, changes |-> MaxChanges, faults |-> MaxFaults]
    BY DEF Init
  <1>13. Typed
    <2>1. objs \in Seq(Obj) /\ Len(objs) = 0 /\ loaded \in 0..Len(objs)
      BY <1>11 DEF None
    <2>2. watch \in Watch
      BY <1>11 DEF NoWatcher, Watch
    <2>3. budget \in [ops : Nat, changes : Nat, faults : Nat] /\ disk \in Version \cup {None}
      BY <1>11, <1>12, PluginAssumption
    <2> QED BY <1>1, <1>7, <1>11, <2>1, <2>2, <2>3 DEF Typed
  <1>14. Owned /\ Halted
    BY <1>10, <1>11 DEF Owned, Holds, Halted
  <1>15. ClosedOnce
    <2>1. DOMAIN objs = {}
      BY <1>11
    <2> QED BY <1>11, <2>1 DEF ClosedOnce
  <1>16. Grants
    <2>1. row.enabled => row.granted
      BY DEF Init, NoRow
    <2>2. budget.faults <= MaxFaults /\ budget.changes <= MaxChanges /\ ~watch.event
      BY <1>11, <1>12, PluginAssumption DEF NoWatcher
    <2> QED BY <1>10, <1>11, <2>1, <2>2 DEF Grants
  <1> QED BY <1>9, <1>13, <1>14, <1>15, <1>16 DEF PInv

LEMMA PInvStep == PInv /\ [Next]_vars => PInv'
  <1> SUFFICES ASSUME PInv, [Next]_vars PROVE PInv'
    OBVIOUS
  <1>1. CASE UNCHANGED vars
    BY <1>1, QuietKeeps DEF vars, PInv, Typed, Watch
  <1>2. ASSUME NEW w \in Worker, Step(w) PROVE PInv'
    BY <1>2, ReadsKeep, PutsKeep, StripUserKeeps, OtherStepsKeep, AddLoadKeeps, BuildKeeps, InsertKeeps,
       ClosePluginKeeps, UnloadPluginKeeps
    DEF Step, Reads
  <1> QED BY <1>1, <1>2, EnablePluginKeeps, DisablePluginKeeps, UpdateSettingsKeeps, DeleteUserKeeps,
             RescanPluginsKeeps, TimerFiresKeeps, HandleEventKeeps, LoopEndsKeeps, StopKeeps, ChangeFileKeeps
          DEF Next

\* The invariant holds in every reachable state.
LEMMA PInvAlways == Spec => []PInv
  BY PInvInit, PInvStep, PTL DEF Spec

\* However many loads are under way when Stop is called, once it has closed the
\* plugins none of them puts one into the map (loadPluginWithConfig, Stop).
THEOREM StopIsFinalCorrect == Spec => []StopIsFinal
  <1>1. PInv => StopIsFinal
    BY DEF PInv, Halted, Loading, StopIsFinal
  <1> QED BY <1>1, PInvAlways, PTL

\* However loads, unloads and Stop interleave, a plugin object is closed once at
\* most, and never while it is in the map (unloadPlugin, Stop).
THEOREM ClosedOnceCorrect == Spec => []ClosedOnce
  <1>1. PInv => ClosedOnce
    BY DEF PInv
  <1> QED BY <1>1, PInvAlways, PTL

\* However requests overlap, while statements work and the file is in place, an
\* enabled plugin has the users it asks for, or who took them away is at work on
\* it (EnablePlugin, updatePluginSettings, cleanupPluginUserReferences).
THEOREM EnabledIsGrantedCorrect == Spec => []EnabledIsGranted
  <1>1. PInv => EnabledIsGranted
    <2> SUFFICES ASSUME PInv, row.enabled, Undisturbed, ~row.granted
                 PROVE  \E w \in Worker : Busy(w) /\ op[w].kind \in {"settings", "deleteUser"}
      BY DEF EnabledIsGranted, Undisturbed
    <2>1. PICK w \in Worker : At(w, "autoDisable")
      BY DEF PInv, Grants
    <2>2. 1 \in 1..Len(op[w].todo) /\ op[w].todo[1] = "autoDisable" /\ Writes(op[w])
      BY <2>1, AtStep, TailSteps
    <2>3. op[w].kind = "deleteUser"
      BY <2>2 DEF Writes
    <2> QED BY <2>1, <2>3 DEF At
  <1> QED BY <1>1, PInvAlways, PTL

-----------------------------------------------------------------------------
(* Operations one at a time. *)

\* Every change of the file was handled, or is being handled; then r says what is there.
Told == ~watch.missed /\ ~watch.event /\ watch.timers = 0
Fresh(r) == Told /\ disk \notin Broken => (r.there <=> disk # None) /\ (r.there => r.sha = disk)

\* Every object but o is closed; the map is what the row says.
OthersClosed(o) == \A p \in DOMAIN objs : p = o \/ objs[p].closes = 1
InMap == loaded # None /\ OthersClosed(loaded) /\ objs[loaded].granted = row.granted
NotInMap == loaded = None /\ OthersClosed(None)
Settled == (row.enabled => row.there) /\ (IF row.enabled THEN InMap ELSE NotInMap)

\* After k steps there is nothing left to do but to start the watcher, if this is Start;
\* or to load the enabled plugins before that.
Over(o, k) == IF o.kind = "boot" THEN Len(o.todo) = k + 1 /\ o.todo[k + 1] = "watch" ELSE Len(o.todo) = k
Boots(o, k) ==
  o.kind = "boot" /\ Len(o.todo) = k + 2 /\ o.todo[k + 1] = "enabled" /\ o.todo[k + 2] = "watch"

\* The plugin is loaded up to the k-th step, as the row is, and then enabled if it was not.
Loads(o, k) ==
  /\ Len(o.todo) >= k /\ o.todo[k] = "init" /\ o.rec = row /\ row.there /\ Fresh(row)
  /\ IF o.kind = "enable" THEN ~row.enabled /\ Over(o, k + 1) /\ o.todo[k + 1] = "putOn"
     ELSE row.enabled /\ Over(o, k)

\* The k-th step writes the row; it is the last one that does.
Stores(o, k) ==
  \/ o.todo[k] = "delete" /\ (Told => disk = None)
  \/ o.todo[k] = "put" /\ o.rec.there /\ Fresh(o.rec)

\* What there is to do from the k-th step on, with the plugin out of the map.
Resumes(o, k) ==
  \/ o.kind # "boot" /\ Over(o, k - 1) /\ ~row.enabled /\ Fresh(row)
  \/ Over(o, k) /\ Stores(o, k)
  \/ Loads(o, k + 4) /\ o.todo[k] = "check"

\* Start, before it loads a plugin.
BootStage(o) ==
  /\ loaded = None /\ objs = <<>> /\ (row.enabled => row.there)
  /\ \/ Boots(o, 0) /\ Fresh(row)
     \/ Boots(o, 1) /\ o.todo[1] = "readdir"
     \/ Boots(o, 1) /\ o.todo[1] \in {"hash", "extract"} /\ o.rec = row
                    /\ (o.todo[1] = "extract" /\ Told => disk # None)
     \/ Boots(o, 1) /\ Stores(o, 1)
     \/ Boots(o, 3) /\ Stores(o, 3) /\ o.todo[1] = "unload" /\ o.todo[2] = "close"

\* What the folder and the row are compared with is what it was read from.
Looks(o) ==
  \/ o.todo[1] \in {"readdir", "event"}
  \/ o.todo[1] = "hash" /\ o.rec = row
  \/ o.todo[1] = "extract" /\ o.rec = row /\ (Told => disk # None)
  \/ o.todo[1] = "hashChanged" /\ (Told => disk # None)
  \/ o.todo[1] = "get" /\ (Told => disk # None /\ o.ver = disk)
  \/ o.todo[1] = "getRemoved" /\ (Told => disk = None)

WorkStage(o) ==
  LET s == o.todo IN
  \/ Looks(o) /\ Over(o, 1) /\ o.kind # "boot" /\ Settled
  \/ s[1] = "watch" /\ Over(o, 0) /\ Settled /\ Fresh(row)
  \/ /\ s[1] = "save" /\ Settled /\ o.kind = "settings" /\ o.rec.there /\ Fresh(o.rec) /\ row.there
     /\ o.rec.enabled = row.enabled
     /\ IF row.enabled THEN Over(o, 8) /\ s[2] = "unload" /\ s[4] = "check" /\ s[8] = "init" ELSE Over(o, 1)
  \/ o.kind = "deleteUser" /\ Over(o, 3) /\ s[1] = "strip" /\ s[3] = "disabled" /\ Settled /\ row.there /\ Fresh(row)
  \/ /\ o.kind = "deleteUser" /\ Over(o, 2) /\ s[1] = "autoDisable" /\ s[2] = "disabled"
     /\ OthersClosed(loaded) /\ row.there /\ ~row.granted /\ Fresh(row)
  \/ o.kind = "deleteUser" /\ Over(o, 1) /\ s[1] = "disabled" /\ OthersClosed(loaded) /\ row.there /\ ~row.enabled /\ Fresh(row)
  \/ s[1] = "unload" /\ OthersClosed(loaded) /\ Resumes(o, 3)
  \/ s[1] = "close" /\ loaded = None /\ OthersClosed(o.obj) /\ Resumes(o, 2)
  \/ s[1] \in {"put", "delete", "check"} /\ NotInMap /\ Resumes(o, 1)
  \/ s[1] = "add" /\ NotInMap /\ Loads(o, 4)
  \/ s[1] = "build" /\ NotInMap /\ Loads(o, 3)
  \/ s[1] = "insert" /\ loaded = None /\ OthersClosed(o.obj) /\ objs[o.obj].granted = row.granted /\ Loads(o, 2)
  \/ s[1] = "init" /\ InMap /\ Loads(o, 1)
  \/ s[1] = "putOn" /\ InMap /\ o.kind = "enable" /\ Over(o, 1) /\ o.rec = row /\ row.there /\ Fresh(row)

Stage(w) == IF Busy(w) THEN BootStage(op[w]) \/ WorkStage(op[w]) ELSE Settled /\ Fresh(row)

Alone(w) == \A v \in Worker \ {w} : ~Busy(v)
OneAtATime ==
  /\ watch.timers >= 0 /\ (watch.entry = "armed" => watch.timers > 0)
  /\ Calm /\ ~Stopped =>
       /\ \A v, w \in Worker : Busy(v) /\ Busy(w) => v = w
       /\ \A w \in Worker : Alone(w) => Stage(w)

\* A worker takes its next step: the steps it is given come before what is left.
LEMMA PushSteps ==
  ASSUME PInv, NEW w \in Worker, NEW x, At(w, x), NEW t \in Seq(Name), op'[w].todo = t \o Tail(op[w].todo)
  PROVE  LET s == op[w].todo
             n == op'[w].todo
         IN  /\ s[1] = x /\ Len(s) \in Nat /\ Len(s) > 0 /\ Len(n) = Len(t) + Len(s) - 1
             /\ (n # <<>> <=> Len(n) > 0)
             /\ \A k \in 1..Len(t) : n[k] = t[k]
             /\ \A k \in 1..Len(n) : k > Len(t) => n[k] = s[k - Len(t) + 1]
  <1> DEFINE s == op[w].todo
             u == Tail(op[w].todo)
             n == t \o u
  <1>1. s \in Seq(Name) /\ s # <<>> /\ s[1] = x
    BY AtStep
  <1>2. u \in Seq(Name) /\ Len(u) = Len(s) - 1 /\ Len(s) \in Nat /\ Len(s) > 0 /\ \A k \in 1..(Len(s) - 1) : u[k] = s[k + 1]
    BY <1>1, TailSteps
  <1> HIDE DEF u
  <1>3. /\ n \in Seq(Name) /\ Len(n) = Len(t) + Len(u) /\ Len(t) \in Nat /\ \A k \in 1..Len(t) : n[k] = t[k]
        /\ \A k \in 1..(Len(t) + Len(u)) : k > Len(t) => n[k] = u[k - Len(t)] /\ k - Len(t) \in 1..Len(u)
    BY <1>2, CatSteps
  <1>4. n = op'[w].todo
    BY DEF u
  <1> HIDE DEF n, s
  <1>5. \A k \in 1..Len(n) : k > Len(t) => n[k] = s[k - Len(t) + 1]
    BY <1>2, <1>3
  <1>6. n # <<>> <=> Len(n) > 0
    BY <1>3, EmptySteps
  <1>7. Len(n) = Len(t) + Len(s) - 1
    BY <1>2, <1>3
  <1> QED BY <1>1, <1>2, <1>3, <1>4, <1>5, <1>6, <1>7 DEF s

\* Where w looks at the folder and the row, with the map settled or still empty.
Looking(w) ==
  \/ loaded = None /\ objs = <<>> /\ (row.enabled => row.there) /\ Boots(op[w], 1)
  \/ Over(op[w], 1) /\ op[w].kind # "boot" /\ Settled

LEMMA AtLook ==
  ASSUME PInv, NEW w \in Worker, Stage(w),
         NEW x \in {"readdir", "hash", "extract", "event", "hashChanged", "get", "getRemoved"}, At(w, x)
  PROVE  /\ Looking(w)
         /\ x \in {"hash", "extract"} => op[w].rec = row
         /\ Told => /\ x \in {"extract", "hashChanged", "get"} => disk # None
                    /\ x = "get" => op[w].ver = disk
                    /\ x = "getRemoved" => disk = None
         /\ op[w].kind = "boot" => x \in {"readdir", "hash", "extract"}
  <1>1. op[w].todo[1] = x /\ Busy(w)
    BY AtStep DEF At
  <1>2. CASE BootStage(op[w])
    BY <1>1, <1>2 DEF BootStage, Boots, Stores, Looking
  <1>3. CASE WorkStage(op[w])
    <2>1. Looks(op[w]) /\ Over(op[w], 1) /\ op[w].kind # "boot" /\ Settled
      BY <1>1, <1>3 DEF WorkStage
    <2> QED BY <1>1, <2>1 DEF Looks, Looking
  <1> QED BY <1>1, <1>2, <1>3 DEF Stage

\* Nothing but what the worker does changes.
Still == UNCHANGED <<disk, row, objs, loaded>> /\ (Told' <=> Told)

LEMMA StillSame ==
  ASSUME Still
  PROVE  /\ Settled' <=> Settled
         /\ \A r : Fresh(r)' <=> Fresh(r)
         /\ \A o : OthersClosed(o)' <=> OthersClosed(o)
         /\ NotInMap' <=> NotInMap
         /\ InMap' <=> InMap
  BY DEF Still, Settled, Fresh, OthersClosed, NotInMap, InMap

\* w goes on with the steps t.
Pushes(w, t) == op'[w].todo = t \o Tail(op[w].todo) /\ op'[w].kind = op[w].kind
Pushed(w, t) ==
  LET s == op[w].todo
      n == op'[w].todo
  IN  /\ op'[w].kind = op[w].kind /\ Len(s) \in Nat /\ Len(s) > 0 /\ Len(n) = Len(t) + Len(s) - 1
      /\ (n # <<>> <=> Len(n) > 0)
      /\ \A k \in 1..Len(t) : n[k] = t[k]
      /\ Len(s) >= 2 => n[Len(t) + 1] = s[2]
      /\ Len(s) >= 3 => n[Len(t) + 2] = s[3]

LEMMA PushesSteps ==
  ASSUME PInv, NEW w \in Worker, NEW x, At(w, x), NEW t \in Seq(Name), Pushes(w, t)
  PROVE  Pushed(w, t)
  <1>1. LET s == op[w].todo
            n == op'[w].todo
        IN  /\ s[1] = x /\ Len(s) \in Nat /\ Len(s) > 0 /\ Len(n) = Len(t) + Len(s) - 1
            /\ (n # <<>> <=> Len(n) > 0)
            /\ \A k \in 1..Len(t) : n[k] = t[k]
            /\ \A k \in 1..Len(n) : k > Len(t) => n[k] = s[k - Len(t) + 1]
    BY PushSteps DEF Pushes
  <1>2. Len(t) \in Nat
    OBVIOUS
  <1>3. Len(op[w].todo) >= 2 => op'[w].todo[Len(t) + 1] = op[w].todo[2]
    <2> SUFFICES ASSUME Len(op[w].todo) >= 2 PROVE op'[w].todo[Len(t) + 1] = op[w].todo[2]
      OBVIOUS
    <2>1. Len(t) + 1 \in 1..Len(op'[w].todo) /\ Len(t) + 1 > Len(t) /\ (Len(t) + 1) - Len(t) + 1 = 2
      BY <1>1, <1>2
    <2> QED BY <1>1, <2>1
  <1>4. Len(op[w].todo) >= 3 => op'[w].todo[Len(t) + 2] = op[w].todo[3]
    <2> SUFFICES ASSUME Len(op[w].todo) >= 3 PROVE op'[w].todo[Len(t) + 2] = op[w].todo[3]
      OBVIOUS
    <2>1. Len(t) + 2 \in 1..Len(op'[w].todo) /\ Len(t) + 2 > Len(t) /\ (Len(t) + 2) - Len(t) + 1 = 3
      BY <1>1, <1>2
    <2> QED BY <1>1, <2>1
  <1> QED BY <1>1, <1>3, <1>4 DEF Pushed, Pushes

LEMMA PushedLength ==
  ASSUME PInv, NEW w \in Worker, NEW t \in Seq(Name), NEW m \in Nat, Len(t) = m, Pushed(w, t)
  PROVE  /\ Over(op[w], 1) => Over(op'[w], m)
         /\ Boots(op[w], 1) => Boots(op'[w], m)
         /\ m > 0 => op'[w].todo # <<>>
  <1> DEFINE n == op'[w].todo
             s == op[w].todo
  <1>1. /\ op'[w].kind = op[w].kind /\ Len(s) \in Nat /\ Len(s) > 0 /\ Len(n) = m + Len(s) - 1
        /\ (n # <<>> <=> Len(n) > 0)
        /\ Len(s) >= 2 => n[m + 1] = s[2]
        /\ Len(s) >= 3 => n[m + 2] = s[3]
    BY DEF Pushed
  <1>2. m > 0 => Len(n) > 0
    BY <1>1
  <1>3. Len(s) = 1 => Len(n) = m
    BY <1>1
  <1>4. Len(s) = 1 + 1 /\ s[1 + 1] = "watch" => Len(n) = m + 1 /\ n[m + 1] = "watch"
    BY <1>1
  <1>5. Len(s) = 1 + 2 /\ s[1 + 1] = "enabled" /\ s[1 + 2] = "watch" =>
          Len(n) = m + 2 /\ n[m + 1] = "enabled" /\ n[m + 2] = "watch"
    BY <1>1
  <1>6. op'[w].kind = op[w].kind /\ (m > 0 => n # <<>>)
    BY <1>1, <1>2
  <1>7. Over(op[w], 1) => Over(op'[w], m)
    BY <1>3, <1>4, <1>6, Zenon DEF Over
  <1>8. Boots(op[w], 1) => Boots(op'[w], m)
    BY <1>5, <1>6, Zenon DEF Boots
  <1> QED BY <1>6, <1>7, <1>8

LEMMA PushOne ==
  ASSUME PInv, NEW w \in Worker, NEW x, At(w, x), NEW y \in Name, Pushes(w, <<y>>)
  PROVE  /\ op'[w].kind = op[w].kind /\ op'[w].todo # <<>> /\ op'[w].todo[1] = y
         /\ Over(op[w], 1) => Over(op'[w], 1)
         /\ Boots(op[w], 1) => Boots(op'[w], 1)
  <1> DEFINE t == <<y>>
  <1>1. t \in Seq(Name) /\ Len(t) = 1 /\ t[1] = y
    BY OneStep
  <1>2. Pushes(w, t)
    OBVIOUS
  <1> HIDE DEF t
  <1>3. Pushed(w, t)
    BY <1>1, <1>2, PushesSteps
  <1>4. op'[w].kind = op[w].kind /\ op'[w].todo[1] = y
    BY <1>1, <1>3 DEF Pushed
  <1>5. 1 \in Nat /\ 1 > 0
    OBVIOUS
  <1>6. (Over(op[w], 1) => Over(op'[w], 1)) /\ (Boots(op[w], 1) => Boots(op'[w], 1)) /\ op'[w].todo # <<>>
    BY <1>1, <1>3, <1>5, PushedLength, Zenon
  <1> QED BY <1>4, <1>6

LEMMA PushThree ==
  ASSUME PInv, NEW w \in Worker, NEW x, At(w, x), NEW y \in Name, y \notin Linked \cup Bound,
         Pushes(w, Unload \o <<y>>)
  PROVE  /\ op'[w].kind = op[w].kind /\ op'[w].todo # <<>>
         /\ op'[w].todo[1] = "unload" /\ op'[w].todo[2] = "close" /\ op'[w].todo[3] = y
         /\ Over(op[w], 1) => Over(op'[w], 3)
         /\ Boots(op[w], 1) => Boots(op'[w], 3)
  <1> DEFINE t == Unload \o <<y>>
  <1>1. t \in Seq(Name) /\ Len(t) = 3 /\ t[1] = "unload" /\ t[2] = "close" /\ t[3] = y
    BY UnloadThen
  <1>2. Pushes(w, t)
    OBVIOUS
  <1> HIDE DEF t
  <1>3. Pushed(w, t)
    BY <1>1, <1>2, PushesSteps
  <1>4. op'[w].kind = op[w].kind /\ op'[w].todo[1] = "unload" /\ op'[w].todo[2] = "close" /\ op'[w].todo[3] = y
    BY <1>1, <1>3 DEF Pushed
  <1>5. 3 \in Nat /\ 3 > 0
    OBVIOUS
  <1>6. (Over(op[w], 1) => Over(op'[w], 3)) /\ (Boots(op[w], 1) => Boots(op'[w], 3)) /\ op'[w].todo # <<>>
    BY <1>1, <1>3, <1>5, PushedLength, Zenon
  <1> QED BY <1>4, <1>6

\* w drops its first step.
Drops(w) == op'[w].todo = Tail(op[w].todo) /\ op'[w].kind = op[w].kind
Dropped(w) ==
  LET n == op'[w].todo
      s == op[w].todo
  IN  /\ op'[w].kind = op[w].kind /\ Len(s) \in Nat /\ Len(n) = Len(s) - 1 /\ (n # <<>> <=> Len(n) > 0)
      /\ \A k \in 1..Len(n) : n[k] = s[k + 1]

LEMMA DropSteps ==
  ASSUME PInv, NEW w \in Worker, NEW x, At(w, x), Drops(w)
  PROVE  Dropped(w)
  <1>1. op[w].todo \in Seq(Name) /\ op[w].todo # <<>> /\ op[w].todo[1] = x
    BY AtStep
  <1>2. /\ Tail(op[w].todo) \in Seq(Name) /\ Len(Tail(op[w].todo)) = Len(op[w].todo) - 1
        /\ Len(op[w].todo) \in Nat /\ Len(op[w].todo) > 0
        /\ \A i \in 1..(Len(op[w].todo) - 1) : Tail(op[w].todo)[i] = op[w].todo[i + 1]
    BY <1>1, TailSteps
  <1>3. op'[w].todo # <<>> <=> Len(op'[w].todo) > 0
    BY <1>2, EmptySteps DEF Drops
  <1> QED BY <1>2, <1>3 DEF Drops, Dropped

LEMMA DroppedOver ==
  ASSUME NEW w, Dropped(w), NEW k \in Nat, NEW m \in Nat, k = m + 1
  PROVE  /\ Over(op[w], k) => Over(op'[w], m)
         /\ Boots(op[w], k) => Boots(op'[w], m)
         /\ Boots(op[w], k) \/ (Over(op[w], k) /\ (op[w].kind = "boot" \/ m > 0)) => op'[w].todo # <<>>
         /\ op[w].kind # "boot" /\ Over(op[w], k) /\ m = 0 => op'[w].todo = <<>>
  <1> DEFINE n == op'[w].todo
             s == op[w].todo
  <1>1. /\ op'[w].kind = op[w].kind /\ Len(s) \in Nat /\ Len(n) = Len(s) - 1 /\ (n # <<>> <=> Len(n) > 0)
        /\ \A i \in 1..Len(n) : n[i] = s[i + 1]
    BY DEF Dropped
  <1> HIDE DEF n, s
  <1>2. Len(s) = k + 1 => Len(n) = m + 1 /\ n[m + 1] = s[k + 1] /\ n # <<>>
    BY <1>1
  <1>3. Len(s) = k + 2 => Len(n) = m + 2 /\ n[m + 1] = s[k + 1] /\ n[m + 2] = s[k + 2] /\ n # <<>>
    BY <1>1
  <1>4. Len(s) = k => Len(n) = m /\ (n # <<>> <=> m > 0)
    BY <1>1
  <1>5. m = 0 => ~(m > 0)
    OBVIOUS
  <1>6. op'[w].kind = op[w].kind
    BY <1>1
  <1>7. Over(op[w], k) => Over(op'[w], m)
    BY <1>2, <1>4, <1>6, Zenon DEF Over, n, s
  <1>8. Boots(op[w], k) => Boots(op'[w], m) /\ op'[w].todo # <<>>
    BY <1>3, <1>6, Zenon DEF Boots, n, s
  <1>9. Over(op[w], k) /\ (op[w].kind = "boot" \/ m > 0) => op'[w].todo # <<>>
    BY <1>2, <1>4, Zenon DEF Over, n, s
  <1>10. op[w].kind # "boot" /\ Over(op[w], k) /\ m = 0 => op'[w].todo = <<>>
    BY <1>4, <1>5, Zenon DEF Over, n, s
  <1> QED BY <1>7, <1>8, <1>9, <1>10

\* The first step is done, and the second one comes.
LEMMA DropOne ==
  ASSUME PInv, NEW w \in Worker, NEW x, At(w, x), Drops(w)
  PROVE  /\ op'[w].kind = op[w].kind
         /\ Over(op[w], 1) => Over(op'[w], 0) /\ (op'[w].todo # <<>> <=> op[w].kind = "boot")
         /\ Boots(op[w], 1) => Boots(op'[w], 0) /\ op'[w].todo # <<>>
  <1>1. Dropped(w)
    BY DropSteps
  <1>2. 0 \in Nat /\ 1 \in Nat /\ 1 = 0 + 1
    OBVIOUS
  <1>3. /\ Over(op[w], 1) => Over(op'[w], 0)
        /\ Boots(op[w], 1) => Boots(op'[w], 0)
        /\ Boots(op[w], 1) \/ (Over(op[w], 1) /\ op[w].kind = "boot") => op'[w].todo # <<>>
        /\ op[w].kind # "boot" /\ Over(op[w], 1) => op'[w].todo = <<>>
    BY <1>1, <1>2, DroppedOver, Zenon
  <1> QED BY <1>3 DEF Drops

\* There is nothing to do, one more look, or a row to write.
LEMMA LookDone ==
  ASSUME PInv, NEW w \in Worker, NEW x, At(w, x), Looking(w), Still, Fresh(row), Pushes(w, <<>>)
  PROVE  Stage(w)'
  <1>1. Drops(w)
    BY AtStep, TailSteps DEF Pushes, Drops
  <1>2. CASE loaded = None /\ objs = <<>> /\ (row.enabled => row.there) /\ Boots(op[w], 1)
    <2>1. Boots(op'[w], 0) /\ op'[w].todo # <<>>
      BY <1>1, <1>2, DropOne
    <2>2. BootStage(op[w])'
      BY <1>2, <2>1, StillSame DEF BootStage, Still, Boots
    <2> QED BY <2>1, <2>2 DEF Stage, Busy
  <1>3. CASE Over(op[w], 1) /\ op[w].kind # "boot" /\ Settled
    <2>1. op'[w].todo = <<>>
      BY <1>1, <1>3, DropOne
    <2> QED BY <1>3, <2>1, StillSame DEF Stage, Busy, Still
  <1> QED BY <1>2, <1>3 DEF Looking

LEMMA LookAgain ==
  ASSUME PInv, NEW w \in Worker, NEW x, At(w, x), Looking(w), Still,
         NEW y \in Name, Pushes(w, <<y>>),
         y \in {"hash", "extract", "hashChanged", "get", "getRemoved"},
         y \in {"hash", "extract"} => op'[w].rec = row,
         Told => /\ y \in {"extract", "hashChanged", "get"} => disk # None
                 /\ y = "get" => op'[w].ver = disk
                 /\ y = "getRemoved" => disk = None,
         op[w].kind = "boot" => y \in {"hash", "extract"}
  PROVE  Stage(w)'
  <1>1. /\ op'[w].kind = op[w].kind /\ op'[w].todo # <<>> /\ op'[w].todo[1] = y
        /\ Over(op[w], 1) => Over(op'[w], 1)
        /\ Boots(op[w], 1) => Boots(op'[w], 1)
    BY PushOne
  <1>2. CASE loaded = None /\ objs = <<>> /\ (row.enabled => row.there) /\ Boots(op[w], 1)
    <2>1. Boots(op'[w], 1)
      BY <1>1, <1>2
    <2>2. op'[w].todo[1] \in {"hash", "extract"} /\ op'[w].rec = row' /\ (op'[w].todo[1] = "extract" /\ Told' => disk' # None)
      BY <1>1, <1>2 DEF Boots, Still
    <2>3. loaded' = None /\ objs' = <<>> /\ (row'.enabled => row'.there)
      BY <1>2 DEF Still
    <2>4. BootStage(op[w])'
      BY <2>1, <2>2, <2>3 DEF BootStage
    <2> QED BY <1>1, <2>4 DEF Stage, Busy
  <1>3. CASE Over(op[w], 1) /\ op[w].kind # "boot" /\ Settled
    <2>1. Over(op'[w], 1)
      BY <1>1, <1>3
    <2>2. Looks(op[w])'
      BY <1>1 DEF Looks, Still
    <2>3. Settled'
      BY <1>3, StillSame
    <2>4. WorkStage(op[w])'
      BY <1>1, <1>3, <2>1, <2>2, <2>3 DEF WorkStage
    <2> QED BY <1>1, <2>4 DEF Stage, Busy
  <1> QED BY <1>2, <1>3 DEF Looking

Unloading(y) == (IF row.enabled THEN Unload ELSE <<>>) \o <<y>>

LEMMA LookStores ==
  ASSUME PInv, NEW w \in Worker, NEW x, At(w, x), Looking(w), Still,
         NEW y \in {"put", "delete"}, Pushes(w, Unloading(y)),
         IF y = "put" THEN op'[w].rec.there /\ Fresh(op'[w].rec) ELSE Told => disk = None
  PROVE  Stage(w)'
  <1>1. y \in Name /\ y \notin Linked \cup Bound
    BY DEF Name, Linked, Bound
  <1>2. \A k : op'[w].todo[k] = y => Stores(op[w], k)'
    BY StillSame DEF Stores, Still
  <1>3. CASE row.enabled
    <2>1. Pushes(w, Unload \o <<y>>)
      BY <1>3 DEF Unloading
    <2>4. /\ op'[w].todo # <<>> /\ op'[w].todo[1] = "unload" /\ op'[w].todo[2] = "close" /\ op'[w].todo[3] = y
          /\ Over(op[w], 1) => Over(op'[w], 3)
          /\ Boots(op[w], 1) => Boots(op'[w], 3)
      BY <1>1, <2>1, PushThree
    <2>5. Stores(op[w], 3)'
      BY <1>2, <2>4
    <2>6. CASE loaded = None /\ objs = <<>> /\ (row.enabled => row.there) /\ Boots(op[w], 1)
      <3>1. Boots(op'[w], 3)
        BY <2>4, <2>6
      <3>2. BootStage(op[w])'
        BY <2>4, <2>5, <2>6, <3>1 DEF BootStage, Still
      <3> QED BY <2>4, <3>2 DEF Stage, Busy
    <2>7. CASE Over(op[w], 1) /\ op[w].kind # "boot" /\ Settled
      <3>1. Over(op'[w], 3)
        BY <2>4, <2>7
      <3>2. OthersClosed(loaded)'
        BY <1>3, <2>7, StillSame DEF Still, Settled, InMap
      <3>3. Resumes(op[w], 3)'
        BY <2>5, <3>1 DEF Resumes
      <3>4. WorkStage(op[w])'
        BY <2>4, <3>2, <3>3 DEF WorkStage
      <3> QED BY <2>4, <3>4 DEF Stage, Busy
    <2> QED BY <2>6, <2>7 DEF Looking
  <1>4. CASE ~row.enabled
    <2>1. Pushes(w, <<y>>)
      BY <1>1, <1>4, OneStep DEF Unloading
    <2>4. /\ op'[w].todo # <<>> /\ op'[w].todo[1] = y
          /\ Over(op[w], 1) => Over(op'[w], 1)
          /\ Boots(op[w], 1) => Boots(op'[w], 1)
      BY <1>1, <2>1, PushOne
    <2>5. Stores(op[w], 1)'
      BY <1>2, <2>4
    <2>6. CASE loaded = None /\ objs = <<>> /\ (row.enabled => row.there) /\ Boots(op[w], 1)
      <3>1. Boots(op'[w], 1)
        BY <2>4, <2>6
      <3>2. BootStage(op[w])'
        BY <2>4, <2>5, <2>6, <3>1 DEF BootStage, Still
      <3> QED BY <2>4, <3>2 DEF Stage, Busy
    <2>7. CASE Over(op[w], 1) /\ op[w].kind # "boot" /\ Settled
      <3>1. Over(op'[w], 1)
        BY <2>4, <2>7
      <3>2. NotInMap'
        BY <1>4, <2>7, StillSame DEF Settled
      <3>3. Resumes(op[w], 1)'
        BY <2>5, <3>1 DEF Resumes
      <3>4. WorkStage(op[w])'
        BY <2>4, <3>2, <3>3 DEF WorkStage
      <3> QED BY <2>4, <3>4 DEF Stage, Busy
    <2> QED BY <2>6, <2>7 DEF Looking
  <1> QED BY <1>3, <1>4

\* A statement that fails, and the operations are not calm any more.
LEMMA NoFault == ASSUME PInv, Calm' PROVE ~Fault
  <1> SUFFICES ASSUME Fault PROVE FALSE
    OBVIOUS
  <1>1. budget \in [ops : Nat, changes : Nat, faults : Nat] /\ budget.faults <= MaxFaults
    BY DEF PInv, Typed, Grants
  <1>2. budget' = [budget EXCEPT !.faults = @ - 1]
    BY DEF Fault
  <1>3. budget'.faults = budget.faults - 1 /\ budget.faults \in Nat
    BY <1>1, <1>2
  <1>4. budget'.faults = MaxFaults
    BY DEF Calm
  <1> QED BY <1>1, <1>3, <1>4, PluginAssumption

LEMMA GoPushes ==
  ASSUME PInv, NEW w \in Worker, NEW x, At(w, x), NEW t \in Seq(Name), Go(w, t)
  PROVE  Pushes(w, t) /\ op'[w].rec = op[w].rec /\ op'[w].obj = op[w].obj /\ op'[w].ver = op[w].ver
  BY GoMoves DEF Pushes, Moves

LEMMA GoDrops ==
  ASSUME PInv, NEW w \in Worker, NEW x, At(w, x), Go(w, <<>>)
  PROVE  Drops(w) /\ op'[w].rec = op[w].rec /\ op'[w].obj = op[w].obj /\ op'[w].ver = op[w].ver
  <1>1. <<>> \in Seq(Name)
    OBVIOUS
  <1>2. Pushes(w, <<>>) /\ op'[w].rec = op[w].rec /\ op'[w].obj = op[w].obj /\ op'[w].ver = op[w].ver
    BY <1>1, GoPushes
  <1>3. <<>> \o Tail(op[w].todo) = Tail(op[w].todo)
    BY AtStep, TailSteps
  <1> QED BY <1>2, <1>3 DEF Pushes, Drops

LEMMA GoWithPushes ==
  ASSUME PInv, NEW w \in Worker, NEW x, At(w, x), NEW t \in Seq(Name), NEW r \in RowType, GoWith(w, t, r)
  PROVE  Pushes(w, t) /\ op'[w].rec = r
  BY GoWithMoves DEF Pushes, Moves

\* The steps a look ends in.
LEMMA LookSteps ==
  /\ <<>> \in Seq(Name)
  /\ \A y \in {"hash", "extract", "get", "hashChanged", "getRemoved", "put", "delete"} : y \in Name /\ <<y>> \in Seq(Name)
  /\ \A y \in {"put", "delete"} : Unloading(y) \in Seq(Name)
  <1>1. <<>> \in Seq(Name)
    OBVIOUS
  <1>2. \A y \in {"hash", "extract", "get", "hashChanged", "getRemoved", "put", "delete"} : y \in Name /\ <<y>> \in Seq(Name)
    BY OneStep DEF Name
  <1>3. ASSUME NEW y \in {"put", "delete"} PROVE Unloading(y) \in Seq(Name)
    <2>1. y \in Name /\ y \notin Linked \cup Bound
      BY DEF Name, Linked, Bound
    <2>2. Unload \o <<y>> \in Seq(Name)
      BY <2>1, UnloadThen
    <2>3. <<>> \o <<y>> \in Seq(Name)
      BY <2>1, OneStep
    <2> QED BY <2>2, <2>3 DEF Unloading
  <1> QED BY <1>1, <1>2, <1>3

LEMMA ReadDirStages == ASSUME PInv, NEW w \in Worker, ReadDir(w), Stage(w) PROVE Stage(w)'
  <1>1. At(w, "readdir") /\ Still /\ row \in RowType
    BY DEF ReadDir, Still, Told, PInv, Typed
  <1>2. Looking(w)
    BY <1>1, AtLook
  <1>3. GoWith(w, IF disk # None THEN <<"hash">> ELSE IF row.there THEN Remove(row) ELSE <<>>, row)
    BY DEF ReadDir
  <1>4. CASE disk # None
    <2>1. Pushes(w, <<"hash">>) /\ op'[w].rec = row
      BY <1>1, <1>3, <1>4, LookSteps, GoWithPushes
    <2> QED BY <1>1, <1>2, <2>1, LookSteps, LookAgain
  <1>5. CASE disk = None /\ row.there
    <2>1. Pushes(w, Unloading("delete"))
      BY <1>1, <1>3, <1>5, LookSteps, GoWithPushes DEF Remove, Unloading
    <2> QED BY <1>1, <1>2, <1>5, <2>1, LookStores
  <1>6. CASE disk = None /\ ~row.there
    <2>1. Pushes(w, <<>>)
      BY <1>1, <1>3, <1>6, LookSteps, GoWithPushes
    <2>2. Fresh(row)
      BY <1>6 DEF Fresh
    <2> QED BY <1>1, <1>2, <2>1, <2>2, LookDone
  <1> QED BY <1>4, <1>5, <1>6

LEMMA HashFileStages == ASSUME PInv, NEW w \in Worker, HashFile(w), Calm', Stage(w) PROVE Stage(w)'
  <1>1. At(w, "hash") /\ Still /\ row \in RowType
    BY DEF HashFile, Still, Told, PInv, Typed
  <1>2. Looking(w) /\ op[w].rec = row
    BY <1>1, AtLook
  <1>3. ~Fault
    BY NoFault
  <1>4. CASE disk # None /\ Go(w, AfterHash(op[w].rec, disk))
    <2>1. CASE Unchanged(row, disk)
      <3>1. Pushes(w, <<>>)
        BY <1>1, <1>2, <1>4, <2>1, LookSteps, GoPushes DEF AfterHash
      <3>2. Fresh(row)
        BY <1>4, <2>1 DEF Fresh, Unchanged
      <3> QED BY <1>1, <1>2, <3>1, <3>2, LookDone
    <2>2. CASE ~Unchanged(row, disk)
      <3>1. Pushes(w, <<"extract">>) /\ op'[w].rec = op[w].rec
        BY <1>1, <1>2, <1>4, <2>2, LookSteps, GoPushes DEF AfterHash
      <3> QED BY <1>1, <1>2, <1>4, <3>1, LookSteps, LookAgain
    <2> QED BY <2>1, <2>2
  <1>5. CASE disk = None /\ Go(w, IF op[w].rec.there THEN Remove(op[w].rec) ELSE <<>>)
    <2>1. CASE row.there
      <3>1. Pushes(w, Unloading("delete"))
        BY <1>1, <1>2, <1>5, <2>1, LookSteps, GoPushes DEF Remove, Unloading
      <3> QED BY <1>1, <1>2, <1>5, <3>1, LookStores
    <2>2. CASE ~row.there
      <3>1. Pushes(w, <<>>)
        BY <1>1, <1>2, <1>5, <2>2, LookSteps, GoPushes
      <3>2. Fresh(row)
        BY <1>5, <2>2 DEF Fresh
      <3> QED BY <1>1, <1>2, <3>1, <3>2, LookDone
    <2> QED BY <2>1, <2>2
  <1> QED BY <1>3, <1>4, <1>5 DEF HashFile

LEMMA HashChangedStages == ASSUME PInv, NEW w \in Worker, HashChanged(w), Calm', Stage(w) PROVE Stage(w)'
  <1>1. At(w, "hashChanged") /\ Still
    BY DEF HashChanged, Still, Told
  <1>2. Looking(w) /\ (Told => disk # None) /\ op[w].kind # "boot"
    BY <1>1, AtLook
  <1>3. ~Fault
    BY NoFault
  <1>4. CASE disk # None /\ op' = [op EXCEPT ![w].todo = Then(w, <<"get">>), ![w].ver = disk]
    <2>1. op'[w] = [op[w] EXCEPT !.todo = Then(w, <<"get">>), !.ver = disk] /\ op[w] \in Op
      BY <1>4 DEF PInv, Typed
    <2>2. op'[w].todo = Then(w, <<"get">>) /\ op'[w].ver = disk /\ op'[w].kind = op[w].kind
      BY <2>1 DEF Op
    <2>3. Pushes(w, <<"get">>)
      BY <2>2 DEF Pushes, Then
    <2> QED BY <1>1, <1>2, <1>4, <2>2, <2>3, LookSteps, LookAgain
  <1>5. CASE disk = None /\ Go(w, <<>>)
    <2>1. Pushes(w, <<>>)
      BY <1>1, <1>5, LookSteps, GoPushes
    <2>2. Fresh(row)
      BY <1>2, <1>5 DEF Fresh
    <2> QED BY <1>1, <1>2, <2>1, <2>2, LookDone
  <1> QED BY <1>3, <1>4, <1>5 DEF HashChanged

LEMMA GetChangedStages ==
  ASSUME PInv, NEW w \in Worker, GetChanged(w), Calm', ~Stopped, Stage(w) PROVE Stage(w)'
  <1>1. At(w, "get") /\ Still /\ row \in RowType
    BY DEF GetChanged, Still, Told, PInv, Typed
  <1>2. Looking(w) /\ (Told => disk # None /\ op[w].ver = disk) /\ op[w].kind # "boot"
    BY <1>1, AtLook
  <1>3. GoWith(w, AfterHash(row, op[w].ver), row)
    BY NoFault DEF GetChanged, ContextFails
  <1>4. CASE Unchanged(row, op[w].ver)
    <2>1. Pushes(w, <<>>)
      BY <1>1, <1>3, <1>4, LookSteps, GoWithPushes DEF AfterHash
    <2>2. Fresh(row)
      BY <1>2, <1>4 DEF Fresh, Unchanged
    <2> QED BY <1>1, <1>2, <2>1, <2>2, LookDone
  <1>5. CASE ~Unchanged(row, op[w].ver)
    <2>1. Pushes(w, <<"extract">>) /\ op'[w].rec = row
      BY <1>1, <1>3, <1>5, LookSteps, GoWithPushes DEF AfterHash
    <2> QED BY <1>1, <1>2, <2>1, LookSteps, LookAgain
  <1> QED BY <1>4, <1>5

LEMMA GetRemovedStages ==
  ASSUME PInv, NEW w \in Worker, GetRemoved(w), Calm', ~Stopped, Stage(w) PROVE Stage(w)'
  <1>1. At(w, "getRemoved") /\ Still /\ row \in RowType
    BY DEF GetRemoved, Still, Told, PInv, Typed
  <1>2. Looking(w) /\ (Told => disk = None) /\ op[w].kind # "boot"
    BY <1>1, AtLook
  <1>3. GoWith(w, IF row.there THEN Remove(row) ELSE <<>>, row)
    BY NoFault DEF GetRemoved, ContextFails
  <1>4. CASE row.there
    <2>1. Pushes(w, Unloading("delete"))
      BY <1>1, <1>3, <1>4, LookSteps, GoWithPushes DEF Remove, Unloading
    <2> QED BY <1>1, <1>2, <2>1, LookStores
  <1>5. CASE ~row.there
    <2>1. Pushes(w, <<>>)
      BY <1>1, <1>3, <1>5, LookSteps, GoWithPushes
    <2>2. Fresh(row)
      BY <1>2, <1>5 DEF Fresh
    <2> QED BY <1>1, <1>2, <2>1, <2>2, LookDone
  <1> QED BY <1>4, <1>5

LEMMA ExtractStages == ASSUME PInv, NEW w \in Worker, Extract(w), ~Stopped, Stage(w) PROVE Stage(w)'
  <1>1. At(w, "extract") /\ Still /\ row \in RowType /\ disk \in Version \cup {None}
    BY DEF Extract, Still, Told, PInv, Typed
  <1>2. Looking(w) /\ (Told => disk # None) /\ op[w].rec = row
    BY <1>1, AtLook
  <1>3. CASE Readable
    <2> DEFINE r == [there |-> TRUE, enabled |-> FALSE, sha |-> disk, granted |-> row.granted]
    <2>1. r \in RowType /\ r.there /\ r.sha = disk
      BY <1>1 DEF RowType
    <2>2. GoWith(w, Unloading("put"), r)
      BY <1>2, <1>3 DEF Extract, ShaOfFile, Disabling, Unloading
    <2> HIDE DEF r
    <2>3. Pushes(w, Unloading("put")) /\ op'[w].rec = r
      BY <1>1, <2>1, <2>2, LookSteps, GoWithPushes
    <2>4. Fresh(r)
      BY <1>3, <2>1 DEF Fresh, Readable
    <2> QED BY <1>1, <1>2, <2>1, <2>3, <2>4, LookStores
  <1>4. CASE ~Readable
    <2> DEFINE r == [row EXCEPT !.enabled = FALSE]
    <2>1. r \in RowType /\ r.there = row.there
      BY <1>1 DEF RowType
    <2>2. GoWith(w, IF row.there THEN Unloading("put") ELSE <<>>, r)
      BY <1>2, <1>4 DEF Extract, Disabling, Unloading
    <2> HIDE DEF r
    <2>3. Fresh(r) /\ Fresh(row)
      BY <1>2, <1>4 DEF Fresh, Readable
    <2>4. CASE row.there
      <3>1. Pushes(w, Unloading("put")) /\ op'[w].rec = r
        BY <1>1, <2>1, <2>2, <2>4, LookSteps, GoWithPushes
      <3> QED BY <1>1, <1>2, <2>1, <2>3, <2>4, <3>1, LookStores
    <2>5. CASE ~row.there
      <3>1. Pushes(w, <<>>)
        BY <1>1, <2>1, <2>2, <2>5, LookSteps, GoWithPushes
      <3> QED BY <1>1, <1>2, <2>3, <3>1, LookDone
    <2> QED BY <2>4, <2>5
  <1> QED BY <1>3, <1>4

LEMMA ProcessPluginEventStages ==
  ASSUME PInv, NEW w \in Worker, ProcessPluginEvent(w), ~Stopped, Stage(w) PROVE Stage(w)'
  <1>1. At(w, "event") /\ UNCHANGED <<disk, row, objs, loaded>> /\ watch' = [watch EXCEPT !.entry = "none"]
    BY DEF ProcessPluginEvent
  <1>2. Still
    BY <1>1 DEF Still, Told, PInv, Typed, Watch
  <1>3. Looking(w) /\ op[w].kind # "boot"
    BY <1>1, AtLook
  <1>4. CASE disk # None
    <2>1. Pushes(w, <<"hashChanged">>)
      BY <1>1, <1>4, LookSteps, GoPushes DEF ProcessPluginEvent
    <2> QED BY <1>1, <1>2, <1>3, <1>4, <2>1, LookSteps, LookAgain
  <1>5. CASE disk = None
    <2>1. Pushes(w, <<"getRemoved">>)
      BY <1>1, <1>5, LookSteps, GoPushes DEF ProcessPluginEvent
    <2> QED BY <1>1, <1>2, <1>3, <1>5, <2>1, LookSteps, LookAgain
  <1> QED BY <1>4, <1>5

-----------------------------------------------------------------------------
(* The steps that write the row, or change the map. *)

\* The last step is done.
LEMMA Ended ==
  ASSUME PInv, NEW w \in Worker, NEW x, At(w, x), Drops(w), Over(op[w], 1), Settled', Fresh(row)'
  PROVE  Stage(w)'
  <1>1. Over(op'[w], 0) /\ (op'[w].todo # <<>> <=> op'[w].kind = "boot")
    BY DropOne
  <1>2. CASE op'[w].kind = "boot"
    <2>1. op'[w].todo[1] = "watch"
      BY <1>1, <1>2 DEF Over
    <2>2. WorkStage(op[w])'
      BY <1>1, <2>1 DEF WorkStage
    <2> QED BY <1>1, <1>2, <2>2 DEF Stage, Busy
  <1>3. CASE op'[w].kind # "boot"
    BY <1>1, <1>3 DEF Stage, Busy
  <1> QED BY <1>2, <1>3

\* Start looked, and goes on to load.
LEMMA Booted ==
  ASSUME PInv, NEW w \in Worker, NEW x, At(w, x), Drops(w), Boots(op[w], 1), loaded' = None, objs' = <<>>,
         row'.enabled => row'.there, Fresh(row)'
  PROVE  Stage(w)'
  <1>1. Boots(op'[w], 0) /\ op'[w].todo # <<>>
    BY DropOne
  <1>2. BootStage(op[w])'
    BY <1>1 DEF BootStage
  <1> QED BY <1>1, <1>2 DEF Stage, Busy

\* A busy worker's last step.
LEMMA NotOver == ASSUME PInv, NEW w \in Worker, NEW x, At(w, x), Over(op[w], 0) PROVE op[w].kind = "boot"
  <1>1. op[w].todo \in Seq(Name) /\ op[w].todo # <<>>
    BY AtStep
  <1>2. Len(op[w].todo) > 0
    BY <1>1, EmptySteps
  <1> QED BY <1>2 DEF Over

LEMMA AtStore ==
  ASSUME PInv, NEW w \in Worker, Stage(w), NEW x \in {"put", "delete"}, At(w, x)
  PROVE  /\ \/ Boots(op[w], 1) /\ loaded = None /\ objs = <<>>
            \/ Over(op[w], 1) /\ NotInMap
         /\ x = "put" => op[w].rec.there /\ Fresh(op[w].rec) /\ ~op[w].rec.enabled
         /\ x = "delete" => (Told => disk = None)
  <1>1. op[w].todo[1] = x /\ Busy(w) /\ Writes(op[w]) /\ op[w].todo \in Seq(Name) /\ op[w].todo # <<>>
    BY AtStep DEF At
  <1>2. 1 \in 1..Len(op[w].todo)
    BY <1>1, EmptySteps
  <1>3. x = "put" => ~op[w].rec.enabled
    BY <1>1, <1>2 DEF Writes
  <1>4. CASE BootStage(op[w])
    <2>1. Boots(op[w], 1) /\ loaded = None /\ objs = <<>> /\ Stores(op[w], 1)
      BY <1>1, <1>4 DEF BootStage, Boots
    <2> QED BY <1>1, <1>3, <2>1 DEF Stores
  <1>5. CASE WorkStage(op[w])
    <2>1. NotInMap /\ Resumes(op[w], 1)
      BY <1>1, <1>5 DEF WorkStage, Looks
    <2>2. 1 - 1 = 0
      OBVIOUS
    <2>3. Over(op[w], 1) /\ Stores(op[w], 1)
      BY <1>1, <2>1, <2>2, NotOver DEF Resumes
    <2> QED BY <1>1, <1>3, <2>1, <2>3 DEF Stores
  <1> QED BY <1>1, <1>4, <1>5 DEF Stage

LEMMA StoredStages ==
  ASSUME PInv, NEW w \in Worker, Stage(w), NEW x \in {"put", "delete"}, At(w, x), Drops(w),
         ~row'.enabled, Fresh(row)', UNCHANGED <<objs, loaded>>
  PROVE  Stage(w)'
  <1>1. CASE Boots(op[w], 1) /\ loaded = None /\ objs = <<>>
    BY <1>1, Booted
  <1>2. CASE Over(op[w], 1) /\ NotInMap
    <2>1. Settled'
      BY <1>2 DEF Settled, NotInMap, OthersClosed
    <2> QED BY <1>2, <2>1, Ended
  <1> QED BY <1>1, <1>2, AtStore

LEMMA PutStages == ASSUME PInv, NEW w \in Worker, Put(w), Calm', Stage(w) PROVE Stage(w)'
  <1>1. At(w, "put") /\ Drops(w) /\ UNCHANGED <<disk, objs, loaded, watch>>
    BY GoDrops DEF Put
  <1>2. row' = op[w].rec
    BY NoFault DEF Put
  <1>3. Fresh(op[w].rec) /\ ~op[w].rec.enabled
    BY <1>1, AtStore
  <1>4. Fresh(row)'
    BY <1>1, <1>2, <1>3 DEF Fresh, Told
  <1> QED BY <1>1, <1>2, <1>3, <1>4, StoredStages

LEMMA DeleteStages == ASSUME PInv, NEW w \in Worker, Delete(w), Calm', ~Stopped, Stage(w) PROVE Stage(w)'
  <1>1. At(w, "delete") /\ Drops(w) /\ UNCHANGED <<disk, objs, loaded, watch>>
    BY GoDrops DEF Delete
  <1>2. row' = NoRow
    BY NoFault DEF Delete, ContextFails
  <1>3. Told => disk = None
    BY <1>1, AtStore
  <1>4. Fresh(row)' /\ ~row'.enabled
    BY <1>1, <1>2, <1>3 DEF Fresh, Told, NoRow
  <1> QED BY <1>1, <1>4, StoredStages

LEMMA PutEnabledStages == ASSUME PInv, NEW w \in Worker, PutEnabled(w), Calm', Stage(w) PROVE Stage(w)'
  <1>1. At(w, "putOn") /\ UNCHANGED <<disk, objs, loaded, watch>>
    BY DEF PutEnabled
  <1>2. row' = [op[w].rec EXCEPT !.enabled = TRUE] /\ Drops(w)
    BY <1>1, NoFault, GoDrops DEF PutEnabled
  <1>3. op[w].todo[1] = "putOn" /\ Busy(w)
    BY <1>1, AtStep DEF At
  <1>4. ~BootStage(op[w])
    BY <1>3 DEF BootStage, Boots, Stores
  <1>5. InMap /\ Over(op[w], 1) /\ op[w].rec = row /\ row.there /\ Fresh(row)
    BY <1>3, <1>4 DEF Stage, WorkStage, Looks
  <1>6. row'.enabled /\ row'.there = row.there /\ row'.sha = row.sha /\ row'.granted = row.granted
    BY <1>2, <1>5 DEF PInv, Typed, RowType
  <1>7. Settled' /\ Fresh(row)'
    BY <1>1, <1>5, <1>6 DEF Settled, InMap, OthersClosed, Fresh, Told
  <1> QED BY <1>1, <1>2, <1>5, <1>7, Ended

\* The steps up to m load the plugin once the first one is done.
LEMMA LoadsOn ==
  ASSUME NEW w, Dropped(w), op'[w].rec = op[w].rec, UNCHANGED row, Fresh(row) => Fresh(row)',
         NEW k \in Nat, NEW m \in Nat, k = m + 1, m >= 1, Loads(op[w], k)
  PROVE  Loads(op[w], m)'
  <1>1. /\ op'[w].kind = op[w].kind /\ Len(op[w].todo) \in Nat /\ Len(op'[w].todo) = Len(op[w].todo) - 1
        /\ \A i \in 1..Len(op'[w].todo) : op'[w].todo[i] = op[w].todo[i + 1]
    BY DEF Dropped
  <1>2. /\ Len(op[w].todo) >= k /\ op[w].todo[k] = "init" /\ op[w].rec = row /\ row.there /\ Fresh(row)
        /\ IF op[w].kind = "enable" THEN ~row.enabled /\ Over(op[w], k + 1) /\ op[w].todo[k + 1] = "putOn"
           ELSE row.enabled /\ Over(op[w], k)
    BY DEF Loads
  <1>3. Len(op'[w].todo) >= m /\ op'[w].todo[m] = "init"
    BY <1>1, <1>2
  <1>4. Over(op[w], k) => Over(op'[w], m)
    BY DroppedOver
  <1>5. Over(op[w], k + 1) => Over(op'[w], m + 1)
    <2>1. k + 1 \in Nat /\ m + 1 \in Nat /\ k + 1 = (m + 1) + 1
      OBVIOUS
    <2> QED BY <2>1, DroppedOver
  <1>6. CASE op[w].kind = "enable"
    <2>1. Len(op[w].todo) = k + 1
      BY <1>2, <1>6 DEF Over
    <2>2. op'[w].todo[m + 1] = op[w].todo[k + 1]
      BY <1>1, <2>1
    <2> QED BY <1>1, <1>2, <1>3, <1>5, <1>6, <2>2 DEF Loads
  <1>7. CASE op[w].kind # "enable"
    BY <1>1, <1>2, <1>3, <1>4, <1>7 DEF Loads
  <1> QED BY <1>6, <1>7

LEMMA SaveSettingsStages == ASSUME PInv, NEW w \in Worker, SaveSettings(w), Calm', Stage(w) PROVE Stage(w)'
  <1>1. At(w, "save") /\ UNCHANGED <<disk, objs, loaded, watch>>
    BY DEF SaveSettings
  <1>2. row' = op[w].rec /\ Drops(w) /\ op'[w].rec = op[w].rec
    BY <1>1, NoFault, GoDrops DEF SaveSettings
  <1>3. op[w].todo[1] = "save" /\ Busy(w)
    BY <1>1, AtStep DEF At
  <1>4. ~BootStage(op[w])
    BY <1>3 DEF BootStage, Boots, Stores
  <1>5. /\ Settled /\ op[w].kind = "settings" /\ op[w].rec.there /\ Fresh(op[w].rec) /\ row.there
        /\ op[w].rec.enabled = row.enabled
        /\ IF row.enabled THEN Over(op[w], 8) /\ op[w].todo[2] = "unload" /\ op[w].todo[4] = "check" /\ op[w].todo[8] = "init"
           ELSE Over(op[w], 1)
    BY <1>3, <1>4 DEF Stage, WorkStage, Looks
  <1>6. Fresh(row)'
    BY <1>1, <1>2, <1>5 DEF Fresh, Told
  <1>7. Dropped(w) /\ op'[w].kind = "settings"
    BY <1>1, <1>2, <1>5, DropSteps DEF Dropped
  <1>8. CASE row.enabled
    <2>1. Len(op[w].todo) = 8
      BY <1>5, <1>8 DEF Over
    <2>2. /\ Len(op'[w].todo) = 7 /\ op'[w].todo[1] = "unload" /\ op'[w].todo[3] = "check" /\ op'[w].todo[7] = "init"
          /\ op'[w].todo # <<>>
      BY <1>5, <1>7, <1>8, <2>1 DEF Dropped
    <2>3. Over(op'[w], 7)
      BY <1>7, <2>2 DEF Over
    <2>4. Loads(op[w], 7)'
      BY <1>2, <1>5, <1>6, <1>7, <1>8, <2>2, <2>3 DEF Loads
    <2>5. 3 + 4 = 7
      OBVIOUS
    <2>6. Resumes(op[w], 3)'
      BY <2>2, <2>4, <2>5 DEF Resumes
    <2>7. OthersClosed(loaded)'
      BY <1>1, <1>5, <1>8 DEF Settled, InMap, OthersClosed
    <2>8. WorkStage(op[w])'
      BY <2>2, <2>6, <2>7 DEF WorkStage
    <2> QED BY <2>2, <2>8 DEF Stage, Busy
  <1>9. CASE ~row.enabled
    <2>1. Settled'
      BY <1>1, <1>2, <1>5, <1>9 DEF Settled, NotInMap, OthersClosed
    <2> QED BY <1>1, <1>2, <1>5, <1>6, <1>9, <2>1, Ended
  <1> QED BY <1>8, <1>9

LEMMA StripUserStages == ASSUME PInv, NEW w \in Worker, StripUser(w), Calm', Stage(w) PROVE Stage(w)'
  <1>1. At(w, "strip") /\ UNCHANGED <<disk, objs, loaded, watch>> /\ row \in RowType
    BY DEF StripUser, PInv, Typed
  <1>2. row' = [row EXCEPT !.granted = FALSE] /\ Go(w, <<>>)
    BY NoFault DEF StripUser
  <1>3. op[w].todo[1] = "strip" /\ Busy(w)
    BY <1>1, AtStep DEF At
  <1>4. ~BootStage(op[w])
    BY <1>3 DEF BootStage, Boots, Stores
  <1>5. /\ op[w].kind = "deleteUser" /\ Over(op[w], 3) /\ op[w].todo[3] = "disabled"
        /\ Settled /\ row.there /\ Fresh(row)
    BY <1>3, <1>4 DEF Stage, WorkStage, Looks
  <1>6. Drops(w) /\ op'[w].todo[1] = "autoDisable" /\ op'[w].todo # <<>>
    BY <1>1, <1>2, GoDrops, GoOn DEF Linked, Follows
  <1>7. Dropped(w)
    BY <1>1, <1>6, DropSteps
  <1>8. Len(op[w].todo) = 3
    BY <1>5 DEF Over
  <1>9. op'[w].kind = "deleteUser" /\ Len(op'[w].todo) = 2 /\ op'[w].todo[2] = "disabled"
    BY <1>5, <1>7, <1>8 DEF Dropped
  <1>10. Over(op'[w], 2)
    BY <1>9 DEF Over
  <1>11. row'.there = row.there /\ row'.sha = row.sha /\ ~row'.granted
    BY <1>1, <1>2 DEF RowType
  <1>12. Fresh(row)'
    BY <1>1, <1>5, <1>11 DEF Fresh, Told
  <1>13. OthersClosed(loaded)'
    BY <1>1, <1>5 DEF Settled, InMap, NotInMap, OthersClosed
  <1>14. WorkStage(op[w])'
    BY <1>5, <1>6, <1>9, <1>10, <1>11, <1>12, <1>13 DEF WorkStage
  <1> QED BY <1>6, <1>14 DEF Stage, Busy

LEMMA AutoDisableStages == ASSUME PInv, NEW w \in Worker, AutoDisable(w), Calm', Stage(w) PROVE Stage(w)'
  <1>1. At(w, "autoDisable") /\ UNCHANGED <<disk, objs, loaded, watch>> /\ row \in RowType
    BY DEF AutoDisable, PInv, Typed
  <1>2. row' = [row EXCEPT !.enabled = @ /\ row.granted] /\ Go(w, <<>>)
    BY NoFault DEF AutoDisable
  <1>3. op[w].todo[1] = "autoDisable" /\ Busy(w)
    BY <1>1, AtStep DEF At
  <1>4. ~BootStage(op[w])
    BY <1>3 DEF BootStage, Boots, Stores
  <1>5. /\ op[w].kind = "deleteUser" /\ Over(op[w], 2) /\ op[w].todo[2] = "disabled"
        /\ OthersClosed(loaded) /\ row.there /\ ~row.granted /\ Fresh(row)
    BY <1>3, <1>4 DEF Stage, WorkStage, Looks
  <1>6. Drops(w)
    BY <1>1, <1>2, GoDrops
  <1>7. Dropped(w)
    BY <1>1, <1>6, DropSteps
  <1>8. Len(op[w].todo) = 2
    BY <1>5 DEF Over
  <1>9. op'[w].kind = "deleteUser" /\ Len(op'[w].todo) = 1 /\ op'[w].todo[1] = "disabled" /\ op'[w].todo # <<>>
    BY <1>5, <1>7, <1>8 DEF Dropped
  <1>10. Over(op'[w], 1)
    BY <1>9 DEF Over
  <1>11. row'.there = row.there /\ row'.sha = row.sha /\ row'.enabled = (row.enabled /\ row.granted)
    BY <1>1, <1>2 DEF RowType
  <1>12. Fresh(row)' /\ ~row'.enabled
    BY <1>1, <1>5, <1>11 DEF Fresh, Told
  <1>13. OthersClosed(loaded)'
    BY <1>1, <1>5 DEF OthersClosed
  <1>14. WorkStage(op[w])'
    BY <1>5, <1>9, <1>10, <1>11, <1>12, <1>13 DEF WorkStage
  <1> QED BY <1>9, <1>14 DEF Stage, Busy

LEMMA UnloadDisabledStages == ASSUME PInv, NEW w \in Worker, UnloadDisabled(w), Calm', Stage(w) PROVE Stage(w)'
  <1>1. At(w, "disabled") /\ Still
    BY DEF UnloadDisabled, Still, Told
  <1>2. Go(w, IF row.there /\ ~row.enabled THEN Unload ELSE <<>>)
    BY NoFault DEF UnloadDisabled
  <1>3. op[w].todo[1] = "disabled" /\ Busy(w)
    BY <1>1, AtStep DEF At
  <1>4. ~BootStage(op[w])
    BY <1>3 DEF BootStage, Boots, Stores
  <1>5. /\ op[w].kind = "deleteUser" /\ Over(op[w], 1) /\ OthersClosed(loaded) /\ row.there /\ ~row.enabled /\ Fresh(row)
    BY <1>3, <1>4 DEF Stage, WorkStage, Looks
  <1>6. Pushes(w, Unload)
    BY <1>1, <1>2, <1>5, UnloadSteps, GoPushes
  <1>7. Pushed(w, Unload)
    BY <1>1, <1>6, UnloadSteps, PushesSteps
  <1>8. Len(op[w].todo) = 1
    BY <1>5 DEF Over
  <1>9. op'[w].kind = "deleteUser" /\ Len(op'[w].todo) = 2 /\ op'[w].todo[1] = "unload" /\ op'[w].todo # <<>>
    BY <1>5, <1>7, <1>8, UnloadSteps DEF Pushed
  <1>10. Over(op'[w], 2) /\ 3 - 1 = 2
    BY <1>9 DEF Over
  <1>11. Fresh(row)' /\ OthersClosed(loaded)' /\ ~row'.enabled
    BY <1>1, <1>5, StillSame DEF Still
  <1>12. Resumes(op[w], 3)'
    BY <1>9, <1>10, <1>11 DEF Resumes
  <1>13. WorkStage(op[w])'
    BY <1>9, <1>11, <1>12 DEF WorkStage
  <1> QED BY <1>9, <1>13 DEF Stage, Busy

\* What comes after the first step, once it is done.
LEMMA ResumesOn ==
  ASSUME NEW w, Dropped(w), op'[w].rec = op[w].rec, UNCHANGED <<row, disk, watch>>,
         NEW k \in Nat, NEW m \in Nat, k = m + 1, m >= 1, Resumes(op[w], k)
  PROVE  Resumes(op[w], m)'
  <1>0. /\ Fresh(row) => Fresh(row)'
        /\ Fresh(op[w].rec) => Fresh(op[w].rec)'
        /\ Told' <=> Told
    BY DEF Fresh, Told
  <1>1. /\ op'[w].kind = op[w].kind /\ Len(op[w].todo) \in Nat /\ Len(op'[w].todo) = Len(op[w].todo) - 1
        /\ \A i \in 1..Len(op'[w].todo) : op'[w].todo[i] = op[w].todo[i + 1]
    BY DEF Dropped
  <1>2. CASE op[w].kind # "boot" /\ Over(op[w], k - 1) /\ ~row.enabled /\ Fresh(row)
    <2>1. k - 1 = m /\ Len(op[w].todo) = m
      BY <1>2 DEF Over
    <2>2. Len(op'[w].todo) = m - 1
      BY <1>1, <2>1
    <2>3. Over(op'[w], m - 1)
      BY <1>1, <1>2, <2>2 DEF Over
    <2> QED BY <1>0, <1>1, <1>2, <2>3 DEF Resumes
  <1>3. CASE Over(op[w], k) /\ Stores(op[w], k)
    <2>1. Over(op'[w], m)
      BY <1>3, DroppedOver
    <2>2. Len(op'[w].todo) >= m
      BY <2>1 DEF Over
    <2>3. op'[w].todo[m] = op[w].todo[k]
      BY <1>1, <2>2
    <2>4. Stores(op[w], m)'
      BY <1>0, <1>3, <2>3 DEF Stores
    <2> QED BY <2>1, <2>4 DEF Resumes
  <1>4. CASE Loads(op[w], k + 4) /\ op[w].todo[k] = "check"
    <2>1. k + 4 \in Nat /\ m + 4 \in Nat /\ k + 4 = (m + 4) + 1 /\ m + 4 >= 1
      OBVIOUS
    <2>2. Loads(op[w], m + 4)'
      BY <1>0, <1>4, <2>1, LoadsOn
    <2>3. Len(op'[w].todo) >= m + 4
      BY <2>2 DEF Loads
    <2>4. op'[w].todo[m] = op[w].todo[k]
      BY <1>1, <2>3
    <2> QED BY <1>4, <2>2, <2>4 DEF Resumes
  <1> QED BY <1>2, <1>3, <1>4 DEF Resumes

\* With the plugin out of the map and closed, the worker goes on.
LEMMA Resumed ==
  ASSUME NEW w \in Worker, op' \in [Worker -> Op], NotInMap', Resumes(op[w], 1)'
  PROVE  Stage(w)'
  <1>1. op'[w].todo \in Seq(Name)
    BY DEF Op
  <1>2. (op'[w].todo # <<>> <=> Len(op'[w].todo) > 0) /\ Len(op'[w].todo) \in Nat
    BY <1>1, EmptySteps
  <1>3. CASE op'[w].kind # "boot" /\ Over(op'[w], 1 - 1) /\ ~row'.enabled /\ Fresh(row)'
    <2>1. Len(op'[w].todo) = 0
      BY <1>3 DEF Over
    <2>2. op'[w].todo = <<>>
      BY <1>2, <2>1
    <2>3. Settled'
      BY <1>3 DEF Settled
    <2> QED BY <1>3, <2>2, <2>3 DEF Stage, Busy
  <1>4. CASE Over(op'[w], 1) /\ Stores(op[w], 1)'
    <2>1. Len(op'[w].todo) > 0
      BY <1>2, <1>4 DEF Over
    <2>2. op'[w].todo[1] \in {"put", "delete"}
      BY <1>4 DEF Stores
    <2>3. WorkStage(op[w])'
      BY <2>2 DEF WorkStage
    <2> QED BY <1>2, <2>1, <2>3 DEF Stage, Busy
  <1>5. CASE Loads(op[w], 1 + 4)' /\ op'[w].todo[1] = "check"
    <2>1. Len(op'[w].todo) >= 5
      BY <1>5 DEF Loads
    <2>2. Len(op'[w].todo) > 0
      BY <1>2, <2>1
    <2>3. WorkStage(op[w])'
      BY <1>5 DEF WorkStage
    <2> QED BY <1>2, <2>2, <2>3 DEF Stage, Busy
  <1> QED BY <1>3, <1>4, <1>5 DEF Resumes

LEMMA ClosePluginStages == ASSUME PInv, NEW w \in Worker, ClosePlugin(w), Stage(w) PROVE Stage(w)'
  <1>1. At(w, "close") /\ UNCHANGED <<disk, row, loaded, watch>> /\ Go(w, <<>>)
        /\ objs' = [objs EXCEPT ![op[w].obj].closes = @ + 1]
    BY DEF ClosePlugin
  <1>2. Drops(w) /\ op'[w].rec = op[w].rec /\ op' \in [Worker -> Op]
    BY <1>1, GoDrops, GoOn DEF Moves
  <1>3. op[w].todo[1] = "close" /\ Busy(w)
    BY <1>1, AtStep DEF At
  <1>4. ~BootStage(op[w])
    BY <1>3 DEF BootStage, Boots, Stores
  <1>5. loaded = None /\ OthersClosed(op[w].obj) /\ Resumes(op[w], 2)
    BY <1>3, <1>4 DEF Stage, WorkStage, Looks
  <1>6. op[w].obj \in 1..Len(objs) /\ objs[op[w].obj].closes = 0 /\ objs \in Seq(Obj)
    BY <1>1 DEF PInv, Owned, Holds, Typed
  <1>7. DOMAIN objs = 1..Len(objs) /\ \A p \in 1..Len(objs) : objs[p] \in Obj
    BY <1>6
  <1>8. DOMAIN objs' = DOMAIN objs /\ \A p \in DOMAIN objs : p # op[w].obj => objs'[p] = objs[p]
    BY <1>1, <1>7
  <1>9. objs'[op[w].obj].closes = 1
    <2>1. objs'[op[w].obj] = [objs[op[w].obj] EXCEPT !.closes = @ + 1] /\ objs[op[w].obj] \in Obj
      BY <1>1, <1>6, <1>7
    <2> QED BY <1>6, <2>1 DEF Obj
  <1>10. NotInMap'
    BY <1>1, <1>5, <1>8, <1>9 DEF NotInMap, OthersClosed
  <1>11. Dropped(w)
    BY <1>1, <1>2, DropSteps
  <1>12. 2 \in Nat /\ 1 \in Nat /\ 2 = 1 + 1 /\ 1 >= 1
    OBVIOUS
  <1>13. Resumes(op[w], 1)'
    BY <1>1, <1>2, <1>5, <1>11, <1>12, ResumesOn
  <1> QED BY <1>2, <1>10, <1>13, Resumed

LEMMA UnloadPluginStages == ASSUME PInv, PInv', NEW w \in Worker, UnloadPlugin(w), Stage(w) PROVE Stage(w)'
  <1>1. At(w, "unload") /\ UNCHANGED <<disk, row, objs, watch>> /\ op' \in [Worker -> Op]
    BY DEF UnloadPlugin, PInv, Typed
  <1>2. /\ op[w].todo[1] = "unload" /\ Busy(w) /\ op[w] \in Op /\ op[w].todo \in Seq(Name) /\ op[w].todo # <<>>
        /\ Fits(op[w].todo)
    BY <1>1, AtStep DEF At
  <1>3. /\ Tail(op[w].todo) \in Seq(Name) /\ Len(Tail(op[w].todo)) = Len(op[w].todo) - 1 /\ Len(op[w].todo) \in Nat
        /\ \A k \in 1..(Len(op[w].todo) - 1) : Tail(op[w].todo)[k] = op[w].todo[k + 1]
    BY <1>2, TailSteps
  <1>4. 1 < Len(op[w].todo) /\ op[w].todo[2] = "close"
    <2>1. 1 \in 1..Len(op[w].todo) /\ "unload" \in Linked
      BY <1>2, EmptySteps DEF Linked
    <2>2. 1 < Len(op[w].todo)
      BY <1>2, <2>1 DEF Fits
    <2>3. 1 \in 1..(Len(op[w].todo) - 1) /\ 1 + 1 = 2
      BY <1>3, <2>2
    <2>4. Follows(op[w].todo[1], op[w].todo[2])
      BY <1>2, <2>3 DEF Fits
    <2> QED BY <1>2, <2>2, <2>4 DEF Follows
  <1>5. \/ BootStage(op[w]) /\ Boots(op[w], 3) /\ Stores(op[w], 3)
        \/ OthersClosed(loaded) /\ Resumes(op[w], 3)
    BY <1>2 DEF Stage, BootStage, Boots, Stores, WorkStage, Looks
  <1>6. CASE loaded = None
    <2>1. op' = [op EXCEPT ![w].todo = Tail(Tail(@))] /\ UNCHANGED loaded
      BY <1>6 DEF UnloadPlugin
    <2>2. op'[w] = [op[w] EXCEPT !.todo = Tail(Tail(@))]
      BY <2>1 DEF PInv, Typed
    <2>3. op'[w].todo = Tail(Tail(op[w].todo)) /\ op'[w].rec = op[w].rec /\ op'[w].kind = op[w].kind
      BY <1>2, <2>2 DEF Op
    <2>4. Tail(op[w].todo) # <<>>
      <3> DEFINE u == Tail(op[w].todo)
      <3>1. u \in Seq(Name) /\ Len(u) = Len(op[w].todo) - 1
        BY <1>3
      <3> HIDE DEF u
      <3>2. Len(u) > 0
        BY <1>3, <1>4, <3>1
      <3>3. u # <<>>
        BY <3>1, <3>2, EmptySteps
      <3> QED BY <3>3 DEF u
    <2>5. /\ Len(op'[w].todo) = Len(op[w].todo) - 2 /\ (op'[w].todo # <<>> <=> Len(op'[w].todo) > 0)
          /\ \A k \in 1..(Len(op[w].todo) - 2) : op'[w].todo[k] = op[w].todo[k + 2]
      <3> DEFINE u == Tail(op[w].todo)
                 n == op'[w].todo
                 s == op[w].todo
      <3>1. /\ n \in Seq(Name) /\ Len(n) = Len(u) - 1 /\ \A k \in 1..(Len(u) - 1) : n[k] = u[k + 1]
        BY <1>3, <2>3, <2>4, TailSteps
      <3>2. n # <<>> <=> Len(n) > 0
        BY <3>1, EmptySteps
      <3> HIDE DEF u, n
      <3>3. Len(n) = Len(s) - 2 /\ Len(u) = Len(s) - 1
        BY <1>3, <3>1 DEF u
      <3>4. ASSUME NEW k \in 1..(Len(s) - 2) PROVE n[k] = s[k + 2]
        <4>1. k \in 1..(Len(u) - 1) /\ k + 1 \in 1..(Len(s) - 1) /\ (k + 1) + 1 = k + 2
          BY <1>3, <3>3
        <4>2. n[k] = u[k + 1] /\ u[k + 1] = s[(k + 1) + 1]
          BY <1>3, <3>1, <4>1 DEF u
        <4> QED BY <4>1, <4>2
      <3> QED BY <3>2, <3>3, <3>4 DEF n
    <2>6. Told' <=> Told
      BY <1>1 DEF Told
    <2>7. (Fresh(row) => Fresh(row)') /\ (Fresh(op[w].rec) => Fresh(op[w].rec)')
      BY <1>1, <2>3 DEF Fresh, Told
    <2>8. Len(op[w].todo) >= 3 => op'[w].todo[1] = op[w].todo[3] /\ (Stores(op[w], 3) => Stores(op[w], 1)')
      <3>1. Len(op[w].todo) >= 3 => op'[w].todo[1] = op[w].todo[3]
        BY <1>3, <2>5
      <3> QED BY <1>1, <2>3, <2>6, <2>7, <3>1 DEF Stores
    <2>9. CASE BootStage(op[w]) /\ Boots(op[w], 3) /\ Stores(op[w], 3)
      <3>1. Len(op[w].todo) = 5 /\ op[w].todo[4] = "enabled" /\ op[w].todo[5] = "watch" /\ op[w].kind = "boot"
        BY <2>9 DEF Boots
      <3>2. Len(op'[w].todo) = 3 /\ op'[w].todo[2] = "enabled" /\ op'[w].todo[3] = "watch" /\ op'[w].todo # <<>>
        BY <2>5, <3>1
      <3>3. Boots(op'[w], 1)
        BY <2>3, <3>1, <3>2 DEF Boots
      <3>4. loaded' = None /\ objs' = <<>> /\ (row'.enabled => row'.there)
        BY <1>1, <2>1, <2>9 DEF BootStage
      <3>5. Stores(op[w], 1)'
        BY <2>8, <2>9, <3>1
      <3>6. BootStage(op[w])'
        BY <3>3, <3>4, <3>5 DEF BootStage
      <3> QED BY <3>2, <3>6 DEF Stage, Busy
    <2>10. CASE OthersClosed(loaded) /\ Resumes(op[w], 3)
      <3>1. NotInMap'
        BY <1>1, <1>6, <2>1, <2>10 DEF NotInMap, OthersClosed
      <3>2. CASE op[w].kind # "boot" /\ Over(op[w], 3 - 1) /\ ~row.enabled /\ Fresh(row)
        <4>1. Len(op[w].todo) = 2
          BY <3>2 DEF Over
        <4>2. Len(op'[w].todo) = 0 /\ 1 - 1 = 0
          BY <2>5, <4>1
        <4>3. Over(op'[w], 0)
          BY <2>3, <3>2, <4>2 DEF Over
        <4>4. Resumes(op[w], 1)'
          BY <1>1, <2>3, <2>7, <3>2, <4>2, <4>3 DEF Resumes
        <4> QED BY <1>1, <3>1, <4>4, Resumed
      <3>3. CASE Over(op[w], 3) /\ Stores(op[w], 3)
        <4>1. IF op[w].kind = "boot" THEN Len(op[w].todo) = 4 /\ op[w].todo[4] = "watch" ELSE Len(op[w].todo) = 3
          BY <3>3 DEF Over
        <4>2. /\ op[w].kind = "boot" => Len(op'[w].todo) = 1 + 1 /\ op'[w].todo[1 + 1] = "watch"
              /\ op[w].kind # "boot" => Len(op'[w].todo) = 1
          BY <2>5, <4>1
        <4>3. Over(op'[w], 1)
          BY <2>3, <4>2, Zenon DEF Over
        <4>4. Stores(op[w], 1)'
          BY <2>8, <3>3, <4>1
        <4>5. Resumes(op[w], 1)'
          BY <4>3, <4>4 DEF Resumes
        <4> QED BY <1>1, <3>1, <4>5, Resumed
      <3>4. CASE Loads(op[w], 3 + 4) /\ op[w].todo[3] = "check"
        <4>1. /\ Len(op[w].todo) >= 7 /\ op[w].todo[7] = "init" /\ op[w].rec = row /\ row.there /\ Fresh(row)
              /\ IF op[w].kind = "enable" THEN ~row.enabled /\ Over(op[w], 8) /\ op[w].todo[8] = "putOn"
                 ELSE row.enabled /\ Over(op[w], 7)
          BY <3>4 DEF Loads
        <4>2. Len(op'[w].todo) >= 5 /\ op'[w].todo[5] = "init" /\ op'[w].todo[1] = "check"
          <5>1. Len(op'[w].todo) = Len(op[w].todo) - 2 /\ Len(op[w].todo) \in Nat
            BY <1>3, <2>5
          <5>2. 5 \in 1..(Len(op[w].todo) - 2) /\ 1 \in 1..(Len(op[w].todo) - 2) /\ 5 + 2 = 7 /\ 1 + 2 = 3
            BY <4>1, <5>1
          <5>3. op'[w].todo[5] = op[w].todo[7] /\ op'[w].todo[1] = op[w].todo[3]
            BY <2>5, <5>2
          <5> QED BY <3>4, <4>1, <5>1, <5>3
        <4>3. ASSUME op[w].kind = "enable" PROVE Over(op'[w], 6) /\ op'[w].todo[6] = "putOn"
          <5>1. Len(op[w].todo) = 8 /\ op[w].todo[8] = "putOn"
            BY <4>1, <4>3 DEF Over
          <5>2. Len(op'[w].todo) = 6 /\ op'[w].todo[6] = "putOn"
            BY <2>5, <5>1
          <5> QED BY <2>3, <4>3, <5>2 DEF Over
        <4>4. ASSUME op[w].kind # "enable" PROVE Over(op'[w], 5)
          <5>1. IF op[w].kind = "boot" THEN Len(op[w].todo) = 8 /\ op[w].todo[8] = "watch" ELSE Len(op[w].todo) = 7
            BY <4>1, <4>4 DEF Over
          <5>2. /\ op[w].kind = "boot" => Len(op'[w].todo) = 5 + 1 /\ op'[w].todo[5 + 1] = "watch"
                /\ op[w].kind # "boot" => Len(op'[w].todo) = 5
            BY <2>5, <5>1
          <5> QED BY <2>3, <5>2, Zenon DEF Over
        <4>5. Loads(op[w], 5)' /\ 1 + 4 = 5
          <5>1. row' = row /\ op'[w].rec = row' /\ row'.there /\ Fresh(row)' /\ 5 + 1 = 6
            BY <1>1, <2>3, <2>7, <4>1
          <5>2. ASSUME op[w].kind = "enable" PROVE Loads(op[w], 5)'
            BY <2>3, <4>1, <4>2, <4>3, <5>1, <5>2 DEF Loads
          <5>3. ASSUME op[w].kind # "enable" PROVE Loads(op[w], 5)'
            BY <2>3, <4>1, <4>2, <4>4, <5>1, <5>3, Zenon DEF Loads
          <5>4. 1 + 4 = 5
            OBVIOUS
          <5> QED BY <5>2, <5>3, <5>4
        <4>6. Resumes(op[w], 1)'
          BY <4>2, <4>5 DEF Resumes
        <4> QED BY <1>1, <3>1, <4>6, Resumed
      <3> QED BY <2>10, <3>2, <3>3, <3>4 DEF Resumes
    <2> QED BY <1>5, <2>9, <2>10
  <1>7. CASE loaded # None
    <2>1. loaded' = None /\ op' = [op EXCEPT ![w].todo = Tail(@), ![w].obj = loaded]
      BY <1>7 DEF UnloadPlugin, AfterUnload
    <2>2. op'[w] = [op[w] EXCEPT !.todo = Tail(@), !.obj = loaded]
      BY <2>1 DEF PInv, Typed
    <2>3. Drops(w) /\ op'[w].rec = op[w].rec /\ op'[w].obj = loaded
      BY <1>2, <2>2 DEF Op, Drops
    <2>4. OthersClosed(loaded) /\ Resumes(op[w], 3)
      BY <1>5, <1>7 DEF BootStage
    <2>5. Dropped(w)
      BY <1>1, <2>3, DropSteps
    <2>6. 3 \in Nat /\ 2 \in Nat /\ 3 = 2 + 1 /\ 2 >= 1
      OBVIOUS
    <2>7. Resumes(op[w], 2)'
      BY <1>1, <2>3, <2>4, <2>5, <2>6, ResumesOn
    <2>8. op'[w].todo[1] = "close" /\ op'[w].todo # <<>>
      BY <1>4, <2>5 DEF Dropped
    <2>9. OthersClosed(op[w].obj)'
      BY <1>1, <2>3, <2>4 DEF OthersClosed
    <2>10. WorkStage(op[w])'
      BY <2>1, <2>7, <2>8, <2>9 DEF WorkStage
    <2> QED BY <2>8, <2>10 DEF Stage, Busy
  <1> QED BY <1>6, <1>7

\* The next step of a load.
LEMMA AtLoad ==
  ASSUME PInv, NEW w \in Worker, Stage(w), NEW x \in {"check", "add", "build", "insert", "init"}, At(w, x)
  PROVE  /\ x = "check" => NotInMap /\ Loads(op[w], 5)
         /\ x = "add" => NotInMap /\ Loads(op[w], 4)
         /\ x = "build" => NotInMap /\ Loads(op[w], 3)
         /\ x = "insert" => /\ loaded = None /\ OthersClosed(op[w].obj) /\ objs[op[w].obj].granted = row.granted
                            /\ Loads(op[w], 2)
         /\ x = "init" => InMap /\ Loads(op[w], 1)
  <1>1. op[w].todo[1] = x /\ Busy(w)
    BY AtStep DEF At
  <1>2. ~BootStage(op[w])
    BY <1>1 DEF BootStage, Boots, Stores
  <1>3. WorkStage(op[w])
    BY <1>1, <1>2 DEF Stage
  <1>4. CASE x = "check"
    <2>1. NotInMap /\ Resumes(op[w], 1) /\ 1 - 1 = 0 /\ 1 + 4 = 5
      BY <1>1, <1>3, <1>4 DEF WorkStage, Looks
    <2>2. ~Stores(op[w], 1) /\ ~(op[w].kind # "boot" /\ Over(op[w], 0))
      BY <1>1, <1>4, NotOver DEF Stores
    <2> QED BY <1>4, <2>1, <2>2 DEF Resumes
  <1>5. CASE x # "check"
    BY <1>1, <1>3, <1>5 DEF WorkStage, Looks
  <1> QED BY <1>4, <1>5

LEMMA CheckAddStages ==
  ASSUME PInv, NEW w \in Worker, CheckStopped(w) \/ AddLoad(w), ~Stopped, Stage(w)
  PROVE  Stage(w)'
  <1>1. UNCHANGED <<disk, row, objs, loaded, watch>> /\ Go(w, <<>>)
    BY DEF CheckStopped, AddLoad
  <1>2. At(w, "check") \/ At(w, "add")
    BY DEF CheckStopped, AddLoad
  <1>3. NotInMap' <=> NotInMap
    BY <1>1 DEF NotInMap, OthersClosed
  <1>4. Fresh(row) => Fresh(row)'
    BY <1>1 DEF Fresh, Told
  <1>5. Drops(w) /\ op'[w].rec = op[w].rec /\ Dropped(w)
    BY <1>1, <1>2, GoDrops, DropSteps
  <1>6. CASE At(w, "check")
    <2>1. NotInMap /\ Loads(op[w], 5)
      BY <1>6, AtLoad
    <2>2. op'[w].todo # <<>> /\ op'[w].todo[1] = "add"
      BY <1>1, <1>6, GoOn DEF Linked, Follows
    <2>3. 5 \in Nat /\ 4 \in Nat /\ 5 = 4 + 1 /\ 4 >= 1
      OBVIOUS
    <2>4. Loads(op[w], 4)'
      BY <1>1, <1>4, <1>5, <2>1, <2>3, LoadsOn
    <2>5. WorkStage(op[w])'
      BY <1>3, <2>1, <2>2, <2>4 DEF WorkStage
    <2> QED BY <2>2, <2>5 DEF Stage, Busy
  <1>7. CASE At(w, "add")
    <2>1. NotInMap /\ Loads(op[w], 4)
      BY <1>7, AtLoad
    <2>2. op'[w].todo # <<>> /\ op'[w].todo[1] = "build"
      BY <1>1, <1>7, GoOn DEF Linked, Follows
    <2>3. 4 \in Nat /\ 3 \in Nat /\ 4 = 3 + 1 /\ 3 >= 1
      OBVIOUS
    <2>4. Loads(op[w], 3)'
      BY <1>1, <1>4, <1>5, <2>1, <2>3, LoadsOn
    <2>5. WorkStage(op[w])'
      BY <1>3, <2>1, <2>2, <2>4 DEF WorkStage
    <2> QED BY <2>2, <2>5 DEF Stage, Busy
  <1> QED BY <1>2, <1>6, <1>7

\* The error of a load is written to the row, which is that of the file.
LEMMA LoadFailsStages ==
  ASSUME PInv, PInv', NEW w \in Worker, NEW x, At(w, x), LoadFails(w), NotInMap, Still,
         op[w].rec = row, row.there, Fresh(row)
  PROVE  Stage(w)'
  <1> DEFINE n == <<"put">> \o Rest(op[w].kind)
  <1>1. op[w] \in Op /\ op[w].rec \in RowType /\ op' \in [Worker -> Op]
    BY AtStep DEF Op, PInv, Typed
  <1>2. op' = [op EXCEPT ![w].todo = n, ![w].rec.enabled = FALSE]
    BY DEF LoadFails
  <1>3. /\ op[w].kind = "boot" => Len(n) = 1 + 1 /\ n[1 + 1] = "watch"
        /\ op[w].kind # "boot" => Len(n) = 1
        /\ n[1] = "put"
    BY DEF Rest
  <1> HIDE DEF n
  <1>4. op'[w] = [op[w] EXCEPT !.todo = n, !.rec.enabled = FALSE]
    BY <1>2 DEF PInv, Typed
  <1>5. /\ op'[w].todo = n /\ op'[w].kind = op[w].kind
        /\ op'[w].rec.there = row.there /\ op'[w].rec.sha = row.sha
    <2> DEFINE r == [op[w].rec EXCEPT !.enabled = FALSE]
    <2>1. r.there = row.there /\ r.sha = row.sha
      BY <1>1 DEF RowType
    <2>2. op'[w] = [op[w] EXCEPT !.todo = n, !.rec = r]
      BY <1>1, <1>4 DEF Op
    <2> HIDE DEF r
    <2>3. op'[w].todo = n /\ op'[w].rec = r /\ op'[w].kind = op[w].kind
      BY <1>1, <2>2 DEF Op
    <2> QED BY <2>1, <2>3
  <1>6. Over(op'[w], 1)
    BY <1>3, <1>5, Zenon DEF Over
  <1>7. Fresh(op[w].rec)' /\ op'[w].rec.there
    BY <1>5 DEF Fresh, Still
  <1>8. Stores(op[w], 1)'
    BY <1>3, <1>5, <1>7 DEF Stores
  <1>9. Resumes(op[w], 1)'
    BY <1>6, <1>8 DEF Resumes
  <1>10. NotInMap'
    BY StillSame
  <1> QED BY <1>1, <1>9, <1>10, Resumed

LEMMA BuildStages == ASSUME PInv, PInv', NEW w \in Worker, Build(w), Calm', ~Stopped, Stage(w) PROVE Stage(w)'
  <1>1. At(w, "build") /\ UNCHANGED <<disk, row, loaded, watch>>
    BY DEF Build
  <1>2. NotInMap /\ Loads(op[w], 3)
    BY <1>1, AtLoad
  <1>3. op[w].rec = row /\ row.there /\ Fresh(row)
    BY <1>2 DEF Loads
  <1>4. CASE ~Readable
    <2>1. LoadFails(w) /\ UNCHANGED objs
      BY <1>4 DEF Build
    <2>2. Still
      BY <1>1, <2>1 DEF Still, Told
    <2> QED BY <1>1, <1>2, <1>3, <2>1, <2>2, LoadFailsStages
  <1>5. CASE Readable
    <2>1. /\ objs' = Append(objs, [granted |-> op[w].rec.granted, closes |-> 0])
          /\ op' = [op EXCEPT ![w].todo = Tail(@), ![w].obj = Len(objs')]
      BY <1>5, NoFault DEF Build
    <2>2. op[w] \in Op /\ op[w].rec.granted \in BOOLEAN
      BY DEF PInv, Typed, Op, RowType
    <2>3. /\ Len(objs') = Len(objs) + 1 /\ Len(objs) \in Nat /\ objs'[Len(objs')].granted = op[w].rec.granted
          /\ DOMAIN objs' = 1..Len(objs') /\ DOMAIN objs = 1..Len(objs)
          /\ \A o \in 1..Len(objs) : objs'[o] = objs[o]
      BY <2>1, <2>2, Appended DEF PInv
    <2>4. op'[w] = [op[w] EXCEPT !.todo = Tail(@), !.obj = Len(objs')]
      BY <2>1 DEF PInv, Typed
    <2>5. Drops(w) /\ op'[w].rec = op[w].rec /\ op'[w].obj = Len(objs')
      BY <2>2, <2>4 DEF Op, Drops
    <2>6. Moves(w)
      <3>1. \A v \in Worker \ {w} : op'[v] = op[v]
        BY <2>1 DEF PInv, Typed
      <3> QED BY <2>5, <3>1 DEF Moves, Drops, PInv, Typed
    <2>7. op'[w].todo # <<>> /\ op'[w].todo[1] = "insert"
      BY <1>1, <2>5, <2>6, PopSteps DEF Linked, Follows, Drops
    <2>8. 3 \in Nat /\ 2 \in Nat /\ 3 = 2 + 1 /\ 2 >= 1
      OBVIOUS
    <2>9. Fresh(row) => Fresh(row)'
      BY <1>1 DEF Fresh, Told
    <2>10. Loads(op[w], 2)'
      BY <1>1, <1>2, <2>5, <2>8, <2>9, DropSteps, LoadsOn
    <2>11. OthersClosed(Len(objs))'
      <3> SUFFICES ASSUME NEW p \in DOMAIN objs', p # Len(objs') PROVE objs'[p].closes = 1
        BY DEF OthersClosed
      <3>1. p \in 1..Len(objs) /\ p # None
        BY <2>3 DEF None
      <3> QED BY <1>2, <2>3, <3>1 DEF NotInMap, OthersClosed
    <2>12. loaded' = None /\ OthersClosed(op[w].obj)' /\ objs'[op'[w].obj].granted = row'.granted
      BY <1>1, <1>2, <1>3, <2>3, <2>5, <2>11 DEF NotInMap
    <2>13. WorkStage(op[w])'
      BY <2>7, <2>10, <2>12 DEF WorkStage
    <2> QED BY <2>7, <2>13 DEF Stage, Busy
  <1> QED BY <1>4, <1>5

LEMMA InsertStages == ASSUME PInv, NEW w \in Worker, Insert(w), Stage(w) PROVE Stage(w)'
  <1>1. At(w, "insert") /\ UNCHANGED <<disk, row, objs, watch>> /\ Go(w, <<>>) /\ loaded' = op[w].obj
    BY DEF Insert
  <1>2. OthersClosed(op[w].obj) /\ objs[op[w].obj].granted = row.granted /\ Loads(op[w], 2)
    BY <1>1, AtLoad
  <1>3. Drops(w) /\ op'[w].rec = op[w].rec /\ Dropped(w)
    BY <1>1, GoDrops, DropSteps
  <1>4. op'[w].todo # <<>> /\ op'[w].todo[1] = "init"
    BY <1>1, GoOn DEF Linked, Follows
  <1>5. 2 \in Nat /\ 1 \in Nat /\ 2 = 1 + 1 /\ 1 >= 1
    OBVIOUS
  <1>6. Fresh(row) => Fresh(row)'
    BY <1>1 DEF Fresh, Told
  <1>7. Loads(op[w], 1)'
    BY <1>1, <1>2, <1>3, <1>5, <1>6, LoadsOn
  <1>8. op[w].obj # None
    BY <1>1 DEF PInv, Owned, Holds, None
  <1>9. InMap'
    BY <1>1, <1>2, <1>8 DEF InMap, OthersClosed
  <1>10. WorkStage(op[w])'
    BY <1>4, <1>7, <1>9 DEF WorkStage
  <1> QED BY <1>4, <1>10 DEF Stage, Busy

LEMMA CallInitStages == ASSUME PInv, NEW w \in Worker, CallInit(w), Stage(w) PROVE Stage(w)'
  <1>1. At(w, "init") /\ UNCHANGED <<disk, row, objs, loaded, watch>> /\ Still
    BY DEF CallInit, Still, Told
  <1>2. InMap /\ Loads(op[w], 1)
    BY <1>1, AtLoad
  <1>3. Go(w, <<>>)
    BY <1>2 DEF CallInit, InMap
  <1>4. Drops(w) /\ op'[w].rec = op[w].rec /\ Dropped(w)
    BY <1>1, <1>3, GoDrops, DropSteps
  <1>5. InMap' /\ Fresh(row)' /\ op[w].rec = row /\ row.there
    BY <1>1, <1>2, StillSame DEF Loads, Still
  <1>6. CASE op[w].kind = "enable"
    <2>1. Len(op[w].todo) = 2 /\ op[w].todo[2] = "putOn"
      BY <1>2, <1>6 DEF Loads, Over
    <2>2. op'[w].kind = "enable" /\ Len(op'[w].todo) = 1 /\ op'[w].todo[1] = "putOn" /\ op'[w].todo # <<>>
      BY <1>4, <1>6, <2>1 DEF Dropped
    <2>3. Over(op'[w], 1)
      BY <2>2 DEF Over
    <2>4. WorkStage(op[w])'
      BY <1>1, <1>4, <1>5, <2>2, <2>3 DEF WorkStage
    <2> QED BY <2>2, <2>4 DEF Stage, Busy
  <1>7. CASE op[w].kind # "enable"
    <2>1. Over(op[w], 1) /\ row.enabled
      BY <1>2, <1>7 DEF Loads
    <2>2. Settled'
      BY <1>1, <1>5, <2>1 DEF Settled
    <2> QED BY <1>1, <1>4, <1>5, <2>1, <2>2, Ended
  <1> QED BY <1>6, <1>7

LEMMA LoadEnabledStages == ASSUME PInv, NEW w \in Worker, LoadEnabled(w), Calm', Stage(w) PROVE Stage(w)'
  <1>1. At(w, "enabled") /\ Still /\ row \in RowType
    BY DEF LoadEnabled, Still, Told, PInv, Typed
  <1>2. op[w].todo[1] = "enabled" /\ Busy(w)
    BY <1>1, AtStep DEF At
  <1>3. ~WorkStage(op[w])
    BY <1>2 DEF WorkStage, Looks
  <1>4. loaded = None /\ objs = <<>> /\ (row.enabled => row.there) /\ Boots(op[w], 0) /\ Fresh(row)
    BY <1>2, <1>3 DEF Stage, BootStage, Stores
  <1>5. GoWith(w, IF row.enabled THEN Load ELSE <<>>, row)
    BY NoFault DEF LoadEnabled
  <1>6. op[w].kind = "boot" /\ Len(op[w].todo) = 2 /\ op[w].todo[2] = "watch"
    BY <1>4 DEF Boots
  <1>7. NotInMap' /\ Fresh(row)'
    <2>1. NotInMap
      BY <1>4 DEF NotInMap, OthersClosed
    <2> QED BY <1>1, <1>4, <2>1, StillSame DEF Still
  <1>8. CASE row.enabled
    <2>1. Pushes(w, Load) /\ op'[w].rec = row
      BY <1>1, <1>5, <1>8, LoadSteps, GoWithPushes
    <2>2. Pushed(w, Load)
      BY <1>1, <2>1, LoadSteps, PushesSteps
    <2>3. /\ op'[w].kind = "boot" /\ Len(op'[w].todo) = 6 /\ op'[w].todo[6] = "watch" /\ op'[w].todo # <<>>
          /\ op'[w].todo[1] = "check" /\ op'[w].todo[5] = "init"
      BY <1>6, <2>2, LoadSteps DEF Pushed
    <2>4. Over(op'[w], 5)
      BY <2>3 DEF Over
    <2>5. Loads(op[w], 5)' /\ 1 + 4 = 5
      BY <1>1, <1>4, <1>7, <1>8, <2>1, <2>3, <2>4 DEF Loads, Still
    <2>6. Resumes(op[w], 1)'
      BY <2>3, <2>5 DEF Resumes
    <2>7. WorkStage(op[w])'
      BY <1>7, <2>3, <2>6 DEF WorkStage
    <2> QED BY <2>3, <2>7 DEF Stage, Busy
  <1>9. CASE ~row.enabled
    <2>1. Pushes(w, <<>>)
      BY <1>1, <1>5, <1>9, LookSteps, GoWithPushes
    <2>2. Drops(w)
      BY <1>1, <2>1, AtStep, TailSteps DEF Pushes, Drops
    <2>3. Dropped(w)
      BY <1>1, <2>2, DropSteps
    <2>4. op'[w].kind = "boot" /\ Len(op'[w].todo) = 1 /\ op'[w].todo[1] = "watch" /\ op'[w].todo # <<>>
      BY <1>6, <2>3 DEF Dropped
    <2>5. Over(op'[w], 0)
      BY <2>4 DEF Over
    <2>6. Settled'
      BY <1>1, <1>7, <1>9 DEF Settled, Still
    <2>7. WorkStage(op[w])'
      BY <1>7, <2>4, <2>5, <2>6 DEF WorkStage
    <2> QED BY <2>4, <2>7 DEF Stage, Busy
  <1> QED BY <1>8, <1>9

LEMMA StartWatcherStages == ASSUME PInv, NEW w \in Worker, StartWatcher(w), Stage(w) PROVE Stage(w)'
  <1>1. /\ At(w, "watch") /\ UNCHANGED <<disk, row, objs, loaded>> /\ Go(w, <<>>)
        /\ watch' = [watch EXCEPT !.on = ~Stopped] /\ watch \in Watch
    BY DEF StartWatcher, PInv, Typed
  <1>2. Still
    BY <1>1 DEF Still, Told, Watch
  <1>3. op[w].todo[1] = "watch" /\ Busy(w)
    BY <1>1, AtStep DEF At
  <1>4. ~BootStage(op[w])
    BY <1>3 DEF BootStage, Boots, Stores
  <1>5. Over(op[w], 0) /\ Settled /\ Fresh(row)
    BY <1>3, <1>4 DEF Stage, WorkStage, Looks
  <1>6. Drops(w) /\ Dropped(w)
    BY <1>1, GoDrops, DropSteps
  <1>7. op[w].kind = "boot"
    BY <1>1, <1>5, NotOver
  <1>8. Len(op[w].todo) = 1
    BY <1>5, <1>7 DEF Over
  <1>9. op'[w].todo = <<>>
    BY <1>6, <1>8 DEF Dropped
  <1> QED BY <1>2, <1>5, <1>9, StillSame DEF Stage, Busy, Still

LEMMA StepStages ==
  ASSUME PInv, PInv', NEW w \in Worker, Step(w), Calm', ~Stopped, Stage(w)
  PROVE  Stage(w)'
  BY ReadDirStages, HashFileStages, HashChangedStages, GetChangedStages, GetRemovedStages, ExtractStages,
     PutStages, PutEnabledStages, SaveSettingsStages, DeleteStages, StripUserStages, AutoDisableStages,
     UnloadDisabledStages, UnloadPluginStages, ClosePluginStages, CheckAddStages, BuildStages, InsertStages,
     CallInitStages, LoadEnabledStages, StartWatcherStages, ProcessPluginEventStages
  DEF Step

\* A step of a worker is its own, and leaves the timers alone.
LEMMA StepAlone ==
  ASSUME PInv, NEW w \in Worker, Step(w)
  PROVE  /\ Busy(w) /\ (\A v \in Worker \ {w} : op'[v] = op[v]) /\ UNCHANGED <<stop, overlap>>
         /\ Fault \/ UNCHANGED budget
         /\ watch'.timers = watch.timers /\ (watch'.entry = "armed" => watch.entry = "armed")
  <1>1. Busy(w)
    BY DEF Step, At, ReadDir, HashFile, HashChanged, GetChanged, GetRemoved, Extract, Put, PutEnabled,
       SaveSettings, Delete, StripUser, AutoDisable, UnloadDisabled, UnloadPlugin, ClosePlugin, CheckStopped,
       AddLoad, Build, Insert, CallInit, LoadEnabled, StartWatcher, ProcessPluginEvent
  <1>2. UNCHANGED <<stop, overlap>>
    BY DEF Step, ReadDir, HashFile, HashChanged, GetChanged, GetRemoved, Extract, Put, PutEnabled,
       SaveSettings, Delete, StripUser, AutoDisable, UnloadDisabled, UnloadPlugin, ClosePlugin, CheckStopped,
       AddLoad, Build, Insert, CallInit, LoadEnabled, StartWatcher, ProcessPluginEvent
  <1>3. Fault \/ UNCHANGED budget
    BY DEF Step, ReadDir, HashFile, HashChanged, GetChanged, GetRemoved, Extract, Put, PutEnabled,
       SaveSettings, Delete, StripUser, AutoDisable, UnloadDisabled, UnloadPlugin, ClosePlugin, CheckStopped,
       AddLoad, Build, Insert, CallInit, LoadEnabled, StartWatcher, ProcessPluginEvent, ContextFails
  <1>4. \/ UNCHANGED watch
        \/ watch' = [watch EXCEPT !.on = ~Stopped]
        \/ watch' = [watch EXCEPT !.entry = "none"]
    BY DEF Step, ReadDir, HashFile, HashChanged, GetChanged, GetRemoved, Extract, Put, PutEnabled,
       SaveSettings, Delete, StripUser, AutoDisable, UnloadDisabled, UnloadPlugin, ClosePlugin, CheckStopped,
       AddLoad, Build, Insert, CallInit, LoadEnabled, StartWatcher, ProcessPluginEvent
  <1>5. watch'.timers = watch.timers /\ (watch'.entry = "armed" => watch.entry = "armed")
    BY <1>4 DEF PInv, Typed, Watch
  <1>6. \A v \in Worker \ {w} : op'[v] = op[v]
    BY DEF Step, ReadDir, HashFile, HashChanged, GetChanged, GetRemoved, Extract, Put, PutEnabled,
       SaveSettings, Delete, StripUser, AutoDisable, UnloadDisabled, UnloadPlugin, ClosePlugin, CheckStopped,
       AddLoad, Build, Insert, CallInit, LoadEnabled, StartWatcher, ProcessPluginEvent, ContextFails,
       Go, GoWith, Quit, LoadFails, PInv, Typed
  <1> QED BY <1>1, <1>2, <1>3, <1>5, <1>6

LEMMA StepOneAtATime ==
  ASSUME PInv, PInv', OneAtATime, NEW w \in Worker, Step(w)
  PROVE  OneAtATime'
  <1>1. /\ Busy(w) /\ (\A v \in Worker \ {w} : op'[v] = op[v]) /\ UNCHANGED <<stop, overlap>>
        /\ Fault \/ UNCHANGED budget
        /\ watch'.timers = watch.timers /\ (watch'.entry = "armed" => watch.entry = "armed")
    BY StepAlone
  <1>2. watch'.timers >= 0 /\ (watch'.entry = "armed" => watch'.timers > 0)
    BY <1>1 DEF OneAtATime
  <1>3. ASSUME Calm', ~Stopped'
        PROVE  /\ \A v, u \in Worker : Busy(v)' /\ Busy(u)' => v = u
               /\ \A v \in Worker : Alone(v)' => Stage(v)'
    <2>1. Calm /\ ~Stopped
      BY <1>1, <1>3, NoFault DEF Calm, Stopped
    <2>2. \A v \in Worker \ {w} : ~Busy(v)
      BY <1>1, <2>1 DEF OneAtATime
    <2>3. \A v \in Worker \ {w} : ~Busy(v)'
      BY <1>1, <2>2 DEF Busy
    <2>4. Stage(w)
      BY <2>1, <2>2 DEF OneAtATime, Alone
    <2>5. Stage(w)'
      BY <1>3, <2>1, <2>4, StepStages
    <2>6. ASSUME NEW v \in Worker, Alone(v)', v # w PROVE Stage(v)'
      <3>1. ~Busy(w)' /\ ~Busy(v)'
        BY <2>3, <2>6 DEF Alone
      <3> QED BY <2>5, <3>1 DEF Stage
    <2> QED BY <2>3, <2>5, <2>6
  <1> QED BY <1>2, <1>3 DEF OneAtATime

-----------------------------------------------------------------------------
(* One operation at a time: what begins, and what happens meanwhile. *)

LEMMA BeginOneAtATime ==
  ASSUME PInv, OneAtATime, NEW w \in Worker, NEW kind, NEW t \in Seq(Name), t # <<>>, NEW r, Begin(w, kind, t, r),
         UNCHANGED stop, budget'.faults = budget.faults,
         watch'.timers >= 0, watch'.entry = "armed" => watch'.timers > 0,
         Settled /\ Fresh(row) => WorkStage([Idle EXCEPT !.kind = kind, !.todo = t, !.rec = r])'
  PROVE  OneAtATime'
  <1> DEFINE n == [Idle EXCEPT !.kind = kind, !.todo = t, !.rec = r]
  <1>1. ~Busy(w) /\ op' = [op EXCEPT ![w] = n] /\ overlap' = (overlap \/ \E v \in Worker : Busy(v))
    BY DEF Begin
  <1>2. n.todo = t
    BY DEF Idle
  <1>3. Settled /\ Fresh(row) => WorkStage(n)'
    OBVIOUS
  <1> HIDE DEF n
  <1>4. op'[w] = n /\ \A v \in Worker \ {w} : op'[v] = op[v]
    BY <1>1 DEF PInv, Typed
  <1>5. ASSUME Calm', ~Stopped'
        PROVE  /\ \A v, u \in Worker : Busy(v)' /\ Busy(u)' => v = u
               /\ \A v \in Worker : Alone(v)' => Stage(v)'
    <2>1. Calm /\ ~Stopped /\ \A v \in Worker : ~Busy(v)
      BY <1>1, <1>5 DEF Calm, Stopped
    <2>2. Settled /\ Fresh(row)
      BY <2>1 DEF OneAtATime, Alone, Stage
    <2>3. Busy(w)' /\ \A v \in Worker \ {w} : ~Busy(v)'
      BY <1>2, <1>4, <2>1 DEF Busy
    <2>4. WorkStage(op[w])'
      <3>1. WorkStage(n)'
        BY <1>3, <2>2
      <3> QED BY <1>4, <3>1 DEF WorkStage, Looks, Over, Resumes, Loads, Stores, Settled, Fresh, OthersClosed, NotInMap, InMap
    <2>5. Stage(w)'
      BY <2>3, <2>4 DEF Stage
    <2>6. \A v \in Worker : Alone(v)' => v = w
      BY <2>3 DEF Alone
    <2> QED BY <2>3, <2>5, <2>6
  <1> QED BY <1>5 DEF OneAtATime

\* A request begins.
LEMMA RequestOneAtATime ==
  ASSUME PInv, OneAtATime, NEW w \in Worker, NEW kind, NEW t \in Seq(Name), t # <<>>, NEW r, Request(w, kind, t, r),
         \A o : o.kind = kind /\ o.todo = t /\ o.rec = r /\ Still /\ Settled /\ Fresh(row) => WorkStage(o)'
  PROVE  OneAtATime'
  <1>1. /\ Begin(w, kind, t, r) /\ UNCHANGED <<disk, row, objs, loaded, watch, stop>>
        /\ budget' = [budget EXCEPT !.ops = @ - 1]
    BY DEF Request
  <1>2. budget'.faults = budget.faults
    BY <1>1 DEF PInv, Typed
  <1>3. Still /\ watch'.timers >= 0 /\ (watch'.entry = "armed" => watch'.timers > 0)
    BY <1>1 DEF Still, Told, OneAtATime
  <1>4. Settled /\ Fresh(row) => WorkStage([Idle EXCEPT !.kind = kind, !.todo = t, !.rec = r])'
    <2> DEFINE n == [Idle EXCEPT !.kind = kind, !.todo = t, !.rec = r]
    <2>1. n.kind = kind /\ n.todo = t /\ n.rec = r
      BY DEF Idle
    <2> HIDE DEF n
    <2>2. Settled /\ Fresh(row) => WorkStage(n)'
      BY <1>3, <2>1
    <2> QED BY <2>2 DEF n
  <1> QED BY <1>1, <1>2, <1>3, <1>4, BeginOneAtATime

LEMMA EnableLoads ==
  ASSUME NEW n, n = Load \o <<"putOn">>
  PROVE  n \in Seq(Name) /\ n # <<>> /\ Len(n) = 6 /\ n[1] = "check" /\ n[5] = "init" /\ n[6] = "putOn"
  BY DEF Load, Name

LEMMA EnablePluginOne == ASSUME PInv, OneAtATime, NEW w \in Worker, EnablePlugin(w) PROVE OneAtATime'
  <1> DEFINE n == Load \o <<"putOn">>
  <1>1. n \in Seq(Name) /\ n # <<>> /\ Len(n) = 6 /\ n[1] = "check" /\ n[5] = "init" /\ n[6] = "putOn"
    BY EnableLoads
  <1> HIDE DEF n
  <1>2. Request(w, "enable", n, row) /\ row.there /\ ~row.enabled
    BY DEF EnablePlugin, n
  <1>3. ASSUME NEW o, o.kind = "enable", o.todo = n, o.rec = row, Still, Settled, Fresh(row) PROVE WorkStage(o)'
    <2>0. Len(n) = 5 + 1 /\ Len(n) >= 5 /\ n[5] = "init" /\ n[5 + 1] = "putOn"
      BY <1>1
    <2>1. Len(o.todo) = 5 + 1 /\ Len(o.todo) >= 5 /\ o.todo[5] = "init" /\ o.todo[5 + 1] = "putOn" /\ o.kind # "boot"
      BY <1>3, <2>0, "enable" # "boot", Zenon
    <2>2. row' = row /\ Fresh(row)' /\ NotInMap'
      BY <1>2, <1>3, StillSame DEF Still, Settled
    <2>3. Loads(o, 5)'
      BY <1>2, <1>3, <2>1, <2>2, Zenon DEF Loads, Over
    <2>4. 1 + 4 = 5
      OBVIOUS
    <2>5. Resumes(o, 1)'
      BY <1>1, <1>3, <2>3, <2>4 DEF Resumes
    <2> QED BY <1>1, <1>3, <2>2, <2>5 DEF WorkStage
  <1> QED BY <1>1, <1>2, <1>3, RequestOneAtATime

LEMMA DisableSteps ==
  ASSUME NEW n, n = Unload \o <<"put">>
  PROVE  n \in Seq(Name) /\ n # <<>> /\ Len(n) = 3 /\ n[1] = "unload" /\ n[3] = "put"
  BY DEF Unload, Name

LEMMA DisableOne ==
  ASSUME PInv, OneAtATime, NEW w \in Worker, NEW kind \in {"disable", "settings"}, NEW r, row.there, r.there,
         r.sha = row.sha, Request(w, kind, Unload \o <<"put">>, r)
  PROVE  OneAtATime'
  <1>0. PICK n : n = Unload \o <<"put">>
    OBVIOUS
  <1>1. n \in Seq(Name) /\ n # <<>> /\ Len(n) = 3 /\ n[1] = "unload" /\ n[3] = "put"
    BY <1>0, DisableSteps
  <1>2. Request(w, kind, n, r)
    BY <1>0
  <1>3. ASSUME NEW o, o.kind = kind, o.todo = n, o.rec = r, Still, Settled, Fresh(row) PROVE WorkStage(o)'
    <2>1. Over(o, 3)
      BY <1>1, <1>3 DEF Over
    <2>2. Fresh(r)
      BY <1>3 DEF Fresh
    <2>3. Fresh(r)' /\ OthersClosed(loaded)'
      BY <1>3, <2>2, StillSame DEF Settled, InMap, NotInMap, Still
    <2>4. Stores(o, 3)'
      BY <1>1, <1>3, <2>3 DEF Stores
    <2>5. Resumes(o, 3)'
      BY <2>1, <2>4 DEF Resumes, Over
    <2> QED BY <1>1, <1>3, <2>3, <2>5 DEF WorkStage
  <1> QED BY <1>1, <1>2, <1>3, RequestOneAtATime

LEMMA DisablePluginOne == ASSUME PInv, OneAtATime, NEW w \in Worker, DisablePlugin(w) PROVE OneAtATime'
  <1>1. PICK r : r = [row EXCEPT !.enabled = FALSE]
    OBVIOUS
  <1>2. r.there = row.there /\ r.sha = row.sha
    BY <1>1 DEF PInv, Typed, RowType
  <1> QED BY <1>1, <1>2, DisableOne DEF DisablePlugin

LEMMA SaveSteps ==
  ASSUME NEW n, n = <<"save">> \o (Unload \o Load)
  PROVE  /\ n \in Seq(Name) /\ n # <<>> /\ Len(n) = 8 /\ n[1] = "save" /\ n[2] = "unload" /\ n[4] = "check"
         /\ n[8] = "init"
  BY DEF Unload, Load, Name

LEMMA UpdateSettingsOne ==
  ASSUME PInv, OneAtATime, NEW w \in Worker, NEW granted \in BOOLEAN, UpdateSettings(w, granted) PROVE OneAtATime'
  <1>0. row \in RowType /\ row.there
    BY DEF PInv, Typed, UpdateSettings
  <1>1. CASE Revoked(granted)
    <2>1. PICK r : r = [row EXCEPT !.granted = granted, !.enabled = FALSE]
      OBVIOUS
    <2>2. r.there = row.there /\ r.sha = row.sha
      BY <1>0, <2>1 DEF RowType
    <2> QED BY <1>0, <1>1, <2>1, <2>2, DisableOne DEF UpdateSettings
  <1>2. CASE ~Revoked(granted)
    <2>1. PICK r : r = [row EXCEPT !.granted = granted]
      OBVIOUS
    <2>2. r.there = row.there /\ r.sha = row.sha /\ r.enabled = row.enabled
      BY <1>0, <2>1 DEF RowType
    <2>3. PICK n : n = <<"save">> \o (IF row.enabled THEN Unload \o Load ELSE <<>>)
      OBVIOUS
    <2>4. Request(w, "settings", n, r)
      BY <1>2, <2>1, <2>3 DEF UpdateSettings
    <2>5. /\ n \in Seq(Name) /\ n # <<>> /\ n[1] = "save"
          /\ row.enabled => Len(n) = 8 /\ n[2] = "unload" /\ n[4] = "check" /\ n[8] = "init"
          /\ ~row.enabled => Len(n) = 1
      <3>1. CASE row.enabled
        BY <2>3, <3>1, SaveSteps
      <3>2. CASE ~row.enabled
        <4>1. <<"save">> \o <<>> = <<"save">>
          OBVIOUS
        <4> QED BY <2>3, <3>2, <4>1, OneStep DEF Name
      <3> QED BY <3>1, <3>2
    <2>6. ASSUME NEW o, o.kind = "settings", o.todo = n, o.rec = r, Still, Settled, Fresh(row) PROVE WorkStage(o)'
      <3>1. IF row.enabled THEN Over(o, 8) ELSE Over(o, 1)
        BY <2>5, <2>6 DEF Over
      <3>2. Fresh(r)
        BY <2>2, <2>6 DEF Fresh
      <3>3. Fresh(r)' /\ Settled' /\ row' = row
        BY <2>6, <3>2, StillSame DEF Still
      <3> QED BY <1>0, <2>2, <2>5, <2>6, <3>1, <3>3 DEF WorkStage, Over
    <2> QED BY <2>4, <2>5, <2>6, RequestOneAtATime
  <1> QED BY <1>1, <1>2

LEMMA DeleteUserOne == ASSUME PInv, OneAtATime, NEW w \in Worker, DeleteUser(w) PROVE OneAtATime'
  <1>1. PICK n : n = <<"strip", "autoDisable", "disabled">>
    OBVIOUS
  <1>2. n \in Seq(Name) /\ n # <<>> /\ Len(n) = 3 /\ n[1] = "strip" /\ n[3] = "disabled"
    BY <1>1 DEF Name
  <1>3. Request(w, "deleteUser", n, row) /\ row.there
    BY <1>1 DEF DeleteUser
  <1>4. ASSUME NEW o, o.kind = "deleteUser", o.todo = n, o.rec = row, Still, Settled, Fresh(row) PROVE WorkStage(o)'
    <2>1. Over(o, 3)
      BY <1>2, <1>4 DEF Over
    <2>2. Fresh(row)' /\ Settled' /\ row' = row
      BY <1>4, StillSame DEF Still
    <2> QED BY <1>2, <1>3, <1>4, <2>1, <2>2 DEF WorkStage, Over
  <1> QED BY <1>2, <1>3, <1>4, RequestOneAtATime

LEMMA RescanPluginsOne == ASSUME PInv, OneAtATime, NEW w \in Worker, RescanPlugins(w) PROVE OneAtATime'
  <1>1. PICK n : n = <<"readdir">>
    OBVIOUS
  <1>2. n \in Seq(Name) /\ n # <<>> /\ Len(n) = 1 /\ n[1] = "readdir"
    BY <1>1, OneStep DEF Name
  <1>3. Request(w, "rescan", n, NoRow)
    BY <1>1 DEF RescanPlugins
  <1>4. ASSUME NEW o, o.kind = "rescan", o.todo = n, o.rec = NoRow, Still, Settled, Fresh(row) PROVE WorkStage(o)'
    <2>1. Over(o, 1)
      BY <1>2, <1>4 DEF Over
    <2>2. Looks(o)' /\ Settled'
      BY <1>2, <1>4, StillSame DEF Looks
    <2> QED BY <1>4, <2>1, <2>2 DEF WorkStage, Over
  <1> QED BY <1>2, <1>3, <1>4, RequestOneAtATime

LEMMA TimerFiresOne == ASSUME PInv, OneAtATime, NEW w \in Worker, TimerFires(w) PROVE OneAtATime'
  <1>1. PICK n : n = <<"event">>
    OBVIOUS
  <1>2. n \in Seq(Name) /\ n # <<>> /\ Len(n) = 1 /\ n[1] = "event"
    BY <1>1, OneStep DEF Name
  <1>3. Begin(w, "event", n, NoRow) /\ UNCHANGED <<disk, row, objs, loaded, stop, budget>> /\ watch.timers > 0
    BY <1>1 DEF TimerFires
  <1>4. PICK b \in BOOLEAN :
          /\ watch.entry = "armed" /\ watch.timers = 1 => b
          /\ watch' = [watch EXCEPT !.timers = @ - 1, !.entry = IF @ = "armed" /\ b THEN "fired" ELSE @]
    BY DEF TimerFires
  <1>5. watch \in Watch
    BY DEF PInv, Typed
  <1>6. /\ watch'.timers = watch.timers - 1 /\ watch.timers \in Int
        /\ watch'.entry = (IF watch.entry = "armed" /\ b THEN "fired" ELSE watch.entry)
    BY <1>4, <1>5 DEF Watch
  <1>7. watch'.timers >= 0
    BY <1>3, <1>6
  <1>8. watch'.entry = "armed" => watch'.timers > 0
    <2>1. watch'.entry = "armed" => watch.timers # 1
      BY <1>4, <1>6
    <2> QED BY <1>3, <1>6, <2>1
  <1>9. Settled => WorkStage([Idle EXCEPT !.kind = "event", !.todo = n, !.rec = NoRow])'
    <2> SUFFICES ASSUME Settled PROVE WorkStage([Idle EXCEPT !.kind = "event", !.todo = n, !.rec = NoRow])'
      OBVIOUS
    <2>1. PICK o : o = [Idle EXCEPT !.kind = "event", !.todo = n, !.rec = NoRow]
      OBVIOUS
    <2>2. o.kind = "event" /\ o.todo = n
      BY <2>1 DEF Idle
    <2>3. Over(o, 1)
      BY <1>2, <2>2 DEF Over
    <2>4. Looks(o)' /\ Settled'
      BY <1>2, <1>3, <2>2 DEF Looks, Settled, InMap, NotInMap, OthersClosed
    <2>5. WorkStage(o)'
      BY <2>2, <2>3, <2>4 DEF WorkStage, Over
    <2> QED BY <2>1, <2>5
  <1> QED BY <1>2, <1>3, <1>7, <1>8, <1>9, BeginOneAtATime

\* The file changes, or the watcher takes the event: what is written meanwhile need
\* not be what is in the folder.
LEMMA NotTold ==
  ASSUME UNCHANGED <<row, objs, loaded, op>>, ~Told', NEW w \in Worker, Stage(w)
  PROVE  Stage(w)'
  <1>1. \A r : Fresh(r)'
    BY DEF Fresh
  <1>2. Settled' <=> Settled
    BY DEF Settled, InMap, NotInMap, OthersClosed
  <1>3. (InMap' <=> InMap) /\ (NotInMap' <=> NotInMap) /\ \A o : OthersClosed(o)' <=> OthersClosed(o)
    BY DEF InMap, NotInMap, OthersClosed
  <1>4. PICK o : o = op[w]
    OBVIOUS
  <1>5. \A k : Stores(o, k) => Stores(o, k)'
    BY <1>1 DEF Stores
  <1>6. \A k : Loads(o, k) => Loads(o, k)'
    BY <1>1 DEF Loads, Over
  <1>7. \A k : Resumes(o, k) => Resumes(o, k)'
    BY <1>1, <1>5, <1>6 DEF Resumes, Over
  <1>8. Looks(o) => Looks(o)'
    BY DEF Looks
  <1>9. BootStage(o) => BootStage(o)'
    BY <1>1, <1>5 DEF BootStage, Boots
  <1>10. WorkStage(o) => WorkStage(o)'
    BY <1>1, <1>2, <1>3, <1>6, <1>7, <1>8 DEF WorkStage, Over
  <1>11. BootStage(op[w])' <=> BootStage(o)'
    BY <1>4 DEF BootStage, Boots, Stores, Fresh
  <1>12. WorkStage(op[w])' <=> WorkStage(o)'
    BY <1>4 DEF WorkStage, Looks, Over, Resumes, Loads, Stores, Settled, Fresh, OthersClosed, NotInMap, InMap
  <1> QED BY <1>1, <1>2, <1>4, <1>9, <1>10, <1>11, <1>12 DEF Stage, Busy

LEMMA HandleEventOne == ASSUME PInv, OneAtATime, HandleEvent PROVE OneAtATime'
  <1>1. watch \in Watch /\ watch.timers >= 0 /\ (watch.entry = "armed" => watch.timers > 0)
    BY DEF PInv, Typed, OneAtATime
  <1>2. CASE stop \in {"no", "stopped"}
    <2>1. watch' = [watch EXCEPT !.event = FALSE, !.entry = "armed", !.timers = IF watch.entry = "armed" THEN @ ELSE @ + 1]
      BY <1>2 DEF HandleEvent
    <2>2. UNCHANGED <<disk, row, objs, loaded, op, stop, overlap, budget>>
      BY <1>2 DEF HandleEvent
    <2>3. watch'.timers = (IF watch.entry = "armed" THEN watch.timers ELSE watch.timers + 1) /\ watch.timers \in Int
      BY <1>1, <2>1 DEF Watch
    <2>4. watch'.timers > 0 /\ watch'.timers >= 0 /\ watch'.timers # 0
      BY <1>1, <2>3
    <2>5. ~Told'
      BY <2>4 DEF Told
    <2>6. (Calm' <=> Calm) /\ (Stopped' <=> Stopped) /\ (\A v \in Worker : Busy(v)' <=> Busy(v))
          /\ (\A v \in Worker : Alone(v)' <=> Alone(v))
      BY <2>2 DEF Calm, Stopped, Busy, Alone
    <2>7. \A w \in Worker : Stage(w) => Stage(w)'
      BY <2>2, <2>5, NotTold
    <2> QED BY <2>4, <2>6, <2>7 DEF OneAtATime
  <1>3. CASE stop \notin {"no", "stopped"}
    <2>1. watch' = [NoWatcher EXCEPT !.missed = TRUE] /\ stop' = "crashed"
      BY <1>3 DEF HandleEvent
    <2>2. watch'.timers = 0 /\ watch'.entry = "none" /\ Stopped'
      BY <2>1 DEF NoWatcher, Stopped
    <2>3. watch'.timers >= 0
      BY <2>2
    <2> QED BY <2>2, <2>3 DEF OneAtATime
  <1> QED BY <1>2, <1>3

LEMMA LoopEndsOne == ASSUME PInv, OneAtATime, LoopEnds PROVE OneAtATime'
  <1>1. watch' = [watch EXCEPT !.on = FALSE, !.event = FALSE] /\ Stopped /\ stop' = stop
    BY DEF LoopEnds
  <1>2. watch'.timers = watch.timers /\ watch'.entry = watch.entry
    BY <1>1 DEF PInv, Typed, Watch
  <1> QED BY <1>1, <1>2 DEF OneAtATime, Stopped

LEMMA StopOne == ASSUME PInv, OneAtATime, Stop PROVE OneAtATime'
  <1>1. Stopped'
    BY DEF Stop, StopStep, Stopped
  <1>2. watch \in Watch /\ watch.timers >= 0 /\ (watch.entry = "armed" => watch.timers > 0) /\ watch.timers \in Int
    BY DEF PInv, Typed, OneAtATime, Watch
  <1>3. CASE UNCHANGED watch
    BY <1>1, <1>2, <1>3 DEF OneAtATime
  <1>4. CASE watch' = [watch EXCEPT !.timers = IF watch.entry = "armed" THEN @ - 1 ELSE @, !.entry = "none",
                                    !.on = FALSE]
    <2>1. watch'.timers = (IF watch.entry = "armed" THEN watch.timers - 1 ELSE watch.timers) /\ watch'.entry = "none"
      BY <1>2, <1>4 DEF Watch
    <2>2. watch'.timers >= 0
      BY <1>2, <2>1
    <2> QED BY <1>1, <2>1, <2>2 DEF OneAtATime
  <1> QED BY <1>3, <1>4 DEF Stop, StopStep

LEMMA ChangeFileOne == ASSUME PInv, OneAtATime, NEW v \in Version \cup {None}, ChangeFile(v) PROVE OneAtATime'
  <1>1. /\ UNCHANGED <<row, objs, loaded, op, stop, overlap>> /\ budget' = [budget EXCEPT !.changes = @ - 1]
        /\ watch' = [watch EXCEPT !.event = @ \/ watch.on, !.missed = @ \/ ~(watch.on \/ At(Boot, "readdir"))]
    BY DEF ChangeFile
  <1>2. /\ watch'.timers = watch.timers /\ watch'.entry = watch.entry
        /\ watch'.event = (watch.event \/ watch.on)
        /\ watch'.missed = (watch.missed \/ ~(watch.on \/ At(Boot, "readdir")))
    BY <1>1 DEF PInv, Typed, Watch
  <1>3. budget'.faults = budget.faults
    BY <1>1 DEF PInv, Typed
  <1>4. (Calm' <=> Calm) /\ (Stopped' <=> Stopped) /\ (\A w \in Worker : Busy(w)' <=> Busy(w))
        /\ (\A w \in Worker : Alone(w)' <=> Alone(w))
    BY <1>1, <1>3 DEF Calm, Stopped, Busy, Alone
  <1>5. ASSUME NEW w \in Worker, Alone(w), Stage(w) PROVE Stage(w)'
    <2>1. CASE ~Told'
      BY <1>1, <1>5, <2>1, NotTold
    <2>2. CASE Told'
      <3>1. At(Boot, "readdir")
        BY <1>2, <2>2 DEF Told
      <3>2. w = Boot
        BY <1>5, <3>1, PluginAssumption DEF Alone, At
      <3>3. Looking(w) /\ op[w].todo[1] = "readdir" /\ Busy(w)
        BY <1>5, <3>1, <3>2, AtLook, AtStep DEF At
      <3>4. op'[w] = op[w] /\ Busy(w)' /\ (Settled' <=> Settled)
        BY <1>1, <3>3 DEF Settled, InMap, NotInMap, OthersClosed, Busy
      <3>5. CASE loaded = None /\ objs = <<>> /\ (row.enabled => row.there) /\ Boots(op[w], 1)
        <4>1. BootStage(op[w])'
          BY <1>1, <3>3, <3>5 DEF BootStage, Boots
        <4> QED BY <3>4, <4>1 DEF Stage
      <3>6. CASE Over(op[w], 1) /\ op[w].kind # "boot" /\ Settled
        <4>1. Looks(op[w])' /\ Over(op'[w], 1)
          BY <3>3, <3>4, <3>6 DEF Looks
        <4>2. WorkStage(op[w])'
          BY <3>4, <3>6, <4>1 DEF WorkStage
        <4> QED BY <3>4, <4>2 DEF Stage
      <3> QED BY <3>3, <3>5, <3>6 DEF Looking
    <2> QED BY <2>1, <2>2
  <1> QED BY <1>2, <1>4, <1>5 DEF OneAtATime

LEMMA StutterOne == ASSUME OneAtATime, UNCHANGED vars PROVE OneAtATime'
  <1>1. UNCHANGED <<disk, row, objs, loaded, op, watch, stop, overlap, budget>>
    BY DEF vars
  <1>2. ASSUME NEW w \in Worker, Stage(w) PROVE Stage(w)'
    <2>1. Still
      BY <1>1 DEF Still, Told
    <2>2. PICK o : o = op[w]
      OBVIOUS
    <2>3. \A k : Stores(o, k)' <=> Stores(o, k)
      BY <1>1, <2>1, StillSame DEF Stores, Still
    <2>4. \A k : Loads(o, k)' <=> Loads(o, k)
      BY <1>1, <2>1, StillSame DEF Loads, Over
    <2>5. \A k : Resumes(o, k)' <=> Resumes(o, k)
      BY <1>1, <2>1, <2>3, <2>4, StillSame DEF Resumes, Over
    <2>6. Looks(o)' <=> Looks(o)
      BY <1>1, <2>1 DEF Looks, Still
    <2>7. BootStage(o)' <=> BootStage(o)
      BY <1>1, <2>1, <2>3, StillSame DEF BootStage, Boots, Still
    <2>8. WorkStage(o)' <=> WorkStage(o)
      BY <1>1, <2>1, <2>4, <2>5, <2>6, StillSame DEF WorkStage, Over
    <2>9. BootStage(op[w])' <=> BootStage(o)'
      BY <1>1, <2>2 DEF BootStage, Boots, Stores, Fresh
    <2>10. WorkStage(op[w])' <=> WorkStage(o)'
      BY <1>1, <2>2 DEF WorkStage, Looks, Over, Resumes, Loads, Stores, Settled, Fresh, OthersClosed, NotInMap, InMap
    <2> QED BY <1>1, <1>2, <2>1, <2>2, <2>7, <2>8, <2>9, <2>10, StillSame DEF Stage, Busy, Still
  <1>3. (Calm' <=> Calm) /\ (Stopped' <=> Stopped) /\ (\A v \in Worker : Busy(v)' <=> Busy(v))
        /\ (\A v \in Worker : Alone(v)' <=> Alone(v))
    BY <1>1 DEF Calm, Stopped, Busy, Alone
  <1> QED BY <1>1, <1>2, <1>3 DEF OneAtATime

LEMMA OneInit == Init => OneAtATime
  <1> SUFFICES ASSUME Init PROVE OneAtATime
    OBVIOUS
  <1>1. watch = NoWatcher /\ objs = <<>> /\ loaded = None
    BY DEF Init
  <1>2. watch.timers = 0 /\ watch.entry = "none"
    BY <1>1 DEF NoWatcher
  <1>3. watch.timers >= 0
    BY <1>2
  <1>4. PICK s : s = <<"readdir", "enabled", "watch">>
    OBVIOUS
  <1>5. Len(s) = 3 /\ s[1] = "readdir" /\ s[2] = "enabled" /\ s[3] = "watch" /\ s # <<>>
    BY <1>4
  <1>6. op = [w \in Worker |-> IF w = Boot THEN [Idle EXCEPT !.kind = "boot", !.todo = s] ELSE Idle]
    BY <1>4 DEF Init
  <1>7. op[Boot].kind = "boot" /\ op[Boot].todo = s /\ \A w \in Worker \ {Boot} : op[w].todo = <<>>
    BY <1>6, PluginAssumption DEF Idle
  <1>8. Busy(Boot) /\ \A w \in Worker \ {Boot} : ~Busy(w)
    BY <1>5, <1>7 DEF Busy
  <1>9. row.enabled => row.there
    <2>1. row \in Row \/ row = NoRow
      BY DEF Init
    <2>2. NoRow.enabled = FALSE
      BY DEF NoRow
    <2>3. \A r \in Row : r.there = TRUE
      BY DEF Row
    <2> QED BY <2>1, <2>2, <2>3
  <1>10. Boots(op[Boot], 1)
    BY <1>5, <1>7 DEF Boots
  <1>11. Stage(Boot)
    BY <1>1, <1>5, <1>7, <1>8, <1>9, <1>10 DEF Stage, BootStage
  <1>12. \A w \in Worker : Alone(w) => w = Boot
    BY <1>8, PluginAssumption DEF Alone
  <1> QED BY <1>2, <1>3, <1>8, <1>11, <1>12 DEF OneAtATime

LEMMA OneStepInv == PInv /\ OneAtATime /\ [Next]_vars => PInv' /\ OneAtATime'
  <1> SUFFICES ASSUME PInv, OneAtATime, [Next]_vars PROVE PInv' /\ OneAtATime'
    OBVIOUS
  <1>1. PInv'
    BY PInvStep
  <1>2. CASE UNCHANGED vars
    BY <1>1, <1>2, StutterOne
  <1>3. ASSUME Next PROVE OneAtATime'
    BY <1>1, <1>3, StepOneAtATime, EnablePluginOne, DisablePluginOne, UpdateSettingsOne, DeleteUserOne,
       RescanPluginsOne, TimerFiresOne, HandleEventOne, LoopEndsOne, StopOne, ChangeFileOne
    DEF Next
  <1> QED BY <1>1, <1>2, <1>3

LEMMA OneAtATimeAlways == Spec => [](PInv /\ OneAtATime)
  BY PInvInit, OneInit, OneStepInv, PTL DEF Spec

\* With operations one at a time and no statement failing, when nothing is under way
\* the plugin is in the map exactly if its row is enabled, with the permissions of
\* the row, and every other object built for it was closed (EnablePlugin,
\* DisablePlugin, updatePluginSettings, processPluginEvent, syncPlugins).
THEOREM MapFollowsRowCorrect == Spec => []MapFollowsRow
  <1>1. PInv /\ OneAtATime => MapFollowsRow
    <2> SUFFICES ASSUME PInv, OneAtATime, Calm, Quiet, ~Stopped
                 PROVE  /\ loaded # None <=> row.enabled
                        /\ loaded # None => objs[loaded].granted = row.granted
                        /\ \A o \in DOMAIN objs : o = loaded \/ objs[o].closes = 1
      BY DEF MapFollowsRow
    <2>1. \A w \in Worker : ~Busy(w)
      BY DEF Quiet
    <2>2. Settled
      BY <2>1, PluginAssumption DEF OneAtATime, Alone, Stage
    <2> QED BY <2>2 DEF Settled, InMap, NotInMap, OthersClosed
  <1> QED BY <1>1, OneAtATimeAlways, PTL

\* Then, too, every change of the file the watcher was told of is in the row, however
\* the debouncing timers and changes made while one is processed fall (Start,
\* handleWatcherEvent, processPluginEvent, syncPlugins).
THEOREM RowFollowsDiskCorrect == Spec => []RowFollowsDisk
  <1>1. PInv /\ OneAtATime => RowFollowsDisk
    <2> SUFFICES ASSUME PInv, OneAtATime, Calm, Quiet, ~Stopped, ~watch.missed, disk \notin Broken
                 PROVE  (row.there <=> disk # None) /\ (row.there => row.sha = disk)
      BY DEF RowFollowsDisk
    <2>1. (\A w \in Worker : ~Busy(w)) /\ Told
      BY DEF Quiet, Told
    <2>2. Fresh(row)
      BY <2>1, PluginAssumption DEF OneAtATime, Alone, Stage
    <2> QED BY <2>1, <2>2 DEF Fresh
  <1> QED BY <1>1, OneAtATimeAlways, PTL
=============================================================================
