--------------------------- MODULE PlcWriteProofs ---------------------------
(***************************************************************************)
(* The safety properties of PlcWrite and of the catalog in which it looks  *)
(* devices up, for any pages, devices, aliases, writes and node ids.       *)
(*                                                                         *)
(* Catalog: names and aliases stay distinct because a request checks them  *)
(* on the devices it has just loaded under the lock, and what it does not  *)
(* check is on record (DistinctNames, DisjointAliases); so is what a page  *)
(* that was loaded before puts back (PromisesStand).                       *)
(*                                                                         *)
(* Writes: the path of a write through its steps (CallsKept) says what its *)
(* row may claim (RowsKept), and the order in which the server carried out *)
(* calls is the order of the newest writes of a tag (OrderKept).           *)
(***************************************************************************)
EXTENDS PlcWrite, FiniteSetTheorems, SequenceTheorems, TLAPS

Promised == [what : {"tag", "calc", "limits"}, device : DeviceNames, alias : Aliases]

CatalogTypes ==
    /\ devices \in Seq(Device)
    /\ page \in [Admins -> Seq(Device)]
    /\ promised \in SUBSET Promised
    /\ trouble \in SUBSET {"stale page", "form without limits", "replaced", "renamed to taken",
                           "name repeated", "tag over calculated", "alias twice"}

(* What a device holds of the promises. *)
Holds(d, f) ==
    f.alias \in CASE f.what = "tag" -> d.tags
                  [] f.what = "calc" -> d.calc
                  [] f.what = "limits" -> d.limits

Ambiguous == {"renamed to taken", "name repeated"}
Fragile == {"stale page", "form without limits", "replaced"} \cup Ambiguous

WriteTypes ==
    /\ at \in [Writes -> {"new", "connecting", "trying", "sent", "closing", "recording", "done"}]
    /\ goal \in [Writes -> Keys \cup {<<>>}]
    /\ \A w \in Writes : at[w] # "new" => goal[w] \in Keys
    /\ try \in [Writes -> Nat]
    /\ sent \in SUBSET (Writes \X Nat)
    /\ result \in [Writes -> {"none", "ok", "failed"}]
    /\ row \in [Writes -> {"none", "ok", "failed"}]
    /\ said \in [Writes -> {"none", "ok", "failed", "error"}]
    /\ plc \in [Keys -> Writes \cup {"none"}]
    /\ effected \in SUBSET Writes
    /\ apart \in [Writes -> SUBSET Writes]
    /\ mishap \in [Writes -> SUBSET {"store not saved", "timed out", "close failed", "log lost"}]

TimedOut(w) == "timed out" \in mishap[w]
Answered(w) == <<w, try[w]>> \notin sent

(* A call is out only while its request waits for it, or once it timed out; *)
(* a write has its effect when its call is answered or has timed out.       *)
CallKept(w) ==
    /\ \A n \in Nat : <<w, n>> \in sent => TimedOut(w) \/ (at[w] = "sent" /\ n = try[w])
    /\ at[w] \in {"new", "connecting"} => w \notin effected /\ mishap[w] = {}
    /\ at[w] = "sent" /\ Answered(w) => w \in effected
    /\ w \in effected => \/ TimedOut(w)
                         \/ at[w] = "sent" /\ Answered(w)
                         \/ at[w] \in {"closing", "recording", "done"} /\ result[w] = "ok"

CallsKept == \A w \in Writes : CallKept(w)

RowKept(w) ==
    /\ result[w] = "ok" => w \in effected \/ "store not saved" \in mishap[w]
    /\ "store not saved" \in mishap[w] => goal[w][2] \in Virtual
    /\ result[w] # "none" => at[w] \in {"closing", "recording", "done"}
    /\ row[w] # "none" => at[w] = "done" /\ row[w] = result[w]
    /\ said[w] = "ok" => result[w] = "ok"
    /\ Over(w) /\ result[w] = "ok" =>
          row[w] = "ok" \/ mishap[w] \cap {"close failed", "log lost"} # {}

RowsKept == \A w \in Writes : RowKept(w)

(* The writes that were over when one began stay over, and so can only come *)
(* back late.                                                               *)
OrderKept ==
    \A w \in Writes :
        /\ at[w] = "new" => apart[w] = {}
        /\ w \notin apart[w]
        /\ \A v \in apart[w] : Over(v)
        /\ w \in effected /\ goal[w][2] \notin Virtual =>
              \A v \in apart[w] : plc[goal[w]] = v => TimedOut(v)

LEMMA Assumed ==
  /\ Demo \in Seq(Device)
  /\ \A i, j \in DOMAIN Demo : Demo[i].name = Demo[j].name => i = j
  /\ \A i \in DOMAIN Demo : Demo[i].tags \cap Demo[i].calc = {}
  /\ Seed \in Configs /\ Configs \subseteq Seq(Device)
  /\ \A d \in Bodies : d \in Device /\ d.limits = {}
  /\ MaxDevices \in Nat
  /\ Virtual \subseteq Aliases /\ NodeIds \in Nat /\ MaxInputs \in Nat /\ "none" \notin Writes
  BY CatalogAssumption, WriteAssumption DEF CatalogAssumption, WriteAssumption

-----------------------------------------------------------------------------
(* Lists of devices *)

LEMMA Listed ==
  ASSUME NEW list \in Seq(Device)
  PROVE  /\ Len(list) \in Nat /\ DOMAIN list = 1 .. Len(list)
         /\ \A i \in DOMAIN list : list[i] \in Device
  BY LenProperties, ElementOfSeq

(* A finite set of numbers that is not empty has a least one: there are as   *)
(* many counts of the members up to a member as there are members, so one of *)
(* the counts is 1.                                                          *)
LEMMA LeastExists ==
  ASSUME NEW n \in Nat, NEW S \in SUBSET (1 .. n), S # {}
  PROVE  \E i \in S : \A j \in S : i <= j
<1> DEFINE upto(i) == {j \in S : j <= i}
           count == [i \in S |-> Cardinality(upto(i))]
           counts == {count[i] : i \in S}
<1>1. IsFiniteSet(1 .. n)
  BY FS_Interval
<1>2. IsFiniteSet(S) /\ Cardinality(S) \in Nat
  BY <1>1, FS_Subset, FS_CardinalityType
<1>3. \A i \in S : IsFiniteSet(upto(i)) /\ upto(i) \subseteq S /\ upto(i) # {}
  BY <1>2, FS_Subset
<1>4. \A i \in S : count[i] \in 1 .. Cardinality(S)
  <2> TAKE i \in S
  <2>1. Cardinality(upto(i)) \in Nat /\ Cardinality(upto(i)) <= Cardinality(S)
    BY <1>2, <1>3, FS_Subset, FS_CardinalityType
  <2>2. Cardinality(upto(i)) # 0
    BY <1>3, FS_EmptySet
  <2> QED
    BY <1>2, <2>1, <2>2
<1>5. \A i, j \in S : i < j => count[i] < count[j]
  <2> SUFFICES ASSUME NEW i \in S, NEW j \in S, i < j PROVE count[i] < count[j]
    OBVIOUS
  <2>0. \A k \in S : k \in Int
    OBVIOUS
  <2>1. \A k \in upto(i) : k \in upto(j)
    BY <2>0
  <2>2. j \in upto(j) /\ j \notin upto(i)
    BY <2>0
  <2>3. upto(i) \subseteq upto(j) /\ upto(i) # upto(j)
    BY <2>1, <2>2
  <2>4. Cardinality(upto(i)) < Cardinality(upto(j))
    <3> HIDE DEF upto
    <3>1. Cardinality(upto(i)) \in Nat /\ Cardinality(upto(j)) \in Nat
      BY <1>3, FS_CardinalityType
    <3> QED
      BY <1>3, <2>3, <3>1, FS_Subset
  <2> QED
    BY <2>4
<1>6. count \in Bijection(S, counts)
  <2>1. \A i, j \in S : count[i] = count[j] => i = j
    <3> SUFFICES ASSUME NEW i \in S, NEW j \in S, count[i] = count[j], i # j PROVE FALSE
      OBVIOUS
    <3> HIDE DEF count
    <3>1. i < j \/ j < i
      OBVIOUS
    <3>2. count[i] \in Int
      BY <1>2, <1>4
    <3> QED
      BY <1>5, <3>1, <3>2
  <2> QED
    BY <2>1 DEF Bijection, Injection, Surjection, IsInjective
<1>7. counts = 1 .. Cardinality(S)
  <2>1. IsFiniteSet(counts) /\ Cardinality(counts) = Cardinality(S)
    <3> HIDE DEF count, counts
    <3> QED
      BY <1>2, <1>6, FS_Bijection DEF ExistsBijection
  <2>2. counts \subseteq 1 .. Cardinality(S)
    BY <1>4
  <2>3. IsFiniteSet(1 .. Cardinality(S)) /\ Cardinality(1 .. Cardinality(S)) = Cardinality(S)
    BY <1>2, FS_Interval
  <2> HIDE DEF counts
  <2> QED
    BY <2>1, <2>2, <2>3, FS_Subset
<1>8. PICK i \in S : count[i] = 1
  <2>1. 1 \in 1 .. Cardinality(S)
    BY <1>2, FS_EmptySet
  <2> QED
    BY <1>7, <2>1
<1> HIDE DEF count
<1>9. ASSUME NEW j \in S, j < i PROVE FALSE
  <2>1. count[j] < 1 /\ count[j] \in 1 .. Cardinality(S)
    BY <1>4, <1>5, <1>8, <1>9
  <2> QED
    BY <1>2, <2>1
<1> QED
  BY <1>9

LEMMA Found ==
  ASSUME NEW name, devices \in Seq(Device), Exists(name)
  PROVE  /\ Find(name) \in DOMAIN devices
         /\ devices[Find(name)].name = name
         /\ devices[Find(name)] \in Device
<1>1. Named(devices, name) \in SUBSET (1 .. Len(devices)) /\ Named(devices, name) # {}
      /\ Len(devices) \in Nat
  BY DEF Named, Exists
<1>2. \E i \in Named(devices, name) : \A j \in Named(devices, name) : i <= j
  BY <1>1, LeastExists
<1>3. Find(name) \in Named(devices, name)
  BY <1>2 DEF Find
<1> QED
  BY <1>3 DEF Named

LEMMA Removed ==
  ASSUME NEW list \in Seq(Device), NEW i \in DOMAIN list
  PROVE  /\ RemoveAt(list, i) \in Seq(Device)
         /\ DOMAIN RemoveAt(list, i) = 1 .. Len(list) - 1
         /\ \A j \in DOMAIN RemoveAt(list, i) :
               RemoveAt(list, i)[j] = IF j < i THEN list[j] ELSE list[j + 1]
<1> DEFINE left == SubSeq(list, 1, i - 1)
           right == SubSeq(list, i + 1, Len(list))
<1>0. i \in 1 .. Len(list) /\ Len(list) \in Nat
  OBVIOUS
<1>1. left \in Seq(Device) /\ Len(left) = i - 1 /\ \A j \in 1 .. i - 1 : left[j] = list[j]
  BY <1>0, SubSeqProperties
<1>2. right \in Seq(Device) /\ Len(right) = Len(list) - i
      /\ \A j \in 1 .. Len(list) - i : right[j] = list[i + j]
  BY <1>0, SubSeqProperties
<1>3. RemoveAt(list, i) = left \o right
  BY DEF RemoveAt
<1> HIDE DEF left, right
<1>4. left \o right \in Seq(Device) /\ Len(left \o right) = Len(list) - 1
  BY <1>0, <1>1, <1>2, ConcatProperties
<1>5. ASSUME NEW j \in 1 .. Len(list) - 1
      PROVE  (left \o right)[j] = IF j < i THEN list[j] ELSE list[j + 1]
  <2>1. CASE j < i
    BY <1>0, <1>1, <1>2, <2>1, ConcatProperties
  <2>2. CASE ~(j < i)
    <3>1. j > Len(left) /\ j - Len(left) \in 1 .. Len(list) - i /\ i + (j - Len(left)) = j + 1
      BY <1>0, <1>1, <2>2
    <3>2. (left \o right)[j] = right[j - Len(left)]
      <4>1. Len(left) + Len(right) = Len(list) - 1 /\ Len(left) \in Nat
        BY <1>0, <1>1, <1>2
      <4>2. j \in 1 .. Len(left) + Len(right) /\ ~(j <= Len(left))
        BY <3>1, <4>1
      <4> QED
        BY <1>1, <1>2, <4>2, ConcatProperties
    <3> QED
      BY <1>2, <2>2, <3>1, <3>2
  <2> QED
    BY <2>1, <2>2
<1>6. DOMAIN (left \o right) = 1 .. Len(list) - 1
  BY <1>4, LenProperties
<1> QED
  BY <1>3, <1>4, <1>5, <1>6

(* An element of a list joined of two is an element of one of them. *)
LEMMA Appended ==
  ASSUME NEW list \in Seq(Device), NEW new \in Seq(Device), NEW i \in DOMAIN (list \o new)
  PROVE  \/ i \in DOMAIN list /\ (list \o new)[i] = list[i]
         \/ i - Len(list) \in DOMAIN new /\ (list \o new)[i] = new[i - Len(list)]
<1>1. Len(list) \in Nat /\ Len(new) \in Nat
  OBVIOUS
<1>2. i \in 1 .. Len(list) + Len(new)
  BY ConcatProperties, LenProperties
<1>3. (list \o new)[i] = IF i <= Len(list) THEN list[i] ELSE new[i - Len(list)]
  BY <1>2, ConcatProperties
<1> QED
  BY <1>1, <1>2, <1>3

(* Loading the demo appends devices with names of their own, none of which *)
(* was taken.                                                              *)
LEMMA DemoAdds ==
  ASSUME devices \in Seq(Device), LoadDemo
  PROVE  \E new \in Seq(Device) :
            /\ devices' = devices \o new
            /\ \A i \in DOMAIN new : ~Exists(new[i].name) /\ new[i].tags \cap new[i].calc = {}
            /\ \A i, j \in DOMAIN new : new[i].name = new[j].name => i = j
<1> DEFINE free == {i \in DOMAIN Demo : ~Taken(Demo[i].name)}
           added == 1 .. Cardinality(free)
<1>1. PICK pick \in [added -> free] :
         /\ \A i, j \in added : i < j => pick[i] < pick[j]
         /\ devices' = devices \o [i \in added |-> Demo[pick[i]]]
  BY DEF LoadDemo
<1> DEFINE new == [i \in added |-> Demo[pick[i]]]
<1>2. Cardinality(free) \in Nat
  <2>1. IsFiniteSet(DOMAIN Demo)
    BY Assumed, FS_Interval
  <2> QED
    BY <2>1, FS_Subset, FS_CardinalityType
<1>3. \A i \in added : pick[i] \in DOMAIN Demo /\ ~Exists(Demo[pick[i]].name) /\ Demo[pick[i]] \in Device
  BY Assumed DEF Taken
<1>4. new \in Seq(Device) /\ DOMAIN new = added
  BY <1>2, <1>3
<1>5. \A i, j \in added : new[i].name = new[j].name => i = j
  <2> SUFFICES ASSUME NEW i \in added, NEW j \in added, new[i].name = new[j].name, i # j PROVE FALSE
    OBVIOUS
  <2>1. pick[i] = pick[j]
    BY <1>3, Assumed
  <2>2. i < j \/ j < i
    BY <1>2
  <2>3. pick[i] \in Int
    BY <1>3, Assumed
  <2> QED
    BY <1>1, <2>1, <2>2, <2>3
<1>6. \A i \in added : ~Exists(new[i].name) /\ new[i].tags \cap new[i].calc = {}
  BY <1>3, Assumed
<1> QED
  BY <1>1, <1>4, <1>5, <1>6

-----------------------------------------------------------------------------
(* The steps of the catalog, by their shape *)

LEMMA PromisesTyped ==
  ASSUME NEW name \in DeviceNames, NEW tags \in SUBSET Aliases, NEW calc \in SUBSET Aliases
  PROVE  Promises(name, tags, calc) \subseteq Promised
  BY DEF Promises, Promise, Promised

(* What a page sends takes the place of a device that the page showed. *)
LEMMA FormSteps ==
  ASSUME CatalogTypes, NEW u \in Admins, SaveForm(u) \/ Toggle(u) \/ Rename(u)
  PROVE  \E i \in DOMAIN page[u], body \in Device :
            page[u][i] \in Device /\ Replace(body, page[u][i])
<1> USE DEF CatalogTypes
<1>0. page[u] \in Seq(Device)
  OBVIOUS
<1>1. \A i \in DOMAIN page[u] : page[u][i] \in Device
  BY <1>0, Listed
<1>2. CASE SaveForm(u)
  <2>1. PICK i \in DOMAIN page[u], t \in SUBSET Aliases, c \in SUBSET Aliases, allow \in BOOLEAN :
           Replace([page[u][i] EXCEPT !.tags = t, !.calc = c, !.limits = {}, !.enabled = TRUE,
                                      !.allowWrite = allow], page[u][i])
    BY <1>2 DEF SaveForm
  <2>2. [page[u][i] EXCEPT !.tags = t, !.calc = c, !.limits = {}, !.enabled = TRUE,
                           !.allowWrite = allow] \in Device
    BY <1>1 DEF Device
  <2> QED
    BY <1>1, <2>1, <2>2
<1>3. CASE Toggle(u)
  <2>1. PICK i \in DOMAIN page[u] :
           Replace([page[u][i] EXCEPT !.enabled = ~@], page[u][i])
    BY <1>3 DEF Toggle
  <2>2. [page[u][i] EXCEPT !.enabled = ~@] \in Device
    BY <1>1 DEF Device
  <2> QED
    BY <1>1, <2>1, <2>2
<1>4. CASE Rename(u)
  <2>1. PICK i \in DOMAIN page[u], name \in DeviceNames :
           Replace([page[u][i] EXCEPT !.name = name], page[u][i])
    BY <1>4 DEF Rename
  <2>2. [page[u][i] EXCEPT !.name = name] \in Device
    BY <1>1 DEF Device
  <2> QED
    BY <1>1, <2>1, <2>2
<1> QED
  BY <1>2, <1>3, <1>4

(* A request about one tag puts another device of that name in the place of *)
(* the first one.                                                           *)
TagEdit(name, alias) ==
    \/ AddTag(name, alias) \/ DeleteTag(name, alias)
    \/ \E some \in BOOLEAN : SetLimits(name, alias, some)
    \/ AddCalc(name, alias) \/ DeleteCalc(name, alias)

LEMMA TagSteps ==
  ASSUME CatalogTypes, NEW name \in DeviceNames, NEW alias \in Aliases, TagEdit(name, alias)
  PROVE  /\ Exists(name)
         /\ \E d \in Device : d.name = name /\ Change(Find(name), d)
         /\ promised' \in SUBSET Promised
         /\ trouble \subseteq trouble' /\ trouble' \subseteq trouble \cup {"tag over calculated"}
         /\ UNCHANGED page
<1> USE DEF CatalogTypes
<1>0. Exists(name) /\ UNCHANGED page
  BY DEF TagEdit, AddTag, DeleteTag, SetLimits, AddCalc, DeleteCalc
<1>1. devices[Find(name)] \in Device /\ devices[Find(name)].name = name
  BY <1>0, Found
<1> DEFINE d0 == devices[Find(name)]
<1> DEFINE Puts == \E d \in Device : d.name = name /\ Change(Find(name), d)
<1>p. Promise("tag", name, alias) \in Promised /\ Promise("limits", name, alias) \in Promised
      /\ Promise("calc", name, alias) \in Promised
  BY DEF Promise, Promised
<1>2. CASE AddTag(name, alias)
  <2>1. [d0 EXCEPT !.tags = @ \cup {alias}] \in Device
        /\ [d0 EXCEPT !.tags = @ \cup {alias}].name = name
    BY <1>1 DEF Device
  <2>2. Puts
    BY <1>2, <2>1 DEF AddTag
  <2>3. promised' = promised \cup {Promise("tag", name, alias)}
        /\ (trouble' = trouble \/ trouble' = trouble \cup {"tag over calculated"})
    BY <1>2 DEF AddTag
  <2> QED
    BY <1>0, <1>p, <2>2, <2>3
<1>3. CASE DeleteTag(name, alias)
  <2>1. [d0 EXCEPT !.tags = @ \ {alias}, !.limits = @ \ {alias}] \in Device
        /\ [d0 EXCEPT !.tags = @ \ {alias}, !.limits = @ \ {alias}].name = name
    BY <1>1 DEF Device
  <2>2. Puts
    BY <1>3, <2>1 DEF DeleteTag
  <2> QED
    BY <1>0, <1>3, <2>2 DEF DeleteTag
<1>4. ASSUME NEW some \in BOOLEAN, SetLimits(name, alias, some)
      PROVE  Puts /\ promised' \in SUBSET Promised /\ trouble' = trouble
  <2>1. [d0 EXCEPT !.limits = IF some THEN @ \cup {alias} ELSE @ \ {alias}] \in Device
        /\ [d0 EXCEPT !.limits = IF some THEN @ \cup {alias} ELSE @ \ {alias}].name = name
    BY <1>1 DEF Device
  <2>2. Puts
    BY <1>4, <2>1 DEF SetLimits
  <2> QED
    BY <1>4, <1>p, <2>2 DEF SetLimits
<1>5. CASE AddCalc(name, alias)
  <2>1. [d0 EXCEPT !.calc = @ \cup {alias}] \in Device
        /\ [d0 EXCEPT !.calc = @ \cup {alias}].name = name
    BY <1>1 DEF Device
  <2>2. Puts
    BY <1>5, <2>1 DEF AddCalc
  <2> QED
    BY <1>0, <1>5, <1>p, <2>2 DEF AddCalc
<1>6. CASE DeleteCalc(name, alias)
  <2>1. [d0 EXCEPT !.calc = @ \ {alias}] \in Device
        /\ [d0 EXCEPT !.calc = @ \ {alias}].name = name
    BY <1>1 DEF Device
  <2>2. Puts
    BY <1>6, <2>1 DEF DeleteCalc
  <2> QED
    BY <1>0, <1>6, <2>2 DEF DeleteCalc
<1> QED
  BY <1>0, <1>2, <1>3, <1>4, <1>5, <1>6 DEF TagEdit

LEMMA CatalogSteps ==
  ASSUME [Next]_vars
  PROVE  \/ \E d \in Bodies : AddDevice(d)
         \/ \E u \in Admins : SaveForm(u) \/ Toggle(u) \/ Rename(u)
         \/ \E name \in DeviceNames : DeleteDevice(name)
         \/ \E name \in DeviceNames, alias \in Aliases : TagEdit(name, alias)
         \/ \E list \in Configs : PutConfig(list)
         \/ LoadDemo
         \/ \E u \in Admins : Show(u)
         \/ UNCHANGED catalogVars
  BY Assumed DEF Next, Input, Edit, Restore, SeedDemo, Shows, TagEdit, vars

(* A whole configuration is a list of devices, and what is promised with it *)
(* are promises.                                                            *)
LEMMA PutTyped ==
  ASSUME NEW list \in Configs
  PROVE  list \in Seq(Device) /\ Stored(list) \subseteq Promised
<1>1. list \in Seq(Device) /\ \A i \in DOMAIN list : list[i] \in Device
  BY Assumed, Listed
<1>2. ASSUME NEW i \in DOMAIN list
      PROVE  Promises(list[i].name, list[i].tags, list[i].calc)
                \cup {Promise("limits", list[i].name, a) : a \in list[i].limits} \subseteq Promised
  <2>1. /\ list[i].name \in DeviceNames /\ list[i].tags \in SUBSET Aliases
        /\ list[i].calc \in SUBSET Aliases /\ list[i].limits \subseteq Aliases
    BY <1>1 DEF Device
  <2>2. Promises(list[i].name, list[i].tags, list[i].calc) \subseteq Promised
    BY <2>1, PromisesTyped
  <2> QED
    BY <2>1, <2>2 DEF Promise, Promised
<1> QED
  BY <1>1, <1>2 DEF Stored

-----------------------------------------------------------------------------
(* Typing of the catalog *)

LEMMA CatalogTyping == Spec => []CatalogTypes
<1> USE DEF CatalogTypes
<1>1. Init => CatalogTypes
  <2> SUFFICES ASSUME Init PROVE CatalogTypes
    OBVIOUS
  <2>1. devices \in Seq(Device) /\ <<>> \in Seq(Device)
    BY Assumed, EmptySeq DEF Init, CatalogInit
  <2> QED
    BY <2>1 DEF Init, CatalogInit
<1>2. CatalogTypes /\ [Next]_vars => CatalogTypes'
  <2> SUFFICES ASSUME CatalogTypes, [Next]_vars PROVE CatalogTypes'
    OBVIOUS
  <2>0. devices \in Seq(Device) /\ DOMAIN devices = 1 .. Len(devices) /\ Len(devices) \in Nat
    BY Listed
  <2>1. ASSUME NEW d \in Bodies, AddDevice(d) PROVE CatalogTypes'
    <3>1. d \in Device
      BY Assumed
    <3>2. d.name \in DeviceNames /\ d.tags \subseteq Aliases /\ d.calc \subseteq Aliases
      BY <3>1 DEF Device
    <3>4. promised' \in SUBSET Promised
      BY <2>1, <3>2, PromisesTyped DEF AddDevice
    <3>5. devices' \in Seq(Device)
      BY <2>1, <3>1, AppendProperties DEF AddDevice
    <3> QED
      BY <2>1, <3>4, <3>5 DEF AddDevice, Twice
  <2>2. ASSUME NEW u \in Admins, SaveForm(u) \/ Toggle(u) \/ Rename(u) PROVE CatalogTypes'
    <3>1. PICK i \in DOMAIN page[u], body \in Device : Replace(body, page[u][i])
      BY <2>2, FormSteps
    <3>2. \A f \in promised : [f EXCEPT !.device = body.name] \in Promised
      BY DEF Device, Promised
    <3>3. promised' \in SUBSET Promised
      <4>1. Promises(body.name, body.tags \ page[u][i].tags, body.calc \ page[u][i].calc) \subseteq Promised
        BY PromisesTyped DEF Device
      <4> QED
        BY <3>1, <3>2, <4>1 DEF Replace, About
    <3>4. devices' \in Seq(Device)
      <4>1. devices' = [devices EXCEPT ![Find(page[u][i].name)] = body]
        BY <3>1 DEF Replace, Change
      <4>2. Find(page[u][i].name) \in 1 .. Len(devices)
        BY <2>0, <3>1, Found DEF Replace
      <4>3. [devices EXCEPT ![Find(page[u][i].name)] = body] \in Seq(Device)
        <5>1. ASSUME NEW k \in 1 .. Len(devices), NEW e \in Device
              PROVE  [devices EXCEPT ![k] = e] \in Seq(Device)
          BY <2>0, ExceptSeq
        <5> QED
          BY <4>2, <5>1
      <4> QED
        BY <4>1, <4>3
    <3> QED
      BY <3>1, <3>3, <3>4 DEF Replace, Twice
  <2>3. ASSUME NEW name \in DeviceNames, DeleteDevice(name) PROVE CatalogTypes'
    BY <2>3, Found, Removed DEF DeleteDevice
  <2>4. ASSUME NEW name \in DeviceNames, NEW alias \in Aliases, TagEdit(name, alias)
        PROVE  CatalogTypes'
    <3>1. PICK d \in Device : devices' = [devices EXCEPT ![Find(name)] = d]
      BY <2>4, TagSteps DEF Change
    <3>2. Find(name) \in 1 .. Len(devices)
      BY <2>0, <2>4, TagSteps, Found
    <3>3. devices' \in Seq(Device)
      BY <2>0, <3>1, <3>2, ExceptSeq
    <3> QED
      BY <2>4, <3>3, TagSteps
  <2>5. CASE LoadDemo
    <3>1. PICK new \in Seq(Device) : devices' = devices \o new
      BY <2>5, DemoAdds
    <3> QED
      BY <2>5, <3>1, ConcatProperties DEF LoadDemo
  <2>6. ASSUME NEW u \in Admins, Show(u) PROVE CatalogTypes'
    BY <2>6 DEF Show
  <2>7. CASE UNCHANGED catalogVars
    BY <2>7 DEF catalogVars
  <2>8. ASSUME NEW list \in Configs, PutConfig(list) PROVE CatalogTypes'
    BY <2>8, PutTyped DEF PutConfig, Twice
  <2> QED
    BY <2>1, <2>2, <2>3, <2>4, <2>5, <2>6, <2>7, <2>8, CatalogSteps
<1> QED
  BY <1>1, <1>2, PTL DEF Spec

-----------------------------------------------------------------------------
(* Names *)

Distinct(list) == \A i, j \in DOMAIN list : list[i].name = list[j].name => i = j

DistinctNames == Without(Ambiguous) => Distinct(devices)

LEMMA DistinctPut ==
  ASSUME NEW list \in Seq(Device), Distinct(list), NEW i \in DOMAIN list, NEW d \in Device,
         \A j \in DOMAIN list : list[j].name = d.name => j = i
  PROVE  Distinct([list EXCEPT ![i] = d])
  BY DEF Distinct

LEMMA DistinctRemoved ==
  ASSUME NEW list \in Seq(Device), Distinct(list), NEW i \in DOMAIN list
  PROVE  Distinct(RemoveAt(list, i))
<1> DEFINE left == RemoveAt(list, i)
           was(l) == IF l < i THEN l ELSE l + 1
<1>1. DOMAIN list = 1 .. Len(list) /\ Len(list) \in Nat
  BY Listed
<1>2. DOMAIN left = 1 .. Len(list) - 1
  BY Removed
<1>3. \A j \in DOMAIN left : was(j) \in DOMAIN list /\ left[j] = list[was(j)]
  <2> TAKE j \in DOMAIN left
  <2>1. left[j] = IF j < i THEN list[j] ELSE list[j + 1]
    BY Removed
  <2> QED
    BY <1>1, <1>2, <2>1
<1> SUFFICES ASSUME NEW j \in DOMAIN left, NEW k \in DOMAIN left, left[j].name = left[k].name
             PROVE  j = k
  BY DEF Distinct
<1> HIDE DEF left
<1>4. was(j) = was(k)
  <2> HIDE DEF was
  <2> QED
    BY <1>3 DEF Distinct
<1> QED
  BY <1>1, <1>2, <1>4

LEMMA DistinctJoined ==
  ASSUME NEW list \in Seq(Device), Distinct(list), NEW new \in Seq(Device), Distinct(new),
         \A i \in DOMAIN list, j \in DOMAIN new : list[i].name # new[j].name
  PROVE  Distinct(list \o new)
<1>1. Len(list) \in Nat /\ \A i \in DOMAIN (list \o new) : i \in Int
  BY Listed, ConcatProperties
<1> SUFFICES ASSUME NEW i \in DOMAIN (list \o new), NEW j \in DOMAIN (list \o new),
                    (list \o new)[i].name = (list \o new)[j].name
             PROVE  i = j
  BY DEF Distinct
<1>2. \/ i \in DOMAIN list /\ (list \o new)[i] = list[i]
      \/ i - Len(list) \in DOMAIN new /\ (list \o new)[i] = new[i - Len(list)]
  BY Appended
<1>3. \/ j \in DOMAIN list /\ (list \o new)[j] = list[j]
      \/ j - Len(list) \in DOMAIN new /\ (list \o new)[j] = new[j - Len(list)]
  BY Appended
<1> QED
  BY <1>1, <1>2, <1>3 DEF Distinct

(* A device that is added is a list of one, joined to the others. *)
LEMMA AddedJoins ==
  ASSUME NEW list \in Seq(Device), NEW d \in Device
  PROVE  Append(list, d) = list \o <<d>> /\ <<d>> \in Seq(Device) /\ Distinct(<<d>>)
         /\ \A i \in DOMAIN <<d>> : <<d>>[i] = d
<1>1. <<d>> \in Seq(Device) /\ DOMAIN <<d>> = {1} /\ <<d>>[1] = d
  OBVIOUS
<1>2. Append(list, d) = list \o <<d>>
  BY AppendIsConcat
<1> QED
  BY <1>1, <1>2 DEF Distinct

LEMMA NamesInvariant == Spec => []DistinctNames
<1>1. Init => DistinctNames
  <2> SUFFICES ASSUME Init PROVE DistinctNames
    OBVIOUS
  <2>1. CASE devices = <<>>
    BY <2>1 DEF DistinctNames, Distinct
  <2>2. CASE devices = Demo
    BY <2>2, Assumed DEF DistinctNames, Distinct
  <2> QED
    BY <2>1, <2>2 DEF Init, CatalogInit
<1>2. CatalogTypes /\ DistinctNames /\ [Next]_vars => DistinctNames'
  <2> SUFFICES ASSUME CatalogTypes, DistinctNames, [Next]_vars, trouble' \cap Ambiguous = {}
               PROVE  Distinct(devices')
    BY DEF DistinctNames, Without
  <2>k. ASSUME trouble \subseteq trouble' PROVE Distinct(devices)
    BY <2>k DEF DistinctNames, Without
  <2>0. devices \in Seq(Device) /\ DOMAIN devices = 1 .. Len(devices) /\ Len(devices) \in Nat
    BY Listed DEF CatalogTypes
  <2>1. ASSUME NEW d \in Bodies, AddDevice(d) PROVE Distinct(devices')
    <3>1. d \in Device /\ devices' = Append(devices, d) /\ ~Exists(d.name)
          /\ trouble \subseteq trouble'
      BY <2>1, Assumed DEF AddDevice, Taken
    <3>2. devices' = devices \o <<d>> /\ <<d>> \in Seq(Device) /\ Distinct(<<d>>)
          /\ \A i \in DOMAIN <<d>> : <<d>>[i] = d
      BY <2>0, <3>1, AddedJoins
    <3>3. \A i \in DOMAIN devices, j \in DOMAIN <<d>> : devices[i].name # <<d>>[j].name
      BY <3>1, <3>2 DEF Exists, Named
    <3> QED
      BY <2>0, <2>k, <3>1, <3>2, <3>3, DistinctJoined
  <2>2. ASSUME NEW u \in Admins, SaveForm(u) \/ Toggle(u) \/ Rename(u) PROVE Distinct(devices')
    <3>1. PICK i \in DOMAIN page[u], body \in Device : Replace(body, page[u][i])
      BY <2>2, FormSteps
    <3>2. Find(page[u][i].name) \in DOMAIN devices
      BY <2>0, <3>1, Found DEF Replace
    <3>3. /\ devices' = [devices EXCEPT ![Find(page[u][i].name)] = body]
          /\ trouble \subseteq trouble'
          /\ \A j \in Named(devices, body.name) : j = Find(page[u][i].name)
      BY <3>1 DEF Replace, Change, Ambiguous
    <3> QED
      BY <2>0, <2>k, <3>2, <3>3, DistinctPut DEF Named
  <2>3. ASSUME NEW name \in DeviceNames, DeleteDevice(name) PROVE Distinct(devices')
    BY <2>0, <2>3, <2>k, Found, DistinctRemoved DEF DeleteDevice
  <2>4. ASSUME NEW name \in DeviceNames, NEW alias \in Aliases, TagEdit(name, alias)
        PROVE  Distinct(devices')
    <3>1. Find(name) \in DOMAIN devices /\ devices[Find(name)].name = name /\ trouble \subseteq trouble'
      BY <2>0, <2>4, TagSteps, Found
    <3>2. PICK d \in Device : d.name = name /\ devices' = [devices EXCEPT ![Find(name)] = d]
      BY <2>4, TagSteps DEF Change
    <3>3. Distinct(devices) => \A j \in DOMAIN devices : devices[j].name = d.name => j = Find(name)
      BY <3>1, <3>2 DEF Distinct
    <3> QED
      BY <2>0, <2>k, <3>1, <3>2, <3>3, DistinctPut
  <2>5. CASE LoadDemo
    <3>1. PICK new \in Seq(Device) :
             /\ devices' = devices \o new
             /\ \A i \in DOMAIN new : ~Exists(new[i].name)
             /\ \A i, j \in DOMAIN new : new[i].name = new[j].name => i = j
      BY <2>0, <2>5, DemoAdds
    <3>2. trouble' = trouble
      BY <2>5 DEF LoadDemo
    <3>3. \A i \in DOMAIN devices, j \in DOMAIN new : devices[i].name # new[j].name
      BY <3>1 DEF Exists, Named
    <3>4. Distinct(new)
      BY <3>1 DEF Distinct
    <3> QED
      BY <2>0, <2>k, <3>1, <3>2, <3>3, <3>4, DistinctJoined
  <2>6. ASSUME NEW u \in Admins, Show(u) PROVE Distinct(devices')
    BY <2>6, <2>k DEF Show
  <2>7. CASE UNCHANGED catalogVars
    BY <2>7, <2>k DEF catalogVars
  <2>8. ASSUME NEW list \in Configs, PutConfig(list) PROVE Distinct(devices')
    BY <2>8 DEF PutConfig, Distinct, Ambiguous
  <2> QED
    BY <2>1, <2>2, <2>3, <2>4, <2>5, <2>6, <2>7, <2>8, CatalogSteps
<1> QED
  BY <1>1, <1>2, CatalogTyping, PTL DEF Spec

(* A name finds one device, whichever requests edit devices, but for a PUT    *)
(* whose body has the name of another and whole configurations that have a    *)
(* name twice.                                                                *)
THEOREM NamesAreUnique == Spec => []NamesUnique
<1>1. DistinctNames => NamesUnique
  BY DEF DistinctNames, Distinct, NamesUnique, Named, Ambiguous
<1> QED
  BY <1>1, NamesInvariant, PTL

-----------------------------------------------------------------------------
(* Aliases *)

Disjoint(d) == d.tags \cap d.calc = {}
AllDisjoint(list) == \A i \in DOMAIN list : Disjoint(list[i])

Doubled == {"tag over calculated", "alias twice"}

DisjointAliases == Without(Doubled) => AllDisjoint(devices)

LEMMA DisjointRemoved ==
  ASSUME NEW list \in Seq(Device), AllDisjoint(list), NEW i \in DOMAIN list
  PROVE  AllDisjoint(RemoveAt(list, i))
<1>1. DOMAIN list = 1 .. Len(list) /\ Len(list) \in Nat
  BY Listed
<1> SUFFICES ASSUME NEW j \in DOMAIN RemoveAt(list, i) PROVE Disjoint(RemoveAt(list, i)[j])
  BY DEF AllDisjoint
<1>2. DOMAIN RemoveAt(list, i) = 1 .. Len(list) - 1
      /\ RemoveAt(list, i)[j] = IF j < i THEN list[j] ELSE list[j + 1]
  BY Removed
<1>3. j \in DOMAIN list /\ j + 1 \in DOMAIN list
  BY <1>1, <1>2
<1> QED
  BY <1>2, <1>3 DEF AllDisjoint

LEMMA DisjointJoined ==
  ASSUME NEW list \in Seq(Device), AllDisjoint(list), NEW new \in Seq(Device), AllDisjoint(new)
  PROVE  AllDisjoint(list \o new)
<1> SUFFICES ASSUME NEW i \in DOMAIN (list \o new) PROVE Disjoint((list \o new)[i])
  BY DEF AllDisjoint
<1> QED
  BY Appended DEF AllDisjoint

(* No calculated tag has the alias of a tag of its device, but for a tag     *)
(* that was added after it and for bodies and whole configurations that have *)
(* both.                                                                     *)
THEOREM AliasesAreDisjoint == Spec => []AliasesDisjoint
<1>1. Init => DisjointAliases
  BY Assumed DEF Init, CatalogInit, DisjointAliases, AllDisjoint, Disjoint
<1>2. CatalogTypes /\ DisjointAliases /\ [Next]_vars => DisjointAliases'
  <2> SUFFICES ASSUME CatalogTypes, DisjointAliases, [Next]_vars, trouble' \cap Doubled = {}
               PROVE  AllDisjoint(devices')
    BY DEF DisjointAliases, Without
  <2>k. ASSUME trouble \subseteq trouble' PROVE AllDisjoint(devices)
    BY <2>k DEF DisjointAliases, Without
  <2>0. devices \in Seq(Device) /\ DOMAIN devices = 1 .. Len(devices) /\ Len(devices) \in Nat
    BY Listed DEF CatalogTypes
  <2>1. ASSUME NEW d \in Bodies, AddDevice(d) PROVE AllDisjoint(devices')
    <3>1. d \in Device /\ devices' = Append(devices, d) /\ trouble' = trouble \cup Twice(d)
      BY <2>1, Assumed DEF AddDevice
    <3>2. devices' = devices \o <<d>> /\ <<d>> \in Seq(Device) /\ \A i \in DOMAIN <<d>> : <<d>>[i] = d
      BY <2>0, <3>1, AddedJoins
    <3>3. Disjoint(d)
      BY <3>1 DEF Twice, Disjoint, Doubled
    <3>4. AllDisjoint(<<d>>)
      BY <3>2, <3>3 DEF AllDisjoint
    <3> QED
      BY <2>0, <2>k, <3>1, <3>2, <3>4, DisjointJoined
  <2>2. ASSUME NEW u \in Admins, SaveForm(u) \/ Toggle(u) \/ Rename(u) PROVE AllDisjoint(devices')
    <3>1. PICK i \in DOMAIN page[u], body \in Device : Replace(body, page[u][i])
      BY <2>2, FormSteps
    <3>2. /\ devices' = [devices EXCEPT ![Find(page[u][i].name)] = body]
          /\ trouble \subseteq trouble' /\ Twice(body) \subseteq trouble'
      BY <3>1 DEF Replace, Change
    <3>3. Disjoint(body)
      BY <3>2 DEF Twice, Disjoint, Doubled
    <3> QED
      BY <2>0, <2>k, <3>2, <3>3 DEF AllDisjoint
  <2>3. ASSUME NEW name \in DeviceNames, DeleteDevice(name) PROVE AllDisjoint(devices')
    BY <2>0, <2>3, <2>k, Found, DisjointRemoved DEF DeleteDevice
  <2>4. ASSUME NEW name \in DeviceNames, NEW alias \in Aliases, TagEdit(name, alias)
        PROVE  AllDisjoint(devices')
    <3> DEFINE d0 == devices[Find(name)]
    <3>1. Find(name) \in DOMAIN devices /\ d0 \in Device /\ trouble \subseteq trouble'
      BY <2>0, <2>4, TagSteps, Found
    <3>2. PICK d \in Device : devices' = [devices EXCEPT ![Find(name)] = d]
      BY <2>4, TagSteps DEF Change
    <3>3. d = devices'[Find(name)]
      BY <2>0, <3>1, <3>2
    <3>4. \/ d.tags \subseteq d0.tags /\ d.calc = d0.calc
          \/ d.tags = d0.tags /\ d.calc \subseteq d0.calc
          \/ d.tags = d0.tags /\ d.calc = d0.calc \cup {alias} /\ alias \notin d0.tags
          \/ d.tags = d0.tags \cup {alias} /\ d.calc = d0.calc
             /\ (alias \notin d0.calc \/ "tag over calculated" \in trouble')
      <4> USE DEF Change
      <4>1. CASE AddTag(name, alias)
        <5>1. d = [d0 EXCEPT !.tags = @ \cup {alias}]
          BY <2>0, <3>1, <3>3, <4>1 DEF AddTag
        <5>2. d.tags = d0.tags \cup {alias} /\ d.calc = d0.calc
          BY <3>1, <5>1 DEF Device
        <5> QED
          BY <4>1, <5>2 DEF AddTag
      <4>2. CASE DeleteTag(name, alias)
        <5>1. d = [d0 EXCEPT !.tags = @ \ {alias}, !.limits = @ \ {alias}]
          BY <2>0, <3>1, <3>3, <4>2 DEF DeleteTag
        <5> QED
          BY <3>1, <5>1 DEF Device
      <4>3. ASSUME NEW some \in BOOLEAN, SetLimits(name, alias, some)
            PROVE  d.tags \subseteq d0.tags /\ d.calc = d0.calc
        <5>1. d = [d0 EXCEPT !.limits = IF some THEN @ \cup {alias} ELSE @ \ {alias}]
          BY <2>0, <3>1, <3>3, <4>3 DEF SetLimits
        <5> QED
          BY <3>1, <5>1 DEF Device
      <4>4. CASE AddCalc(name, alias)
        <5>1. d = [d0 EXCEPT !.calc = @ \cup {alias}] /\ alias \notin d0.tags
          BY <2>0, <3>1, <3>3, <4>4 DEF AddCalc, InUse
        <5> QED
          BY <3>1, <5>1 DEF Device
      <4>5. CASE DeleteCalc(name, alias)
        <5>1. d = [d0 EXCEPT !.calc = @ \ {alias}]
          BY <2>0, <3>1, <3>3, <4>5 DEF DeleteCalc
        <5> QED
          BY <3>1, <5>1 DEF Device
      <4> QED
        BY <2>4, <4>1, <4>2, <4>3, <4>4, <4>5 DEF TagEdit
    <3>5. Disjoint(d)
      BY <2>k, <3>1, <3>4 DEF AllDisjoint, Disjoint, Doubled
    <3> QED
      BY <2>0, <2>k, <3>1, <3>2, <3>5 DEF AllDisjoint
  <2>5. CASE LoadDemo
    <3>1. PICK new \in Seq(Device) :
             devices' = devices \o new /\ \A i \in DOMAIN new : new[i].tags \cap new[i].calc = {}
      BY <2>0, <2>5, DemoAdds
    <3>2. AllDisjoint(new) /\ trouble' = trouble
      BY <2>5, <3>1 DEF AllDisjoint, Disjoint, LoadDemo
    <3> QED
      BY <2>0, <2>k, <3>1, <3>2, DisjointJoined
  <2>6. ASSUME NEW u \in Admins, Show(u) PROVE AllDisjoint(devices')
    BY <2>6, <2>k DEF Show
  <2>7. CASE UNCHANGED catalogVars
    BY <2>7, <2>k DEF catalogVars
  <2>8. ASSUME NEW list \in Configs, PutConfig(list) PROVE AllDisjoint(devices')
    <3>1. devices' = list /\ \A i \in DOMAIN list : Twice(list[i]) \subseteq trouble'
      BY <2>8 DEF PutConfig
    <3> QED
      BY <3>1 DEF AllDisjoint, Disjoint, Twice, Doubled
  <2> QED
    BY <2>1, <2>2, <2>3, <2>4, <2>5, <2>6, <2>7, <2>8, CatalogSteps
<1>3. DisjointAliases => AliasesDisjoint
  BY DEF DisjointAliases, AllDisjoint, Disjoint, AliasesDisjoint, Without, Doubled
<1> QED
  BY <1>1, <1>2, <1>3, CatalogTyping, PTL DEF Spec

-----------------------------------------------------------------------------
(* Promises *)

Stands(list, f) == \E i \in DOMAIN list : list[i].name = f.device /\ Holds(list[i], f)

PromisesStand == trouble \cap Fragile = {} => \A f \in promised : Stands(devices, f)

LEMMA StandsPut ==
  ASSUME NEW list \in Seq(Device), Distinct(list), NEW i \in DOMAIN list, NEW d \in Device,
         NEW f, f.device # list[i].name, Stands(list, f)
  PROVE  Stands([list EXCEPT ![i] = d], f)
  BY DEF Stands

LEMMA StandsRemoved ==
  ASSUME NEW list \in Seq(Device), NEW i \in DOMAIN list, NEW f, f.device # list[i].name, Stands(list, f)
  PROVE  Stands(RemoveAt(list, i), f)
<1>1. DOMAIN list = 1 .. Len(list) /\ Len(list) \in Nat
  BY Listed
<1>2. PICK j \in DOMAIN list : list[j].name = f.device /\ Holds(list[j], f)
  BY DEF Stands
<1> DEFINE k == IF j < i THEN j ELSE j - 1
<1>3. k \in 1 .. Len(list) - 1 /\ (IF k < i THEN k ELSE k + 1) = j
  BY <1>1, <1>2
<1>4. k \in DOMAIN RemoveAt(list, i) /\ RemoveAt(list, i)[k] = list[j]
  BY <1>3, Removed
<1> QED
  BY <1>2, <1>4 DEF Stands

LEMMA StandsJoined ==
  ASSUME NEW list \in Seq(Device), NEW new \in Seq(Device), NEW f, Stands(list, f) \/ Stands(new, f)
  PROVE  Stands(list \o new, f)
<1>0. /\ DOMAIN list = 1 .. Len(list) /\ Len(list) \in Nat
      /\ DOMAIN new = 1 .. Len(new) /\ Len(new) \in Nat
      /\ DOMAIN (list \o new) = 1 .. Len(list) + Len(new)
  BY Listed, ConcatProperties
<1>1. CASE Stands(list, f)
  <2>1. PICK i \in DOMAIN list : list[i].name = f.device /\ Holds(list[i], f)
    BY <1>1 DEF Stands
  <2>2. i \in 1 .. Len(list) + Len(new) /\ (list \o new)[i] = list[i]
    BY <1>0, <2>1, ConcatProperties
  <2> QED
    BY <1>0, <2>1, <2>2 DEF Stands
<1>2. CASE Stands(new, f)
  <2>1. PICK i \in DOMAIN new : new[i].name = f.device /\ Holds(new[i], f)
    BY <1>2 DEF Stands
  <2> DEFINE k == Len(list) + i
  <2>2. k \in 1 .. Len(list) + Len(new) /\ ~(k <= Len(list)) /\ k - Len(list) = i
    BY <1>0, <2>1
  <2>3. (list \o new)[k] = new[i]
    BY <2>2, ConcatProperties
  <2> QED
    BY <1>0, <2>1, <2>2, <2>3 DEF Stands
<1> QED
  BY <1>1, <1>2

(* A request about one tag keeps the promises about its device that it does  *)
(* not take back.                                                            *)
LEMMA TagEditHolds ==
  ASSUME CatalogTypes, NEW name \in DeviceNames, NEW alias \in Aliases, TagEdit(name, alias),
         NEW d \in Device, devices' = [devices EXCEPT ![Find(name)] = d],
         \A f \in promised : f.device = name => Holds(devices[Find(name)], f)
  PROVE  /\ \A f \in promised' : f.device = name => Holds(d, f)
         /\ \A f \in promised' : f.device # name => f \in promised
<1> DEFINE d0 == devices[Find(name)]
<1>0. Find(name) \in DOMAIN devices /\ d0 \in Device
  BY TagSteps, Found DEF CatalogTypes
<1>1. d = devices'[Find(name)]
  BY <1>0 DEF CatalogTypes
<1>2. promised \subseteq Promised
  BY DEF CatalogTypes
<1> USE DEF Change
<1>3. CASE AddTag(name, alias)
  <2>1. d = [d0 EXCEPT !.tags = @ \cup {alias}] /\ promised' = promised \cup {Promise("tag", name, alias)}
    BY <1>0, <1>1, <1>3 DEF AddTag
  <2>2. d.tags = d0.tags \cup {alias} /\ d.calc = d0.calc /\ d.limits = d0.limits
    BY <1>0, <2>1 DEF Device
  <2> QED
    BY <1>2, <2>1, <2>2 DEF Promised, Promise, Holds
<1>4. CASE DeleteTag(name, alias)
  <2>1. d = [d0 EXCEPT !.tags = @ \ {alias}, !.limits = @ \ {alias}]
        /\ promised' = promised \ {Promise("tag", name, alias), Promise("limits", name, alias)}
    BY <1>0, <1>1, <1>4 DEF DeleteTag
  <2>2. d.tags = d0.tags \ {alias} /\ d.calc = d0.calc /\ d.limits = d0.limits \ {alias}
    BY <1>0, <2>1 DEF Device
  <2> QED
    BY <1>2, <2>1, <2>2 DEF Promised, Promise, Holds
<1>5. ASSUME NEW some \in BOOLEAN, SetLimits(name, alias, some)
      PROVE  /\ \A f \in promised' : f.device = name => Holds(d, f)
             /\ \A f \in promised' : f.device # name => f \in promised
  <2>1. d = [d0 EXCEPT !.limits = IF some THEN @ \cup {alias} ELSE @ \ {alias}]
        /\ promised' = IF some THEN promised \cup {Promise("limits", name, alias)}
                               ELSE promised \ {Promise("limits", name, alias)}
    BY <1>0, <1>1, <1>5 DEF SetLimits
  <2>2. d.tags = d0.tags /\ d.calc = d0.calc
        /\ d.limits = IF some THEN d0.limits \cup {alias} ELSE d0.limits \ {alias}
    BY <1>0, <2>1 DEF Device
  <2> QED
    BY <1>2, <2>1, <2>2 DEF Promised, Promise, Holds
<1>6. CASE AddCalc(name, alias)
  <2>1. d = [d0 EXCEPT !.calc = @ \cup {alias}] /\ promised' = promised \cup {Promise("calc", name, alias)}
    BY <1>0, <1>1, <1>6 DEF AddCalc
  <2>2. d.tags = d0.tags /\ d.calc = d0.calc \cup {alias} /\ d.limits = d0.limits
    BY <1>0, <2>1 DEF Device
  <2> QED
    BY <1>2, <2>1, <2>2 DEF Promised, Promise, Holds
<1>7. CASE DeleteCalc(name, alias)
  <2>1. d = [d0 EXCEPT !.calc = @ \ {alias}] /\ promised' = promised \ {Promise("calc", name, alias)}
    BY <1>0, <1>1, <1>7 DEF DeleteCalc
  <2>2. d.tags = d0.tags /\ d.calc = d0.calc \ {alias} /\ d.limits = d0.limits
    BY <1>0, <2>1 DEF Device
  <2> QED
    BY <1>2, <2>1, <2>2 DEF Promised, Promise, Holds
<1> QED
  BY <1>3, <1>4, <1>5, <1>6, <1>7 DEF TagEdit

(* The device that a name finds holds all that is promised of that name. *)
LEMMA FoundHolds ==
  ASSUME devices \in Seq(Device), Distinct(devices), NEW name, Exists(name),
         NEW f, f.device = name, Stands(devices, f)
  PROVE  Holds(devices[Find(name)], f)
  BY Found DEF Stands, Distinct

(* A body holds what its request promises of it. *)
LEMMA PromisesHeld ==
  ASSUME NEW body, NEW tags, NEW calc, tags \subseteq body.tags, calc \subseteq body.calc,
         NEW f \in Promises(body.name, tags, calc)
  PROVE  f.device = body.name /\ Holds(body, f)
<1>1. CASE f \in {Promise("tag", body.name, a) : a \in tags}
  BY <1>1 DEF Promise, Holds
<1>2. CASE f \in {Promise("calc", body.name, a) : a \in calc}
  BY <1>2 DEF Promise, Holds
<1> QED
  BY <1>1, <1>2 DEF Promises

(* What a request answered as stored stays until a request takes it back,    *)
(* but for pages loaded before, forms that do not send the limits, whole     *)
(* configurations that do not have it, and names that two devices have.      *)
THEOREM EditsAreKept == Spec => []EditsKept
<1>1. Init => PromisesStand
  BY DEF Init, CatalogInit, PromisesStand
<1>2. CatalogTypes /\ DistinctNames /\ PromisesStand /\ [Next]_vars => PromisesStand'
  <2> SUFFICES ASSUME CatalogTypes, DistinctNames, PromisesStand, [Next]_vars,
                      trouble' \cap Fragile = {}
               PROVE  \A f \in promised' : Stands(devices', f)
    BY DEF PromisesStand
  <2>0. devices \in Seq(Device) /\ DOMAIN devices = 1 .. Len(devices) /\ Len(devices) \in Nat
        /\ promised \subseteq Promised
    BY Listed DEF CatalogTypes
  <2>k. ASSUME trouble \subseteq trouble'
        PROVE  Distinct(devices) /\ \A f \in promised : Stands(devices, f)
    BY <2>k DEF PromisesStand, DistinctNames, Without, Fragile
  <2>1. ASSUME NEW d \in Bodies, AddDevice(d) PROVE \A f \in promised' : Stands(devices', f)
    <3>1. d \in Device /\ devices' = Append(devices, d) /\ trouble \subseteq trouble'
          /\ promised' = promised \cup Promises(d.name, d.tags, d.calc)
      BY <2>1, Assumed DEF AddDevice
    <3>2. devices' = devices \o <<d>> /\ <<d>> \in Seq(Device) /\ \A i \in DOMAIN <<d>> : <<d>>[i] = d
      BY <2>0, <3>1, AddedJoins
    <3>3. ASSUME NEW f \in promised', f \notin promised PROVE Stands(<<d>>, f)
      <4>1. f.device = d.name /\ Holds(d, f)
        BY <3>1, <3>3, PromisesHeld
      <4>2. 1 \in DOMAIN <<d>> /\ <<d>>[1] = d
        OBVIOUS
      <4> QED
        BY <4>1, <4>2 DEF Stands
    <3>4. \A f \in promised : Stands(devices, f)
      BY <2>k, <3>1
    <3>5. ASSUME NEW f \in promised' PROVE Stands(devices \o <<d>>, f)
      BY <2>0, <3>2, <3>3, <3>4, StandsJoined
    <3> QED
      BY <3>2, <3>5
  <2>2. ASSUME NEW u \in Admins, SaveForm(u) \/ Toggle(u) \/ Rename(u)
        PROVE  \A f \in promised' : Stands(devices', f)
    <3>1. PICK i \in DOMAIN page[u], body \in Device :
             page[u][i] \in Device /\ Replace(body, page[u][i])
      BY <2>2, FormSteps
    <3> DEFINE shown == page[u][i]
               old == devices[Find(shown.name)]
               more == Promises(body.name, body.tags \ shown.tags, body.calc \ shown.calc)
               kept == About(shown.name) \ TakenBack(shown, body)
    <3>2. /\ Exists(shown.name)
          /\ devices' = [devices EXCEPT ![Find(shown.name)] = body]
          /\ promised' = (promised \ About(shown.name))
                            \cup {[f EXCEPT !.device = body.name] : f \in kept} \cup more
          /\ trouble \subseteq trouble'
          /\ "stale page" \notin trouble' => old = shown
          /\ "form without limits" \notin trouble' => old.limits \cap body.tags \subseteq body.limits
      BY <3>1 DEF Replace, Change
    <3>3. Find(shown.name) \in DOMAIN devices /\ old.name = shown.name
      BY <2>0, <3>2, Found
    <3>4. old = shown /\ old.limits \cap body.tags \subseteq body.limits
      BY <3>2 DEF Fragile
    <3>5. Distinct(devices) /\ \A f \in promised : Stands(devices, f)
      BY <2>k, <3>2
    <3>8. ASSUME NEW f, f.device = body.name, Holds(body, f) PROVE Stands(devices', f)
      <4>1. Find(shown.name) \in DOMAIN devices' /\ devices'[Find(shown.name)] = body
        BY <2>0, <3>2, <3>3
      <4> QED
        BY <3>8, <4>1 DEF Stands
    <3>9. ASSUME NEW f \in more PROVE Stands(devices', f)
      BY <3>8, <3>9, PromisesHeld
    <3>6. ASSUME NEW f \in kept PROVE Stands(devices', [f EXCEPT !.device = body.name])
      <4>0. f \in promised /\ f.device = shown.name /\ f \in Promised /\ f \notin TakenBack(shown, body)
        BY <2>0, <3>6 DEF About
      <4>1. Holds(old, f)
        BY <2>0, <3>2, <3>5, <4>0, FoundHolds
      <4>2. Holds(body, f)
        <5>1. f = Promise(f.what, shown.name, f.alias) /\ f.alias \in Aliases
              /\ f.what \in {"tag", "calc", "limits"}
          BY <4>0 DEF Promised, Promise
        <5>2. CASE f.what = "tag"
          BY <3>4, <4>0, <4>1, <5>1, <5>2 DEF Holds, TakenBack, Promises
        <5>3. CASE f.what = "calc"
          BY <3>4, <4>0, <4>1, <5>1, <5>3 DEF Holds, TakenBack, Promises
        <5>4. CASE f.what = "limits"
          BY <3>4, <4>0, <4>1, <5>1, <5>4 DEF Holds, TakenBack
        <5> QED
          BY <5>1, <5>2, <5>3, <5>4
      <4>3. [f EXCEPT !.device = body.name].device = body.name
            /\ Holds(body, [f EXCEPT !.device = body.name])
        BY <4>0, <4>2 DEF Holds, Promised
      <4> QED
        BY <3>8, <4>3
    <3>7. ASSUME NEW f \in promised \ About(shown.name) PROVE Stands(devices', f)
      <4>1. f.device # old.name
        BY <3>3, <3>7 DEF About
      <4> QED
        BY <2>0, <3>2, <3>3, <3>5, <4>1, StandsPut DEF old
    <3> QED
      BY <3>2, <3>6, <3>7, <3>9
  <2>3. ASSUME NEW name \in DeviceNames, DeleteDevice(name) PROVE \A f \in promised' : Stands(devices', f)
    <3>1. Find(name) \in DOMAIN devices /\ devices[Find(name)].name = name
          /\ devices' = RemoveAt(devices, Find(name)) /\ promised' = promised \ About(name)
          /\ trouble' = trouble
      BY <2>0, <2>3, Found DEF DeleteDevice
    <3>2. \A f \in promised' : f \in promised /\ f.device # name
      BY <3>1 DEF About
    <3> QED
      BY <2>0, <2>k, <3>1, <3>2, StandsRemoved
  <2>4. ASSUME NEW name \in DeviceNames, NEW alias \in Aliases, TagEdit(name, alias)
        PROVE  \A f \in promised' : Stands(devices', f)
    <3>1. Find(name) \in DOMAIN devices /\ devices[Find(name)].name = name /\ trouble \subseteq trouble'
          /\ Exists(name)
      BY <2>0, <2>4, TagSteps, Found
    <3>2. PICK d \in Device : d.name = name /\ devices' = [devices EXCEPT ![Find(name)] = d]
      BY <2>4, TagSteps DEF Change
    <3>3. Distinct(devices) /\ \A f \in promised : Stands(devices, f)
      BY <2>k, <3>1
    <3>4. \A f \in promised : f.device = name => Holds(devices[Find(name)], f)
      BY <2>0, <3>1, <3>3, FoundHolds
    <3>5. /\ \A f \in promised' : f.device = name => Holds(d, f)
          /\ \A f \in promised' : f.device # name => f \in promised
      BY <2>4, <3>2, <3>4, TagEditHolds
    <3>6. Find(name) \in DOMAIN devices' /\ devices'[Find(name)] = d
      BY <2>0, <3>1, <3>2
    <3>7. ASSUME NEW f \in promised', f.device = name PROVE Stands(devices', f)
      BY <3>2, <3>5, <3>6, <3>7 DEF Stands
    <3>8. ASSUME NEW f \in promised', f.device # name PROVE Stands(devices', f)
      BY <2>0, <3>1, <3>2, <3>3, <3>5, <3>8, StandsPut
    <3> QED
      BY <3>7, <3>8
  <2>5. CASE LoadDemo
    <3>1. PICK new \in Seq(Device) : devices' = devices \o new
      BY <2>0, <2>5, DemoAdds
    <3> QED
      BY <2>0, <2>5, <2>k, <3>1, StandsJoined DEF LoadDemo
  <2>6. ASSUME NEW u \in Admins, Show(u) PROVE \A f \in promised' : Stands(devices', f)
    BY <2>6, <2>k DEF Show
  <2>7. CASE UNCHANGED catalogVars
    BY <2>7, <2>k DEF catalogVars
  <2>8. ASSUME NEW list \in Configs, PutConfig(list) PROVE \A f \in promised' : Stands(devices', f)
    <3>0. devices' = list /\ promised' = promised \cup Stored(list)
          /\ (promised \subseteq Stored(list) \/ "replaced" \in trouble')
      BY <2>8 DEF PutConfig
    <3>1. devices' = list /\ promised' = Stored(list)
      BY <3>0 DEF Fragile
    <3>2. ASSUME NEW i \in DOMAIN list,
                 NEW f \in Promises(list[i].name, list[i].tags, list[i].calc)
                             \cup {Promise("limits", list[i].name, a) : a \in list[i].limits}
          PROVE  Stands(list, f)
      <4>1. f.device = list[i].name /\ Holds(list[i], f)
        <5>1. CASE f \in Promises(list[i].name, list[i].tags, list[i].calc)
          BY <5>1, PromisesHeld
        <5>2. CASE f \in {Promise("limits", list[i].name, a) : a \in list[i].limits}
          BY <5>2 DEF Promise, Holds
        <5> QED
          BY <3>2, <5>1, <5>2
      <4> QED
        BY <4>1 DEF Stands
    <3> QED
      BY <3>1, <3>2 DEF Stored
  <2> QED
    BY <2>1, <2>2, <2>3, <2>4, <2>5, <2>6, <2>7, <2>8, CatalogSteps
<1>3. CatalogTypes /\ PromisesStand => EditsKept
  BY DEF PromisesStand, Stands, Holds, EditsKept, Without, Fragile, Ambiguous, Named
<1> QED
  BY <1>1, <1>2, <1>3, CatalogTyping, NamesInvariant, PTL DEF Spec

-----------------------------------------------------------------------------
(* Writes *)

(* The steps, as far as writes are concerned. *)
LEMMA WriteSteps ==
  ASSUME [Next]_vars
  PROVE  \/ \E w \in Writes, k \in Keys : WriteVirtual(w, k) \/ Open(w, k)
         \/ \E w \in Writes : Write(w)
         \/ UNCHANGED writing
  BY DEF Next, Input, vars

LEMMA NextIdTypes ==
  ASSUME NEW w \in Writes, NextId(w), WriteTypes
  PROVE  /\ at' \in [Writes -> {"new", "connecting", "trying", "sent", "closing", "recording", "done"}]
         /\ \A v \in Writes : v # w => at'[v] = at[v] /\ result'[v] = result[v]
         /\ try' \in [Writes -> Nat]
         /\ result' \in [Writes -> {"none", "ok", "failed"}]
         /\ \/ at'[w] = "trying" /\ UNCHANGED result
            \/ at'[w] = "closing" /\ result'[w] = "failed"
<1>0. /\ at \in [Writes -> {"new", "connecting", "trying", "sent", "closing", "recording", "done"}]
      /\ try \in [Writes -> Nat]
      /\ result \in [Writes -> {"none", "ok", "failed"}]
  BY DEF WriteTypes
<1> USE DEF Goes
<1>1. CASE Goes(w, "trying") /\ try' = [try EXCEPT ![w] = @ + 1] /\ UNCHANGED result
  <2>1. try' \in [Writes -> Nat]
    BY <1>0, <1>1
  <2>2. at' \in [Writes -> {"new", "connecting", "trying", "sent", "closing", "recording", "done"}]
        /\ at'[w] = "trying" /\ \A v \in Writes : v # w => at'[v] = at[v]
    BY <1>0, <1>1
  <2> QED
    BY <1>0, <1>1, <2>1, <2>2
<1>2. CASE Ends(w, "failed")
  BY <1>0, <1>2 DEF Ends
<1> QED
  BY <1>1, <1>2 DEF NextId

(* The functions of the writes have a value for each write. *)
ForEachWrite ==
    /\ DOMAIN at = Writes /\ DOMAIN goal = Writes /\ DOMAIN try = Writes /\ DOMAIN result = Writes
    /\ DOMAIN row = Writes /\ DOMAIN said = Writes /\ DOMAIN apart = Writes /\ DOMAIN mishap = Writes

LEMMA ValuesExist == ASSUME WriteTypes PROVE ForEachWrite
  BY DEF WriteTypes, ForEachWrite

LEMMA MishapTypes ==
  ASSUME WriteTypes, NEW w \in Writes,
         NEW what \in {"store not saved", "timed out", "close failed", "log lost"}, Mishap(w, what)
  PROVE  mishap' \in [Writes -> SUBSET {"store not saved", "timed out", "close failed", "log lost"}]
<1>1. mishap \in [Writes -> SUBSET {"store not saved", "timed out", "close failed", "log lost"}]
  BY DEF WriteTypes
<1>2. mishap[w] \cup {what} \in SUBSET {"store not saved", "timed out", "close failed", "log lost"}
  BY <1>1
<1> QED
  BY <1>1, <1>2 DEF Mishap

LEMMA WriteTyping == Spec => []WriteTypes
<1>1. Init => WriteTypes
  BY DEF Init, WriteTypes
<1>2. WriteTypes /\ [Next]_vars => WriteTypes'
  <2> SUFFICES ASSUME WriteTypes, [Next]_vars PROVE WriteTypes'
    OBVIOUS
  <2>1. ASSUME NEW w \in Writes, NEW k \in Keys, WriteVirtual(w, k) PROVE WriteTypes'
    <3>1. apart' \in [Writes -> SUBSET Writes] /\ goal' \in [Writes -> Keys \cup {<<>>}]
          /\ \A v \in Writes : goal'[v] = IF v = w THEN k ELSE goal[v]
      BY <2>1 DEF WriteVirtual, Begin, WriteTypes, Over
    <3> QED
      <4>1. mishap' \in [Writes -> SUBSET {"store not saved", "timed out", "close failed", "log lost"}]
        BY <2>1, MishapTypes DEF WriteVirtual, WriteTypes
      <4>2. \A v \in Writes : at'[v] # "new" => goal'[v] \in Keys
        BY <2>1, <3>1 DEF WriteVirtual, Goes, WriteTypes
      <4> QED
        BY <2>1, <3>1, <4>1, <4>2 DEF WriteVirtual, Goes, WriteTypes
  <2>2. ASSUME NEW w \in Writes, NEW k \in Keys, Open(w, k) PROVE WriteTypes'
    <3>1. apart' \in [Writes -> SUBSET Writes] /\ goal' \in [Writes -> Keys \cup {<<>>}]
          /\ \A v \in Writes : goal'[v] = IF v = w THEN k ELSE goal[v]
      BY <2>2 DEF Open, Begin, WriteTypes, Over
    <3> QED
      BY <2>2, <3>1 DEF Open, Goes, WriteTypes
  <2>3. ASSUME NEW w \in Writes, Connect(w) PROVE WriteTypes'
    BY <2>3 DEF Connect, Goes, WriteTypes
  <2>4. ASSUME NEW w \in Writes, ConnectFails(w) PROVE WriteTypes'
    BY <2>4 DEF ConnectFails, Goes, WriteTypes
  <2>5. ASSUME NEW w \in Writes, Read(w) PROVE WriteTypes'
    <3>0. UNCHANGED <<goal, row, said, plc, effected, apart, mishap>> /\ at[w] = "trying"
      BY <2>5 DEF Read
    <3>1. CASE sent' = sent \cup {<<w, try[w]>>} /\ Goes(w, "sent") /\ UNCHANGED <<try, result>>
      <4>1. <<w, try[w]>> \in Writes \X Nat
        <5>1. try[w] \in Nat
          BY DEF WriteTypes
        <5> QED
          BY <5>1
      <4>2. sent' \in SUBSET (Writes \X Nat)
        BY <3>1, <4>1 DEF WriteTypes
      <4> QED
        BY <3>0, <3>1, <4>2 DEF Goes, WriteTypes
    <3>2. CASE Ends(w, "failed") /\ UNCHANGED sent
      BY <3>0, <3>2 DEF Ends, Goes, WriteTypes
    <3>3. CASE NextId(w) /\ UNCHANGED sent
      BY <3>0, <3>3, NextIdTypes DEF WriteTypes
    <3> QED
      BY <2>5, <3>1, <3>2, <3>3 DEF Read
  <2>6. ASSUME NEW w \in Writes, Perform(w) PROVE WriteTypes'
    BY <2>6 DEF Perform, WriteTypes
  <2>7. ASSUME NEW w \in Writes, Reply(w) PROVE WriteTypes'
    BY <2>7 DEF Reply, Ends, Goes, WriteTypes
  <2>8. ASSUME NEW w \in Writes, Reject(w) PROVE WriteTypes'
    BY <2>8 DEF Reject, Ends, Goes, WriteTypes
  <2>9. ASSUME NEW w \in Writes, TimeOut(w) PROVE WriteTypes'
    <3>1. mishap' \in [Writes -> SUBSET {"store not saved", "timed out", "close failed", "log lost"}]
      BY <2>9 DEF TimeOut, Mishap, WriteTypes
    <3> QED
      BY <2>9, <3>1, NextIdTypes DEF TimeOut, WriteTypes
  <2>10. ASSUME NEW w \in Writes, Close(w) PROVE WriteTypes'
    BY <2>10 DEF Close, Goes, WriteTypes
  <2>11. ASSUME NEW w \in Writes, CloseFails(w) PROVE WriteTypes'
    BY <2>11 DEF CloseFails, Goes, Mishap, WriteTypes
  <2>12. ASSUME NEW w \in Writes, Record(w) PROVE WriteTypes'
    <3>1. row' \in [Writes -> {"none", "ok", "failed"}]
          /\ mishap' \in [Writes -> SUBSET {"store not saved", "timed out", "close failed", "log lost"}]
      <4>1. result[w] \in {"none", "ok", "failed"}
        BY DEF WriteTypes
      <4>2. CASE row' = [row EXCEPT ![w] = result[w]] /\ UNCHANGED mishap
        BY <4>1, <4>2 DEF WriteTypes
      <4>3. CASE Mishap(w, "log lost") /\ UNCHANGED row
        BY <4>3, MishapTypes DEF WriteTypes
      <4> QED
        BY <2>12, <4>2, <4>3 DEF Record, Fallback
    <3>2. said' \in [Writes -> {"none", "ok", "failed", "error"}]
      BY <2>12 DEF Record, WriteTypes
    <3>3. at' = [at EXCEPT ![w] = "done"]
          /\ UNCHANGED <<goal, try, sent, result, plc, store, effected, apart>>
      BY <2>12 DEF Record, Goes
    <3>4. /\ at' \in [Writes -> {"new", "connecting", "trying", "sent", "closing", "recording", "done"}]
          /\ \A v \in Writes : at'[v] # "new" => goal'[v] \in Keys
      BY <2>12, <3>3 DEF Record, WriteTypes
    <3> QED
      BY <3>1, <3>2, <3>3, <3>4 DEF WriteTypes
  <2>13. CASE UNCHANGED writing
    BY <2>13 DEF writing, WriteTypes
  <2> QED
    BY <2>1, <2>2, <2>3, <2>4, <2>5, <2>6, <2>7, <2>8, <2>9, <2>10, <2>11, <2>12, <2>13, WriteSteps
       DEF Write
<1> QED
  BY <1>1, <1>2, PTL DEF Spec

(* A step of a write leaves what concerns the other ones alone. *)
Starts(w) == \E k \in Keys : WriteVirtual(w, k) \/ Open(w, k)

LEMMA NextIdMoves ==
  ASSUME ForEachWrite, NEW w \in Writes, NextId(w)
  PROVE  /\ \A v \in Writes : v # w => at'[v] = at[v] /\ try'[v] = try[v] /\ result'[v] = result[v]
         /\ \/ at'[w] = "trying" /\ try'[w] = try[w] + 1 /\ result'[w] = result[w]
            \/ at'[w] = "closing" /\ try'[w] = try[w] /\ result'[w] = "failed"
<1>1. CASE Goes(w, "trying") /\ try' = [try EXCEPT ![w] = @ + 1] /\ UNCHANGED result
  BY <1>1 DEF Goes, ForEachWrite
<1>2. CASE Ends(w, "failed")
  BY <1>2 DEF Ends, Goes, ForEachWrite
<1> QED
  BY <1>1, <1>2 DEF NextId

LEMMA OthersStay ==
  ASSUME ForEachWrite, NEW w \in Writes, Starts(w) \/ Write(w), NEW v \in Writes, v # w
  PROVE  /\ at'[v] = at[v] /\ goal'[v] = goal[v] /\ try'[v] = try[v] /\ result'[v] = result[v]
         /\ row'[v] = row[v] /\ said'[v] = said[v] /\ apart'[v] = apart[v] /\ mishap'[v] = mishap[v]
         /\ v \in effected' <=> v \in effected
         /\ \A n : <<v, n>> \in sent' <=> <<v, n>> \in sent
<1> USE DEF Goes, Mishap, ForEachWrite
<1>1. ASSUME NEW k \in Keys, WriteVirtual(w, k)
      PROVE  /\ at'[v] = at[v] /\ goal'[v] = goal[v] /\ try'[v] = try[v] /\ result'[v] = result[v]
             /\ row'[v] = row[v] /\ said'[v] = said[v] /\ apart'[v] = apart[v]
             /\ mishap'[v] = mishap[v] /\ (v \in effected' <=> v \in effected) /\ UNCHANGED sent
  BY <1>1 DEF WriteVirtual, Begin
<1>2. ASSUME NEW k \in Keys, Open(w, k)
      PROVE  /\ at'[v] = at[v] /\ goal'[v] = goal[v] /\ apart'[v] = apart[v]
             /\ UNCHANGED <<try, sent, result, row, said, effected, mishap>>
  BY <1>2 DEF Open, Begin
<1>3. CASE Read(w)
  <2>1. /\ at'[v] = at[v] /\ try'[v] = try[v] /\ result'[v] = result[v]
        /\ sent' \in {sent, sent \cup {<<w, try[w]>>}}
    BY <1>3, NextIdMoves DEF Read, Ends
  <2> QED
    BY <1>3, <2>1 DEF Read
<1>4. CASE TimeOut(w)
  BY <1>4, NextIdMoves DEF TimeOut
<1>5. CASE Record(w)
  BY <1>5 DEF Record, Fallback
<1>6. CASE Perform(w)
  BY <1>6 DEF Perform
<1>7. CASE Connect(w) \/ ConnectFails(w) \/ Close(w) \/ CloseFails(w)
  BY <1>7 DEF Connect, ConnectFails, Close, CloseFails
<1>8. CASE Reply(w) \/ Reject(w)
  BY <1>8 DEF Reply, Reject, Ends
<1> QED
  BY <1>1, <1>2, <1>3, <1>4, <1>5, <1>6, <1>7, <1>8 DEF Write, Starts

LEMMA CallsInvariant == Spec => []CallsKept
<1>1. Init => CallsKept
  BY DEF Init, CallsKept, CallKept, Answered, TimedOut
<1>2. WriteTypes /\ WriteTypes' /\ CallsKept /\ [Next]_vars => CallsKept'
  <2> SUFFICES ASSUME WriteTypes, WriteTypes', CallsKept, [Next]_vars PROVE CallsKept'
    OBVIOUS
  <2>1. ASSUME NEW w \in Writes, Starts(w) \/ Write(w), CallKept(w)' PROVE CallsKept'
    <3>1. ASSUME NEW v \in Writes, v # w PROVE CallKept(v)'
      <4>1. CallKept(v)
        BY DEF CallsKept
      <4> QED
        BY <2>1, <3>1, <4>1, ValuesExist, OthersStay DEF CallKept, Answered, TimedOut
    <3> QED
      BY <2>1, <3>1 DEF CallsKept
  <2>2. ASSUME NEW w \in Writes, Starts(w) \/ Write(w) PROVE CallKept(w)'
    <3>0. CallKept(w) /\ ForEachWrite
      BY ValuesExist DEF CallsKept
    <3> USE DEF CallKept, TimedOut, Answered, Goes, Mishap, ForEachWrite
    <3>1. CASE Starts(w)
      BY <3>0, <3>1 DEF Starts, WriteVirtual, Open, Begin
    <3>2. CASE Read(w)
      <4>0. at[w] = "trying" /\ UNCHANGED <<mishap, effected>>
        BY <3>2 DEF Read
      <4>1. CASE sent' = sent \cup {<<w, try[w]>>} /\ Goes(w, "sent") /\ UNCHANGED <<try, result>>
        BY <3>0, <4>0, <4>1
      <4>2. CASE Ends(w, "failed") /\ UNCHANGED sent
        BY <3>0, <4>0, <4>2 DEF Ends
      <4>3. CASE NextId(w) /\ UNCHANGED sent
        BY <3>0, <4>0, <4>3, NextIdMoves
      <4> QED
        BY <3>2, <4>1, <4>2, <4>3 DEF Read
    <3>3. CASE TimeOut(w)
      BY <3>0, <3>3, NextIdMoves DEF TimeOut
    <3>4. CASE Record(w)
      BY <3>0, <3>4 DEF Record, Fallback
    <3>5. CASE Perform(w)
      <4>1. PICK n \in 1 .. NodeIds : <<w, n>> \in sent /\ sent' = sent \ {<<w, n>>}
        BY <3>5 DEF Perform
      <4>2. effected' = effected \cup {w} /\ UNCHANGED <<at, try, result, mishap>> /\ n \in Nat
        BY <3>5, Assumed DEF Perform
      <4>3. TimedOut(w) \/ (at[w] = "sent" /\ n = try[w])
        BY <3>0, <4>1, <4>2
      <4> QED
        BY <3>0, <4>1, <4>2, <4>3
    <3>6. CASE Connect(w) \/ ConnectFails(w)
      BY <3>0, <3>6 DEF Connect, ConnectFails
    <3>7. CASE Reply(w)
      BY <3>0, <3>7 DEF Reply, Performed, Ends
    <3>8. CASE Reject(w)
      BY <3>0, <3>8 DEF Reject, Performed, Ends
    <3>9. CASE Close(w)
      BY <3>0, <3>9 DEF Close
    <3>10. CASE CloseFails(w)
      <4>1. mishap'[w] = mishap[w] \cup {"close failed"} /\ at'[w] = "done" /\ at[w] = "closing"
            /\ UNCHANGED <<try, sent, result, effected>>
        BY <3>0, <3>10 DEF CloseFails
      <4> QED
        BY <3>0, <4>1
    <3> QED
      BY <2>2, <3>1, <3>2, <3>3, <3>4, <3>5, <3>6, <3>7, <3>8, <3>9, <3>10 DEF Write
  <2>3. CASE UNCHANGED writing
    BY <2>3 DEF writing, CallsKept, CallKept, Answered, TimedOut
  <2> QED
    BY <2>1, <2>2, <2>3, WriteSteps DEF Starts
<1> QED
  BY <1>1, <1>2, WriteTyping, PTL DEF Spec

LEMMA RowsInvariant == Spec => []RowsKept
<1>1. Init => RowsKept
  BY DEF Init, RowsKept, RowKept, Over
<1>2. WriteTypes /\ WriteTypes' /\ CallsKept /\ RowsKept /\ [Next]_vars => RowsKept'
  <2> SUFFICES ASSUME WriteTypes, WriteTypes', CallsKept, RowsKept, [Next]_vars PROVE RowsKept'
    OBVIOUS
  <2>1. ASSUME NEW w \in Writes, Starts(w) \/ Write(w), RowKept(w)' PROVE RowsKept'
    <3>1. ASSUME NEW v \in Writes, v # w PROVE RowKept(v)'
      <4>1. RowKept(v)
        BY DEF RowsKept
      <4> QED
        BY <2>1, <3>1, <4>1, ValuesExist, OthersStay DEF RowKept, Over
    <3> QED
      BY <2>1, <3>1 DEF RowsKept
  <2>2. ASSUME NEW w \in Writes, Starts(w) \/ Write(w) PROVE RowKept(w)'
    <3>0. RowKept(w) /\ CallKept(w) /\ ForEachWrite
      BY ValuesExist DEF RowsKept, CallsKept
    <3> USE DEF RowKept, Over, Goes, Mishap, ForEachWrite
    <3>1. CASE Starts(w)
      <4>1. PICK k \in Keys : WriteVirtual(w, k) \/ Open(w, k)
        BY <3>1 DEF Starts
      <4>2. at[w] = "new" /\ goal'[w] = k /\ mishap[w] = {} /\ row' = row /\ said' = said
        BY <3>0, <4>1 DEF WriteVirtual, Open, Begin, CallKept
      <4>3. CASE WriteVirtual(w, k)
        <5>1. k[2] \in Virtual /\ at'[w] = "recording" /\ result'[w] = "ok"
              /\ \/ w \in effected' /\ mishap'[w] = mishap[w]
                 \/ mishap'[w] = mishap[w] \cup {"store not saved"}
          BY <3>0, <4>3 DEF WriteVirtual
        <5> QED
          BY <3>0, <4>2, <5>1
      <4>4. CASE Open(w, k)
        <5>1. at'[w] = "connecting" /\ UNCHANGED <<result, effected, mishap>>
          BY <3>0, <4>4 DEF Open
        <5> QED
          BY <3>0, <4>2, <5>1
      <4> QED
        BY <4>1, <4>3, <4>4
    <3>2. CASE Read(w)
      <4>0. at[w] = "trying" /\ UNCHANGED <<goal, row, said, mishap, effected>>
        BY <3>2 DEF Read
      <4>1. CASE Goes(w, "sent") /\ UNCHANGED <<try, result>>
        BY <3>0, <4>0, <4>1
      <4>2. CASE Ends(w, "failed")
        BY <3>0, <4>0, <4>2 DEF Ends
      <4>3. CASE NextId(w)
        BY <3>0, <4>0, <4>3, NextIdMoves
      <4> QED
        BY <3>2, <4>1, <4>2, <4>3 DEF Read
    <3>3. CASE TimeOut(w)
      <4>1. at[w] = "sent" /\ NextId(w) /\ UNCHANGED <<goal, row, said, effected>>
            /\ mishap'[w] = mishap[w] \cup {"timed out"}
        BY <3>0, <3>3 DEF TimeOut
      <4> QED
        BY <3>0, <4>1, NextIdMoves
    <3>4. CASE Record(w)
      <4>1. /\ at[w] = "recording" /\ at'[w] = "done" /\ said'[w] = result[w]
            /\ UNCHANGED <<goal, result, effected>>
            /\ \/ row'[w] = result[w] /\ mishap'[w] = mishap[w]
               \/ row'[w] = row[w] /\ mishap'[w] = mishap[w] \cup {"log lost"}
        BY <3>0, <3>4 DEF Record, Fallback
      <4> QED
        BY <3>0, <4>1
    <3>5. CASE Perform(w)
      BY <3>0, <3>5 DEF Perform
    <3>6. CASE Connect(w) \/ ConnectFails(w)
      BY <3>0, <3>6 DEF Connect, ConnectFails
    <3>7. CASE Reply(w)
      <4>1. w \in effected
        BY <3>0, <3>7 DEF Reply, Performed, CallKept, Answered
      <4> QED
        BY <3>0, <3>7, <4>1 DEF Reply, Ends
    <3>8. CASE Reject(w)
      BY <3>0, <3>8 DEF Reject, Ends
    <3>9. CASE Close(w)
      BY <3>0, <3>9 DEF Close
    <3>10. CASE CloseFails(w)
      <4>1. mishap'[w] = mishap[w] \cup {"close failed"} /\ at'[w] = "done" /\ at[w] = "closing"
            /\ said'[w] = "error" /\ UNCHANGED <<goal, result, row, effected>>
        BY <3>0, <3>10 DEF CloseFails
      <4> QED
        BY <3>0, <4>1
    <3> QED
      BY <2>2, <3>1, <3>2, <3>3, <3>4, <3>5, <3>6, <3>7, <3>8, <3>9, <3>10 DEF Write
  <2>3. CASE UNCHANGED writing
    BY <2>3 DEF writing, RowsKept, RowKept, Over
  <2> QED
    BY <2>1, <2>2, <2>3, WriteSteps DEF Starts
<1> QED
  BY <1>1, <1>2, WriteTyping, CallsInvariant, PTL DEF Spec

(* A row says "ok" for a write that took effect, and a write that took       *)
(* effect has one, but for what the property excepts.                        *)
THEOREM LogTellsTheTruth == Spec => []LogTellsTruth
<1>1. CallsKept /\ RowsKept => LogTellsTruth
  BY DEF CallsKept, CallKept, RowsKept, RowKept, LogTellsTruth, Over, Answered, TimedOut
<1> QED
  BY <1>1, CallsInvariant, RowsInvariant, PTL

(* What a step does to its own write, as far as the order of writes goes. *)
LEMMA StartMoves ==
  ASSUME ForEachWrite, NEW w \in Writes, Starts(w)
  PROVE  /\ at[w] = "new" /\ at'[w] # "new" /\ apart'[w] = {v \in Writes : Over(v)}
         /\ goal'[w][2] \in Virtual \/ effected' = effected
         /\ mishap[w] \subseteq mishap'[w] /\ plc' = plc
<1>1. ASSUME NEW k \in Keys, WriteVirtual(w, k) \/ Open(w, k)
      PROVE  /\ at[w] = "new" /\ goal'[w] = k /\ apart'[w] = {v \in Writes : Over(v)}
             /\ at'[w] # "new" /\ plc' = plc
  BY <1>1 DEF WriteVirtual, Open, Begin, Goes, ForEachWrite
<1>2. ASSUME NEW k \in Keys, WriteVirtual(w, k) PROVE k[2] \in Virtual /\ mishap[w] \subseteq mishap'[w]
  BY <1>2 DEF WriteVirtual, Mishap, ForEachWrite
<1>3. ASSUME NEW k \in Keys, Open(w, k) PROVE UNCHANGED <<effected, mishap>>
  BY <1>3 DEF Open
<1> QED
  BY <1>1, <1>2, <1>3 DEF Starts

LEMMA WriteMoves ==
  ASSUME ForEachWrite, NEW w \in Writes, Write(w)
  PROVE  /\ UNCHANGED <<goal, apart>> /\ mishap[w] \subseteq mishap'[w]
         /\ Over(w) => at' = at
         /\ at[w] # "new" => at'[w] # "new"
         /\ UNCHANGED <<plc, effected>> \/ Perform(w)
<1> USE DEF ForEachWrite, Goes, Mishap, Over
<1>1. CASE Read(w)
  BY <1>1, NextIdMoves DEF Read, Ends
<1>2. CASE TimeOut(w)
  BY <1>2, NextIdMoves DEF TimeOut
<1>3. CASE Record(w)
  BY <1>3 DEF Record, Fallback
<1>4. CASE Perform(w)
  BY <1>4 DEF Perform
<1>5. CASE Connect(w) \/ ConnectFails(w) \/ Close(w)
  BY <1>5 DEF Connect, ConnectFails, Close
<1>6. CASE CloseFails(w)
  BY <1>6 DEF CloseFails
<1>7. CASE Reply(w) \/ Reject(w)
  BY <1>7 DEF Reply, Reject, Ends
<1> QED
  BY <1>1, <1>2, <1>3, <1>4, <1>5, <1>6, <1>7 DEF Write

(* A call that is carried out belongs to a write that waits for it or timed  *)
(* out, and puts its write into the tag the write is for.                    *)
LEMMA PerformMoves ==
  ASSUME WriteTypes, CallsKept, NEW w \in Writes, Perform(w)
  PROVE  /\ plc' = [plc EXCEPT ![goal[w]] = w] /\ goal[w] \in Keys /\ DOMAIN plc = Keys
         /\ Over(w) => TimedOut(w)
         /\ UNCHANGED <<at, goal, apart, mishap>>
<1>1. PICK n \in 1 .. NodeIds : <<w, n>> \in sent
  BY DEF Perform
<1>2. CallKept(w) /\ n \in Nat
  BY Assumed DEF CallsKept
<1>3. TimedOut(w) \/ at[w] = "sent"
  BY <1>1, <1>2 DEF CallKept
<1>4. at[w] # "new"
  BY <1>2, <1>3 DEF CallKept, TimedOut
<1> QED
  BY <1>3, <1>4 DEF Perform, WriteTypes, Over

LEMMA OrderInvariant == Spec => []OrderKept
<1>1. Init => OrderKept
  BY DEF Init, OrderKept
<1>2. WriteTypes /\ CallsKept /\ OrderKept /\ [Next]_vars => OrderKept'
  <2> SUFFICES ASSUME WriteTypes, CallsKept, OrderKept, [Next]_vars PROVE OrderKept'
    OBVIOUS
  <2>0. ForEachWrite /\ apart \in [Writes -> SUBSET Writes]
    BY ValuesExist DEF WriteTypes
  <2>1. ASSUME NEW x \in Writes, Starts(x) \/ Write(x) PROVE OrderKept'
    <3>1. ASSUME NEW v \in Writes PROVE (Over(v) => Over(v)') /\ (TimedOut(v) => TimedOut(v)')
      <4>1. CASE v # x
        BY <2>0, <2>1, <4>1, OthersStay DEF Over, TimedOut
      <4>2. CASE v = x
        BY <2>0, <2>1, <4>2, StartMoves, WriteMoves DEF Over, TimedOut
      <4> QED
        BY <4>1, <4>2
    <3> SUFFICES ASSUME NEW w \in Writes
                 PROVE  /\ at'[w] = "new" => apart'[w] = {}
                        /\ w \notin apart'[w]
                        /\ \A v \in apart'[w] : Over(v)'
                        /\ w \in effected' /\ goal'[w][2] \notin Virtual =>
                              \A v \in apart'[w] : plc'[goal'[w]] = v => TimedOut(v)'
      BY DEF OrderKept
    <3>2. /\ at[w] = "new" => apart[w] = {}
          /\ w \notin apart[w] /\ apart[w] \subseteq Writes
          /\ \A v \in apart[w] : Over(v)
          /\ w \in effected /\ goal[w][2] \notin Virtual =>
                \A v \in apart[w] : plc[goal[w]] = v => TimedOut(v)
      BY <2>0 DEF OrderKept
    <3>3. CASE Perform(x)
      <4>1. /\ plc' = [plc EXCEPT ![goal[x]] = x] /\ goal[x] \in Keys /\ DOMAIN plc = Keys
            /\ Over(x) => TimedOut(x)
            /\ UNCHANGED <<at, goal, apart, mishap>> /\ effected' = effected \cup {x}
        BY <3>3, PerformMoves DEF Perform
      <4>2. CASE w = x
        BY <3>1, <3>2, <4>1, <4>2
      <4>3. CASE w # x
        BY <3>1, <3>2, <4>1, <4>3
      <4> QED
        BY <4>2, <4>3
    <3>4. CASE w # x /\ ~Perform(x)
      <4>1. at'[w] = at[w] /\ goal'[w] = goal[w] /\ apart'[w] = apart[w]
            /\ (w \in effected' <=> w \in effected)
        BY <2>0, <2>1, <3>4, OthersStay
      <4>2. plc' = plc
        BY <2>0, <2>1, <3>4, StartMoves, WriteMoves
      <4> QED
        BY <3>1, <3>2, <4>1, <4>2
    <3>5. CASE w = x /\ Starts(w)
      <4>1. w \notin effected
        BY <2>0, <3>5, StartMoves DEF CallsKept, CallKept
      <4>2. ~Over(w)
        BY <2>0, <3>5, StartMoves DEF Over
      <4> QED
        BY <2>0, <3>1, <3>5, <4>1, <4>2, StartMoves
    <3>6. CASE w = x /\ Write(w) /\ ~Perform(w)
      <4>1. UNCHANGED <<goal, apart, plc, effected>> /\ (at[w] # "new" => at'[w] # "new")
        BY <2>0, <3>6, WriteMoves
      <4> QED
        BY <3>1, <3>2, <4>1
    <3> QED
      BY <2>1, <3>3, <3>4, <3>5, <3>6
  <2>2. CASE UNCHANGED writing
    BY <2>2 DEF writing, OrderKept, Over, TimedOut
  <2> QED
    BY <2>1, <2>2, WriteSteps DEF Starts
<1> QED
  BY <1>1, <1>2, WriteTyping, CallsInvariant, PTL DEF Spec

(* What a tag holds was not put there by a request that was over before the  *)
(* last successful write of the tag began, unless that one had timed out.    *)
THEOREM NewestWriteStands == Spec => []NewestStands
<1>1. RowsKept /\ OrderKept => NewestStands
  <2> SUFFICES ASSUME RowsKept, OrderKept, NEW w \in Writes, said[w] = "ok", goal[w][2] \notin Virtual
               PROVE  \A v \in apart[w] : plc[goal[w]] = v => TimedOut(v)
    BY DEF NewestStands, TimedOut
  <2>1. w \in effected
    BY DEF RowsKept, RowKept
  <2> QED
    BY <2>1 DEF OrderKept
<1> QED
  BY <1>1, RowsInvariant, OrderInvariant, PTL
=============================================================================
