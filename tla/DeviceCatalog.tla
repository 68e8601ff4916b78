--------------------------- MODULE DeviceCatalog ---------------------------
(***************************************************************************)
(* The devices of the configuration and the requests that edit them.  Each *)
(* request loads the configuration, edits it and saves it, and is one step *)
(* here; whether it is one in the files is ConfigStore's question, and its *)
(* ways of losing an edit come on top of those here.  What an              *)
(* administrator changes is what the page showed: the device form sends    *)
(* back a device of the page as it was when the page was loaded, without   *)
(* what the form does not show, and the request puts that in the place of  *)
(* the stored device.  Some requests replace all devices at once.          *)
(*                                                                         *)
(* A device is its name, the aliases of its tags, those of them that have  *)
(* alarm limits, its calculated tags and its two switches.  trouble names  *)
(* what the properties do not withstand.                                   *)
(***************************************************************************)
EXTENDS Naturals, Sequences, FiniteSets, SequencesExt

CONSTANTS
    DeviceNames,  \* names a device may have
    Aliases,      \* aliases a tag may have
    Demo,         \* devices of demo-devices.json
    Seed,         \* devices of seed_demo.py
    Configs,      \* whole configurations that a PUT, an upload or a backup brings
    Bodies,       \* devices that a form for a new device sends
    Admins,       \* pages in which devices are edited
    MaxDevices    \* bound on the number of devices

Device == [name : DeviceNames, tags : SUBSET Aliases, limits : SUBSET Aliases,
           calc : SUBSET Aliases, enabled : BOOLEAN, allowWrite : BOOLEAN]

ASSUME CatalogAssumption ==
    /\ Demo \in Seq(Device)
    /\ \A i, j \in DOMAIN Demo : Demo[i].name = Demo[j].name => i = j
    /\ \A i \in DOMAIN Demo : Demo[i].tags \cap Demo[i].calc = {}
    /\ Seed \in Configs /\ Configs \subseteq Seq(Device)
    /\ Bodies \subseteq {d \in Device : d.limits = {}}
    /\ MaxDevices \in Nat

VARIABLES
    devices,   \* config["devices"]
    page,      \* what each page shows: the devices when it was loaded
    promised,  \* history: tags, calculated tags and limits answered as stored
    trouble    \* history: what has gone wrong

catalogVars == <<devices, page, promised, trouble>>

CatalogInit ==
    /\ devices \in {<<>>, Demo}
    /\ page = [u \in Admins |-> <<>>]
    /\ promised = {}
    /\ trouble = {}

Without(what) == trouble \cap what = {}

Named(list, name) == {i \in DOMAIN list : list[i].name = name}
Exists(name) == Named(devices, name) # {}

(* find_device: the first of that name. *)
Find(name) == CHOOSE i \in Named(devices, name) : \A j \in Named(devices, name) : i <= j

Change(i, d) == devices' = [devices EXCEPT ![i] = d]
Promise(what, name, alias) == [what |-> what, device |-> name, alias |-> alias]
About(name) == {f \in promised : f.device = name}
Promises(name, tags, calc) ==
    {Promise("tag", name, a) : a \in tags} \cup {Promise("calc", name, a) : a \in calc}

(* No request looks whether its body has a tag and a calculated tag of one  *)
(* alias.                                                                   *)
Twice(d) == IF d.tags \cap d.calc = {} THEN {} ELSE {"alias twice"}

-----------------------------------------------------------------------------
(* loadConfig: the page is shown what is stored. *)
Show(u) ==
    /\ page[u] # devices
    /\ page' = [page EXCEPT ![u] = devices]
    /\ UNCHANGED <<devices, promised, trouble>>

(* Mutant: the name is not looked up. *)
Slip_Taken(name) == FALSE

Taken(name) == Exists(name)

(* POST /api/devices *)
AddDevice(d) ==
    /\ Len(devices) < MaxDevices
    /\ ~Taken(d.name)
    /\ devices' = Append(devices, d)
    /\ promised' = promised \cup Promises(d.name, d.tags, d.calc)
    /\ trouble' = trouble \cup Twice(d)
    /\ UNCHANGED page

(* What the body of a PUT takes back of the promises about its device: the  *)
(* rows that it leaves out of those that the page showed, and their limits. *)
TakenBack(shown, body) ==
    Promises(shown.name, shown.tags \ body.tags, shown.calc \ body.calc)
        \cup {Promise("limits", shown.name, a) : a \in Aliases \ body.tags}

(* PUT /api/devices/{name}: the body takes the place of the device.  What   *)
(* the page did not show yet, and what the body does not hold, is gone.     *)
Replace(body, shown) ==
    LET name == shown.name
        i == Find(name)
        old == devices[i]
        stale == IF old = shown THEN {} ELSE {"stale page"}
        dropped == IF old.limits \cap body.tags \subseteq body.limits THEN {} ELSE {"form without limits"}
        taken == IF \E j \in Named(devices, body.name) : j # i THEN {"renamed to taken"} ELSE {}
    IN  /\ Exists(name)
        /\ Change(i, body)
        /\ promised' = (promised \ About(name))
                          \cup {[f EXCEPT !.device = body.name] : f \in About(name) \ TakenBack(shown, body)}
                          \cup Promises(body.name, body.tags \ shown.tags, body.calc \ shown.calc)
        /\ trouble' = trouble \cup stale \cup dropped \cup taken \cup Twice(body)
        /\ UNCHANGED page

(* saveDevice: the form shows tags and calculated tags as rows, in which    *)
(* the administrator removes and adds some, and sends back neither the      *)
(* limits nor whether the device is disabled.                               *)
SaveForm(u) ==
    \E i \in DOMAIN page[u], t, c \in SUBSET Aliases, allow \in BOOLEAN :
        LET d == page[u][i]
        IN  Replace([d EXCEPT !.tags = t, !.calc = c, !.limits = {}, !.enabled = TRUE,
                              !.allowWrite = allow], d)

(* toggleDeviceEnabled: the whole device, as the page has it. *)
Toggle(u) ==
    \E i \in DOMAIN page[u] :
        LET d == page[u][i]
        IN  Replace([d EXCEPT !.enabled = ~@], d)

(* The same request with another name in its body, which no form sends. *)
Rename(u) ==
    \E i \in DOMAIN page[u], name \in DeviceNames :
        LET d == page[u][i]
        IN  name # d.name /\ Replace([d EXCEPT !.name = name], d)

(* Mutant: the last device is popped. *)
Slip_DeleteDevice(name) ==
    /\ Exists(name)
    /\ devices' = RemoveAt(devices, Len(devices))
    /\ promised' = promised \ About(name)
    /\ UNCHANGED <<page, trouble>>

(* DELETE /api/devices/{name} *)
DeleteDevice(name) ==
    /\ Exists(name)
    /\ devices' = RemoveAt(devices, Find(name))
    /\ promised' = promised \ About(name)
    /\ UNCHANGED <<page, trouble>>

(* POST /api/devices/{name}/tags looks through the tags only. *)
AddTag(name, alias) ==
    /\ Exists(name)
    /\ LET d == devices[Find(name)]
       IN  /\ alias \notin d.tags
           /\ Change(Find(name), [d EXCEPT !.tags = @ \cup {alias}])
           /\ trouble' = IF alias \in d.calc THEN trouble \cup {"tag over calculated"} ELSE trouble
    /\ promised' = promised \cup {Promise("tag", name, alias)}
    /\ UNCHANGED page

(* DELETE /api/devices/{name}/tags/{alias} *)
DeleteTag(name, alias) ==
    /\ Exists(name)
    /\ LET d == devices[Find(name)]
       IN  /\ alias \in d.tags
           /\ Change(Find(name), [d EXCEPT !.tags = @ \ {alias}, !.limits = @ \ {alias}])
    /\ promised' = promised \ {Promise("tag", name, alias), Promise("limits", name, alias)}
    /\ UNCHANGED <<page, trouble>>

(* PUT /api/devices/{name}/tags/{alias}/alarms; no limits take them away. *)
SetLimits(name, alias, some) ==
    /\ Exists(name)
    /\ LET d == devices[Find(name)]
       IN  /\ alias \in d.tags
           /\ Change(Find(name), [d EXCEPT !.limits = IF some THEN @ \cup {alias} ELSE @ \ {alias}])
    /\ promised' = IF some THEN promised \cup {Promise("limits", name, alias)}
                           ELSE promised \ {Promise("limits", name, alias)}
    /\ UNCHANGED <<page, trouble>>

(* Mutant: the alias is looked for among the calculated tags only. *)
Slip_InUse(d, alias) == alias \in d.calc

InUse(d, alias) == alias \in d.tags \cup d.calc

(* POST /api/devices/{name}/calculated *)
AddCalc(name, alias) ==
    /\ Exists(name)
    /\ LET d == devices[Find(name)]
       IN  /\ ~InUse(d, alias)
           /\ Change(Find(name), [d EXCEPT !.calc = @ \cup {alias}])
    /\ promised' = promised \cup {Promise("calc", name, alias)}
    /\ UNCHANGED <<page, trouble>>

(* DELETE /api/devices/{name}/calculated/{alias} *)
DeleteCalc(name, alias) ==
    /\ Exists(name)
    /\ LET d == devices[Find(name)]
       IN  /\ alias \in d.calc
           /\ Change(Find(name), [d EXCEPT !.calc = @ \ {alias}])
    /\ promised' = promised \ {Promise("calc", name, alias)}
    /\ UNCHANGED <<page, trouble>>

(* POST /api/demo/load adds the demo devices whose names are free, in the   *)
(* order of the file.                                                       *)
LoadDemo ==
    LET free == {i \in DOMAIN Demo : ~Taken(Demo[i].name)}
        added == 1 .. Cardinality(free)
    IN  /\ free # {} /\ Len(devices) + Cardinality(free) <= MaxDevices
        /\ \E pick \in [added -> free] :
              /\ \A i, j \in added : i < j => pick[i] < pick[j]
              /\ devices' = devices \o [i \in added |-> Demo[pick[i]]]
        /\ UNCHANGED <<page, promised, trouble>>

(* What is promised when all of list is answered as stored. *)
Stored(list) ==
    UNION {Promises(list[i].name, list[i].tags, list[i].calc)
              \cup {Promise("limits", list[i].name, a) : a \in list[i].limits} : i \in DOMAIN list}

(* PUT /api/config: the devices of the body take the place of all others.   *)
(* Their names are not compared, and what is no longer there is not missed. *)
PutConfig(list) ==
    LET lost == IF promised \subseteq Stored(list) THEN {} ELSE {"replaced"}
        repeated == IF \A i, j \in DOMAIN list : list[i].name = list[j].name => i = j
                    THEN {} ELSE {"name repeated"}
    IN  /\ Len(list) <= MaxDevices
        /\ devices' = list
        /\ promised' = promised \cup Stored(list)
        /\ trouble' = trouble \cup lost \cup repeated \cup UNION {Twice(list[i]) : i \in DOMAIN list}
        /\ UNCHANGED page

(* POST /api/backups/{filename}/restore and POST /api/backups/upload.  A    *)
(* backup can be older than any edit, and may have been made of the file    *)
(* from which calculated tags and limits are stripped.                      *)
Restore(list) == PutConfig(list)

(* POST /api/demo/seed.  (The virtual tags' values it sets are left out.)   *)
SeedDemo == PutConfig(Seed)

Edit ==
    \/ \E d \in Bodies : AddDevice(d)
    \/ \E u \in Admins : SaveForm(u) \/ Toggle(u) \/ Rename(u)
    \/ \E n \in DeviceNames : DeleteDevice(n)
    \/ \E n \in DeviceNames, a \in Aliases :
          \/ AddTag(n, a) \/ DeleteTag(n, a) \/ \E some \in BOOLEAN : SetLimits(n, a, some)
          \/ AddCalc(n, a) \/ DeleteCalc(n, a)
    \/ \E list \in Configs : PutConfig(list) \/ Restore(list)
    \/ LoadDemo \/ SeedDemo

Shows == \E u \in Admins : Show(u)

-----------------------------------------------------------------------------
(* A name finds one device, however devices are added, edited and deleted:  *)
(* alarms, virtual tags and live values are keyed by it.  The exceptions: a *)
(* PUT whose body has the name of another device, and a whole configuration *)
(* that has a name twice.                                                   *)
NamesUnique ==
    Without({"renamed to taken", "name repeated"}) =>
        \A n \in DeviceNames : \A i, j \in Named(devices, n) : i = j

(* "Alias already exists (in tags or calculated tags)": in a device no      *)
(* calculated tag has the alias of a tag.  The exceptions: a tag that is    *)
(* added after the calculated tag, and a body or a whole configuration that *)
(* has both.                                                                *)
AliasesDisjoint ==
    Without({"tag over calculated", "alias twice"}) =>
        \A i \in DOMAIN devices : devices[i].tags \cap devices[i].calc = {}

(* A tag, a calculated tag or limits that a request answered as stored stay *)
(* until a request names them or their device to remove them, through       *)
(* renames, switches and edits of other devices.  The exceptions: a page    *)
(* that was loaded before sends its device back; the device form, which     *)
(* does not send limits; a whole configuration (PUT, upload, restore, demo  *)
(* seed) that does not have it; and a name that two devices have.           *)
EditsKept ==
    Without({"stale page", "form without limits", "replaced",
             "renamed to taken", "name repeated"}) =>
        \A f \in promised :
            \E i \in Named(devices, f.device) :
                f.alias \in CASE f.what = "tag" -> devices[i].tags
                              [] f.what = "calc" -> devices[i].calc
                              [] f.what = "limits" -> devices[i].limits
=============================================================================
