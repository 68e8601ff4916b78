----------------------------- MODULE HmiScreens -----------------------------
(***************************************************************************)
(* The HMI screens: one JSON file of plants, their areas and their          *)
(* equipment.  A handler reads the file, changes the tree and saves it      *)
(* whole, through a temporary file whose name both processes share, with    *)
(* no lock: within a process handlers follow each other, across processes   *)
(* they interleave.                                                         *)
(*                                                                          *)
(* A tree is a set of nodes.  A node is known by "born", the order in which *)
(* nodes were added, which is their order in the file; "under" are the      *)
(* nodes it hangs from and itself.  Ids come from the clock, or from the    *)
(* demo file, and a lookup takes the first node that has the id.            *)
(***************************************************************************)
EXTENDS AdminProcess

CONSTANTS
    Levels,  \* 3 in the code: plant, area, equipment
    Pages    \* browsers that hold a copy of the tree and save it whole

ASSUME ScreensAssumption == Levels \in Nat \ {0}

VARIABLES
    file,      \* which file hmi-screens.json is, 0 for none
    tmp,       \* which file hmi-screens.json.tmp is, 0 for none
    content,   \* what is in each file: a tree, or cut short
    screen,    \* the request each process is handling
    page,      \* the copy each browser has
    edits,     \* edits and nodes so far
    answered,  \* history: nodes as the answered requests left them
    raced      \* history: requests of both processes overlapped

screenVars == <<file, tmp, content, screen, page, edits, answered, raced>>

Files == 1 .. Cardinality(Procs) + 1   \* one more than can be open at once
Cut == {[born |-> 0, id |-> 0, level |-> 0, under |-> {}, name |-> "cut", mark |-> 0]}

NoScreen == [at |-> "none", tree |-> {}, drop |-> {}, add |-> {}, fd |-> 0, crossed |-> FALSE]

ScreensInit ==
    /\ file = 0 /\ tmp = 0
    /\ content = [f \in Files |-> {}]
    /\ screen = [p \in Procs |-> NoScreen]
    /\ page = [u \in Pages |-> {}]
    /\ edits = 0
    /\ answered = {} /\ raced = FALSE

-----------------------------------------------------------------------------
(* A file that is missing or that is no JSON is an empty tree. *)
Load == IF file = 0 \/ content[file] = Cut THEN {} ELSE content[file]

(* What a lookup can come to: of the nodes of a level with one id the first. *)
Found == {n \in Load : \A m \in Load : m.level = n.level /\ m.id = n.id => n.born <= m.born}

Below(n) == {m \in Load : n.born \in m.under}

ScreenAt(p, stage) == screen[p].at = stage
Active(p) == ~ScreenAt(p, "none")

(* The request has read the file and has its tree; what it drops and adds   *)
(* is what its answer will stand for.                                       *)
Edit(p, drop, add) ==
    /\ Free(p) /\ Input
    /\ screen' = [screen EXCEPT ![p] =
                    [NoScreen EXCEPT !.at = "open", !.tree = (Load \ drop) \cup add,
                                     !.drop = drop, !.add = add]]
    /\ edits' = edits + 1
    /\ Takes(p, "screens")
    /\ IF \E q \in Procs : Active(q)
       THEN raced' = TRUE /\ UNCHANGED answered
       ELSE raced' = FALSE /\ answered' = IF raced THEN answered \cap Load ELSE answered
    /\ UNCHANGED <<file, tmp, content, page, boot>>

NewNode(level, above) ==
    [born |-> edits + 1, id |-> edits + 1, level |-> level,
     under |-> above \cup {edits + 1}, name |-> "own", mark |-> 0]

CreatePlant(p) == Edit(p, {}, {NewNode(1, {})})

(* An area of a plant, a piece of equipment of an area. *)
CreateChild(p, n) ==
    /\ n.level < Levels
    /\ Edit(p, {}, {NewNode(n.level + 1, n.under)})

(* A name, a device or a screen is set. *)
Update(p, n) == Edit(p, {n}, {[n EXCEPT !.name = "own", !.mark = edits + 1]})

Delete(p, n) == Edit(p, Below(n), {})

(* The plant of the demo file is added unless one has its name. *)
DemoTree ==
    {[born |-> edits + l, id |-> -l, level |-> l, under |-> {edits + k : k \in 1 .. l},
      name |-> "demo", mark |-> 0] : l \in 1 .. Levels}

LoadDemo(p) ==
    Edit(p, {}, IF \E n \in Load : n.level = 1 /\ n.name = "demo" THEN {} ELSE DemoTree)

(* A browser reads the tree, and saves its copy over whatever is there. *)
Show(u) ==
    /\ \E p \in Procs : Free(p)
    /\ Input
    /\ page' = [page EXCEPT ![u] = Load]
    /\ UNCHANGED <<file, tmp, content, screen, edits, answered, raced, boot, loop>>

PutTree(p, u) == Edit(p, Load, page[u])

-----------------------------------------------------------------------------
(* Mutant: the file itself is opened for writing. *)
Slip_Target == file

(* The temporary file, which another process may have made. *)
Target == tmp

OpenTmp(p) ==
    /\ ScreenAt(p, "open")
    /\ LET fresh == CHOOSE f \in Files :
                        f \notin {file, tmp} \cup {screen[q].fd : q \in Procs \ {p}}
           fd == IF Target = 0 THEN fresh ELSE Target
       IN /\ tmp' = fd
          /\ content' = [content EXCEPT ![fd] = Cut]
          /\ screen' = [screen EXCEPT ![p].at = "write", ![p].fd = fd]
    /\ UNCHANGED <<file, page, edits, answered, raced, processVars>>

(* What another process has written since the file was opened may stick out *)
(* behind this text.  The file may be the screens file by now.              *)
WriteTmp(p) ==
    /\ ScreenAt(p, "write")
    /\ \E cut \in {FALSE, screen[p].crossed} :
         content' = [content EXCEPT ![screen[p].fd] = IF cut THEN Cut ELSE screen[p].tree]
    /\ screen' = [q \in Procs |->
                    IF q = p THEN [screen[p] EXCEPT !.at = "replace"]
                    ELSE [screen[q] EXCEPT !.crossed = @ \/ screen[q].fd = screen[p].fd]]
    /\ UNCHANGED <<file, tmp, page, edits, answered, raced, processVars>>

(* The request is answered. *)
Answer(p) ==
    /\ screen' = [screen EXCEPT ![p] = NoScreen]
    /\ Leaves(p)
    /\ UNCHANGED <<content, page, edits, raced, boot, inputs>>

Replace(p) ==
    /\ ScreenAt(p, "replace") /\ tmp # 0
    /\ file' = tmp
    /\ tmp' = 0
    /\ answered' = (answered \ screen[p].drop) \cup screen[p].add
    /\ Answer(p)

(* The other process has replaced the temporary file away: 500. *)
ReplaceFails(p) ==
    /\ ScreenAt(p, "replace") /\ tmp = 0
    /\ UNCHANGED <<file, tmp, answered>>
    /\ Answer(p)

ScreensCrash ==
    /\ screen' = [p \in Procs |-> NoScreen]
    /\ UNCHANGED <<file, tmp, content, page, edits, answered, raced>>

ScreensNext ==
    \/ \E p \in Procs :
         \/ CreatePlant(p) \/ LoadDemo(p)
         \/ OpenTmp(p) \/ WriteTmp(p) \/ Replace(p) \/ ReplaceFails(p)
         \/ \E n \in Found : CreateChild(p, n) \/ Update(p, n) \/ Delete(p, n)
         \/ \E u \in Pages : PutTree(p, u)
    \/ \E u \in Pages : Show(u)

-----------------------------------------------------------------------------
(* Unless requests of both processes overlap, the file is never short of    *)
(* what the requests answered so far made, at no moment of a save and after *)
(* no crash; a copy saved whole counts as that browser's edit, whatever it  *)
(* had not seen.                                                            *)
ScreensKept == raced \/ answered \subseteq Load
=============================================================================
