--------------------------- MODULE SpliceRouter ---------------------------
(***************************************************************************)
(* The router (src/hook/splicerouter64.cpp): springboards near hooked      *)
(* procedures, each an item of a node, the nodes in one global list.       *)
(* Threads that create splices take personal routes from it and free them  *)
(* concurrently.  The list and each node have a critical section; a node's *)
(* is only entered under the list's, which therefore stands for both.      *)
(* Nodes and items have addresses, and memory is found for a node near the *)
(* procedure (module NearMemory).                                          *)
(***************************************************************************)
EXTENDS NearMemory, Sequences, FiniteSets

CONSTANTS
  Threads,
  NoThread,     \* nobody is in the critical section of the list
  Jumpers,      \* addresses routes lead to, one for each splice
  Default,      \* the bincode of a free item (0xCC)
  Home,         \* jumper -> the address of the procedure it is for
  Memories      \* the memory a run may begin with

ASSUME ThreadsAssumption == NoThread \notin Threads
ASSUME JumpersAssumption == /\ Default \notin Jumpers
                            /\ Home \in [Jumpers -> JumpSize .. Space - 1]
ASSUME MemoriesAssumption == \A m \in Memories :
                               /\ DOMAIN m \subseteq 0 .. Space \div Page - 1
                               /\ \A p \in DOMAIN m : m[p] \in {"free", "reserved", "used"}

VARIABLES
  pid,     \* GlobalSpliceRouter.pid is the current process
  list,    \* the nodes in the list, in order
  lock,    \* who is in the critical section of the list
  memory,  \* page -> "free", "reserved" or "used"
  nodes,   \* node -> [at, for]: its address, and auxiliary the procedure that
           \* it was allocated for; a node is its number of allocation
  items,   \* node -> item -> [busy, to]: status and bincode
  pc,      \* where each thread is in its call
  job,     \* thread -> its call: [kind, to, item]
  held,    \* jumper -> the item got for it and not freed yet, or None
  shared   \* auxiliary: nodes an item of which was chosen by find_exist while
           \* the call that created the node had not written its own

globalVars == <<pid, list, lock, memory, nodes>>
vars       == <<globalVars, items, pc, job, held, shared>>

Nodes  == 1 .. Len(nodes)
Item   == [node : Nat, index : Nat]
None   == [node |-> 0, index |-> 0]
Blank  == [kind |-> "none", to |-> Default, item |-> None]

\* Where an item is, and its code, which a route is known by.
ItemAddress(i) == nodes[i.node].at + Header + (i.index - 1) * ItemSize
CodeAddress(i) == ItemAddress(i) + 1

ItemsOf(ns) == [node : ns, index : 1 .. NodeItems]

\* Variant: the status is not looked at.
NearItems(ns, from) == {i \in ItemsOf(ns) : IsNear(ItemAddress(i), from, ItemSize)}

\* find_item_free over the given nodes.
FreeItems(ns, from) ==
  {i \in ItemsOf(ns) :
     ~items[i.node][i.index].busy /\ IsNear(ItemAddress(i), from, ItemSize)}

Listed == {list[k] : k \in 1 .. Len(list)}

Position(n) == CHOOSE k \in 1 .. Len(list) : list[k] = n

\* The order in which find_exist meets the items.
Before(i, j) == IF i.node = j.node THEN i.index <= j.index
                                   ELSE Position(i.node) < Position(j.node)

First(found) == CHOOSE i \in found : \A j \in found : Before(i, j)

Goto(t, place) == pc' = [pc EXCEPT ![t] = place]

Finish(t) ==
  /\ Goto(t, "idle")
  /\ job' = [job EXCEPT ![t] = Blank]

---------------------------------------------------------------------------
(* The calls, and __splicerouter_init, which each begins with.             *)

\* The first call returns before another is made.
MayCall == pid \/ \A t \in Threads : pc[t] = "idle"

\* Routes lead to the jumpers of different splices.
Get(t, to) ==
  /\ pc[t] = "idle"
  /\ MayCall
  /\ held[to] = None
  /\ \A u \in Threads : job[u].to # to
  /\ job' = [job EXCEPT ![t] = [kind |-> "get", to |-> to, item |-> None]]
  /\ Goto(t, "init")
  /\ UNCHANGED <<globalVars, items, held, shared>>

Free(t, to) ==
  /\ pc[t] = "idle"
  /\ held[to] # None
  /\ job'  = [job EXCEPT ![t] = [Blank EXCEPT !.kind = "free", !.item = held[to]]]
  /\ held' = [held EXCEPT ![to] = None]
  /\ Goto(t, "init")
  /\ UNCHANGED <<globalVars, items, shared>>

\* The thread's next place once the router is initialised.
Begun(t) == IF job[t].kind = "get" THEN "find" ELSE "free"

InitCheck(t) ==
  /\ pc[t] = "init"
  /\ Goto(t, IF pid THEN Begun(t) ELSE "create")
  /\ UNCHANGED <<globalVars, items, job, held, shared>>

\* list_create: a new critical section and an empty list.
InitCreate(t) ==
  /\ pc[t] = "create"
  /\ list' = << >>
  /\ lock' = NoThread
  /\ Goto(t, "setpid")
  /\ UNCHANGED <<pid, memory, nodes, items, job, held, shared>>

InitDone(t) ==
  /\ pc[t] = "setpid"
  /\ pid' = TRUE
  /\ Goto(t, Begun(t))
  /\ UNCHANGED <<list, lock, memory, nodes, items, job, held, shared>>

---------------------------------------------------------------------------
(* item_find_exist: under the critical sections.                           *)

Enter(t) ==
  /\ pc[t] = "find"
  /\ lock = NoThread
  /\ lock' = t
  /\ Goto(t, "pick")
  /\ UNCHANGED <<pid, list, memory, nodes, items, job, held, shared>>

Choose(t, i, place) ==
  /\ job' = [job EXCEPT ![t].item = i]
  /\ Goto(t, place)

\* The call that created the node has not written its item yet.
Unwritten(n) ==
  \E u \in Threads : /\ pc[u] \in {"picknew", "newcode", "newstatus"}
                     /\ job[u].item.node = n

PickExisting(t) ==
  /\ pc[t] = "pick"
  /\ FreeItems(Listed, Home[job[t].to]) # {}
  /\ LET i == First(FreeItems(Listed, Home[job[t].to]))
     IN  /\ Choose(t, i, "code")
         /\ shared' = IF Unwritten(i.node) THEN shared \cup {i.node} ELSE shared
  /\ UNCHANGED <<globalVars, items, held>>

PickNone(t) ==
  /\ pc[t] = "pick"
  /\ FreeItems(Listed, Home[job[t].to]) = {}
  /\ lock' = NoThread
  /\ Goto(t, "alloc")
  /\ UNCHANGED <<pid, list, memory, nodes, items, job, held, shared>>

SetItem(i, item) == items' = [items EXCEPT ![i.node][i.index] = item]

\* item_set_jumpabs writes the bincode, then the status.
WriteCode(t) ==
  /\ pc[t] \in {"code", "newcode"}
  /\ LET i == job[t].item IN SetItem(i, [items[i.node][i.index] EXCEPT !.to = job[t].to])
  /\ Goto(t, IF pc[t] = "code" THEN "status" ELSE "newstatus")
  /\ UNCHANGED <<globalVars, job, held, shared>>

WriteStatus(t) ==
  /\ pc[t] \in {"status", "newstatus"}
  /\ LET i == job[t].item IN SetItem(i, [items[i.node][i.index] EXCEPT !.busy = TRUE])
  /\ Goto(t, IF pc[t] = "status" THEN "leave" ELSE "return")
  /\ UNCHANGED <<globalVars, job, held, shared>>

\* Variant: the critical section is not left.
LeaveKeepsLock(t) ==
  /\ pc[t] = "leave"
  /\ Goto(t, "return")
  /\ UNCHANGED <<globalVars, items, job, held, shared>>

Leave(t) ==
  /\ pc[t] = "leave"
  /\ lock' = NoThread
  /\ Goto(t, "return")
  /\ UNCHANGED <<pid, list, memory, nodes, items, job, held, shared>>

---------------------------------------------------------------------------
(* item_create_new: the node is attached under the critical section of the *)
(* list, its item is chosen and written outside of any.                    *)

Alloc(t) ==
  /\ pc[t] = "alloc"
  /\ \E a \in {NodeAlloc(memory, Home[job[t].to])} \ {NULL} :
       /\ nodes'  = Append(nodes, [at |-> a, for |-> Home[job[t].to]])
       /\ memory' = Taken(memory, a)
  /\ items'  = Append(items, [k \in 1 .. NodeItems |-> [busy |-> FALSE, to |-> Default]])
  /\ job'    = [job EXCEPT ![t].item = [node |-> Len(nodes) + 1, index |-> 1]]
  /\ Goto(t, "attach")
  /\ UNCHANGED <<pid, list, lock, held, shared>>

AllocFails(t) ==
  /\ pc[t] = "alloc"
  /\ NodeAlloc(memory, Home[job[t].to]) = NULL
  /\ Finish(t)
  /\ UNCHANGED <<globalVars, items, held, shared>>

\* Variant: a new node replaces the list.
AttachInFront(t) ==
  /\ pc[t] = "attach"
  /\ lock = NoThread
  /\ list' = <<job[t].item.node>>
  /\ Goto(t, "picknew")
  /\ UNCHANGED <<pid, lock, memory, nodes, items, job, held, shared>>

Attach(t) ==
  /\ pc[t] = "attach"
  /\ lock = NoThread
  /\ list' = Append(list, job[t].item.node)
  /\ Goto(t, "picknew")
  /\ UNCHANGED <<pid, lock, memory, nodes, items, job, held, shared>>

PickNew(t) ==
  /\ pc[t] = "picknew"
  /\ LET free == FreeItems({job[t].item.node}, Home[job[t].to])
     IN  IF free # {} THEN Choose(t, First(free), "newcode") ELSE Finish(t)
  /\ UNCHANGED <<globalVars, items, held, shared>>

Return(t) ==
  /\ pc[t] = "return"
  /\ held' = [held EXCEPT ![job[t].to] = job[t].item]
  /\ Finish(t)
  /\ UNCHANGED <<globalVars, items, shared>>

---------------------------------------------------------------------------
(* item_destroy: under the critical sections; false when no node of the    *)
(* list has the address.                                                   *)

\* find_item_by_address; an item's last address is the next one's first.
ItemsAt(a) ==
  {i \in ItemsOf(Listed) : ItemAddress(i) <= a /\ a <= ItemAddress(i) + ItemSize}

\* Variant: the bincode is reset and the status is not.
FreedBusy == [busy |-> TRUE, to |-> Default]

\* item_set_default
Freed == [busy |-> FALSE, to |-> Default]

Destroy(t) ==
  /\ pc[t] = "free"
  /\ lock = NoThread
  /\ LET found == ItemsAt(CodeAddress(job[t].item))
     IN  IF found # {} THEN SetItem(First(found), Freed) ELSE UNCHANGED items
  /\ Finish(t)
  /\ UNCHANGED <<globalVars, held, shared>>

---------------------------------------------------------------------------

Init ==
  /\ pid    = FALSE
  /\ list   = << >>
  /\ lock   = NoThread
  /\ memory \in Memories
  /\ nodes  = << >>
  /\ items  = << >>
  /\ pc     = [t \in Threads |-> "idle"]
  /\ job    = [t \in Threads |-> Blank]
  /\ held   = [to \in Jumpers |-> None]
  /\ shared = {}

Step(t) ==
  \/ InitCheck(t) \/ InitCreate(t) \/ InitDone(t)
  \/ Enter(t) \/ PickExisting(t) \/ PickNone(t) \/ WriteCode(t) \/ WriteStatus(t) \/ Leave(t)
  \/ Alloc(t) \/ AllocFails(t) \/ Attach(t) \/ PickNew(t) \/ Return(t)
  \/ Destroy(t)

Next ==
  \E t \in Threads :
    \/ \E to \in Jumpers : Get(t, to) \/ Free(t, to)
    \/ Step(t)

Spec == Init /\ [][Next]_vars

\* Threads are scheduled, and one that waits for a critical section gets it
\* in the end.
Fairness == \A t \in Threads :
              /\ WF_vars(Step(t))
              /\ SF_vars(Enter(t)) /\ SF_vars(Attach(t)) /\ SF_vars(Destroy(t))

FairSpec == Spec /\ Fairness

---------------------------------------------------------------------------
(* Properties.                                                             *)

RouterTypeOK ==
  /\ pid \in BOOLEAN
  /\ nodes \in Seq([at : 1 .. Space - 1, for : {Home[to] : to \in Jumpers}])
  /\ \A p \in DOMAIN memory : memory[p] \in {"free", "reserved", "used"}
  /\ list \in Seq(Nodes)
  /\ lock \in Threads \cup {NoThread}
  /\ items \in [Nodes -> [1 .. NodeItems -> [busy : BOOLEAN, to : Jumpers \cup {Default}]]]
  /\ pc \in [Threads -> {"idle", "init", "create", "setpid", "find", "pick", "alloc", "code",
                         "status", "leave", "attach", "picknew", "newcode", "newstatus",
                         "return", "free"}]
  /\ job \in [Threads -> [kind : {"none", "get", "free"}, to : Jumpers \cup {Default}, item : Item]]
  /\ held \in [Jumpers -> Item]
  /\ shared \subseteq Nodes

ItemAt(i) == items[i.node][i.index]

(* A route is personal (splicerouter64.h:33): until it is freed, it leads  *)
(* to the jumper it was got for, whatever is got and freed meanwhile.      *)
RoutePersonal ==
  \A to \in Jumpers : held[to] # None => ItemAt(held[to]) = [busy |-> TRUE, to |-> to]

(* The only way to break that is to choose an item of a new node before    *)
(* the call that created it has: a route in any other node is personal.    *)
RoutePersonalElsewhere ==
  \A to \in Jumpers :
    held[to] # None /\ held[to].node \notin shared
      => ItemAt(held[to]) = [busy |-> TRUE, to |-> to]

(* A route that was got is in the list, where free_personal finds it: no   *)
(* node is lost when several threads attach theirs.                        *)
HeldIsListed == \A to \in Jumpers : held[to] # None => held[to].node \in Listed

(* An item is busy only for a route that is held, or for a call that is    *)
(* about to return it or to free it.                                       *)
NothingLeaks ==
  \A n \in Nodes, k \in 1 .. NodeItems :
    items[n][k].busy =>
      LET i == [node |-> n, index |-> k]
      IN  \/ \E to \in Jumpers : held[to] = i
          \/ \E t \in Threads : job[t].item = i

(* Nodes are never given back, but they do not pile up: for a procedure    *)
(* no more of them are allocated than the routes in use fill, and one for  *)
(* each thread.                                                            *)
NodesBound ==
  \A to \in Jumpers :
    NodeItems * Cardinality({n \in Nodes : nodes[n].for = Home[to]})
      < Cardinality(Jumpers) + NodeItems * Cardinality(Threads)

(* A near jump from the padding before a procedure, or from its first      *)
(* byte, can be built to the route got for it and leads there.  The build  *)
(* accepts offsets twice as far as a jump goes: it is the router that must *)
(* not give an item beyond, in nodes that were allocated for others too.   *)
JumpsReachRoutes ==
  \A to \in Jumpers :
    held[to] # None =>
      \A from \in {Home[to] - JumpSize, Home[to]} :
        /\ Builds(from, CodeAddress(held[to]))
        /\ Lands(from, CodeAddress(held[to])) = CodeAddress(held[to])

(* Whatever the memory of the program looks like, the search gives room    *)
(* for a node exactly when there is some near the procedure, and gives     *)
(* unused memory, every item of which is near: a route is only refused     *)
(* when there is no place for it.                                          *)
SearchFinds ==
  \A to \in Jumpers :
    LET a == NodeAlloc(memory, Home[to])
    IN  IF HasRoom(memory, Home[to])
        THEN /\ a # NULL
             /\ IsNear(a, Home[to], NodeSize)
             /\ \E status \in {"free", "reserved"} : AllAre(memory, a, NodeSize, status)
        ELSE a = NULL

(* Every call returns, however the threads contend for the list.           *)
CallsEnd == \A t \in Threads : pc[t] # "idle" ~> pc[t] = "idle"
===========================================================================
