-------------------------------- MODULE Vme --------------------------------
(***************************************************************************)
(* Address spaces of the native port (abstract-machine/am/src/native/      *)
(* vme.c).  A space is a hash of its pages and a list of them, linked by   *)
(* hand; a process has the pages of the space it is in mapped by mmap, and *)
(* changes them page by page when it switches.  The page records are in    *)
(* memory all processes share, the mappings are each process's own.        *)
(***************************************************************************)
EXTENDS Naturals

CONSTANTS
  CPU,                \* the processes
  Space,              \* address spaces that protect() has made
  Va, Pa,             \* pages
  NULL,
  MaxMaps             \* bound on the calls of map

PageMap == Space \X Va                \* one per space and page, from pgalloc

ASSUME NullAssumption == NULL \notin Space \cup Pa /\ NULL \notin PageMap

VARIABLES
  head,               \* VMHead.head
  next,               \* PageMap.next
  pa,                 \* PageMap.pa, NULL for a page that is not in the hash
  is_mapped,          \* PageMap.is_mapped
  vm_head,            \* thiscpu->vm_head
  host,               \* what each process has mapped
  sw,                 \* __am_switch: where it is, and its loop variable
  maps,               \* history: the calls of map so far
  twice,              \* history: spaces map was called for with a page they had
  strays              \* history: processes whose space another one has used too

vmeHistory == <<maps, twice, strays>>
vmeVars == <<head, next, pa, is_mapped, vm_head, host, sw, vmeHistory>>

Idle == [at |-> "idle", pp |-> NULL, to |-> NULL]

VmeInit ==
  /\ head = [s \in Space |-> NULL]
  /\ next = [p \in PageMap |-> NULL]
  /\ pa = [p \in PageMap |-> NULL]
  /\ is_mapped = [p \in PageMap |-> FALSE]
  /\ vm_head = [c \in CPU |-> NULL]
  /\ host = [c \in CPU |-> [v \in Va |-> NULL]]
  /\ sw = [c \in CPU |-> Idle]
  /\ maps = 0
  /\ twice = {}
  /\ strays = {}

\* Process d is in space s, or on its way there.
In(d, s) == vm_head[d] = s \/ (sw[d].at # "idle" /\ sw[d].to = s)

Others(c, s) == {d \in CPU \ {c} : In(d, s)}

\* The page is mapped at once only in the space the process is in.
map_now(c, s) == vm_head[c] = s

\* Mutation of link: the head is moved first.
link_swapped(s, pp) == pp

\* pp->next, before the head moves to pp
link(s, pp) == head[s]

\* The record of a page the space has already is found in the hash and linked
\* a second time.
map(c, s, v, p) ==
  LET pp == <<s, v>>
  IN  /\ sw[c].at = "idle"
      /\ maps < MaxMaps
      /\ pa' = [pa EXCEPT ![pp] = p]
      /\ next' = [next EXCEPT ![pp] = link(s, pp)]
      /\ head' = [head EXCEPT ![s] = pp]
      /\ is_mapped' = [is_mapped EXCEPT ![pp] = map_now(c, s)]
      /\ host' = IF map_now(c, s) THEN [host EXCEPT ![c][v] = p] ELSE host
      /\ maps' = maps + 1
      /\ twice' = IF pa[pp] = NULL THEN twice ELSE twice \cup {s}
      /\ strays' = strays \cup Others(c, s)
      /\ UNCHANGED <<vm_head, sw>>

----------------------------------------------------------------------------
(* __am_switch, one page at a time *)

First(s) == IF s = NULL THEN NULL ELSE head[s]

\* Mutation of am_switch: the old pages stay.
am_switch_no_unmap(c, s) ==
  /\ sw[c].at = "idle" /\ vm_head[c] # s
  /\ sw' = [sw EXCEPT ![c] = [at |-> "map", pp |-> First(s), to |-> s]]
  /\ strays' = IF s = NULL \/ Others(c, s) = {} THEN strays
               ELSE strays \cup Others(c, s) \cup {c}
  /\ UNCHANGED <<head, next, pa, is_mapped, vm_head, host, maps, twice>>

\* A switch to the space the process is in changes nothing.
am_switch(c, s) ==
  /\ sw[c].at = "idle" /\ vm_head[c] # s
  /\ sw' = [sw EXCEPT ![c] = [at |-> "unmap", pp |-> First(vm_head[c]), to |-> s]]
  /\ strays' = IF s = NULL \/ Others(c, s) = {} THEN strays
               ELSE strays \cup Others(c, s) \cup {c}
  /\ UNCHANGED <<head, next, pa, is_mapped, vm_head, host, maps, twice>>

unmap_page(c) ==
  LET pp == sw[c].pp
  IN  /\ sw[c].at = "unmap" /\ pp # NULL
      /\ host' = IF is_mapped[pp] THEN [host EXCEPT ![c][pp[2]] = NULL] ELSE host
      /\ is_mapped' = [is_mapped EXCEPT ![pp] = FALSE]
      /\ sw' = [sw EXCEPT ![c].pp = next[pp]]
      /\ UNCHANGED <<head, next, pa, vm_head, vmeHistory>>

unmapped(c) ==
  /\ sw[c].at = "unmap" /\ sw[c].pp = NULL
  /\ sw' = [sw EXCEPT ![c].at = "map", ![c].pp = First(sw[c].to)]
  /\ UNCHANGED <<head, next, pa, is_mapped, vm_head, host, vmeHistory>>

map_page(c) ==
  LET pp == sw[c].pp
  IN  /\ sw[c].at = "map" /\ pp # NULL
      /\ host' = [host EXCEPT ![c][pp[2]] = pa[pp]]
      /\ is_mapped' = [is_mapped EXCEPT ![pp] = TRUE]
      /\ sw' = [sw EXCEPT ![c].pp = next[pp]]
      /\ UNCHANGED <<head, next, pa, vm_head, vmeHistory>>

switched(c) ==
  /\ sw[c].at = "map" /\ sw[c].pp = NULL
  /\ vm_head' = [vm_head EXCEPT ![c] = sw[c].to]
  /\ sw' = [sw EXCEPT ![c] = Idle]
  /\ UNCHANGED <<head, next, pa, is_mapped, host, vmeHistory>>

SwitchStep(c) == unmap_page(c) \/ unmapped(c) \/ map_page(c) \/ switched(c)

VmeNext ==
  \E c \in CPU :
    \/ \E s \in Space, v \in Va, p \in Pa : map(c, s, v, p)
    \/ \E s \in Space \cup {NULL} : am_switch(c, s)
    \/ SwitchStep(c)

(* A process in the middle of a switch goes on with it. *)
VmeSpec == VmeInit /\ [][VmeNext]_vmeVars /\ \A c \in CPU : WF_vmeVars(SwitchStep(c))

----------------------------------------------------------------------------
(* A process that is not switching has exactly the pages of its space      *)
(* mapped: none is left of a space it has been in before, and none is      *)
(* missing or stale, whether map or a switch was to map it and however     *)
(* often.  Unless it has shared a space: is_mapped is one flag for all     *)
(* processes in the space, and what another process maps reaches only that *)
(* one (vme.c:65, 116).                                                    *)
ExactlyItsPages ==
  \A c \in CPU \ strays, v \in Va :
    sw[c].at = "idle" =>
      host[c][v] = IF vm_head[c] = NULL THEN NULL ELSE pa[<<vm_head[c], v>>]

\* The switch of c is out of or into a space with a page mapped twice.
Remapped(c) == {vm_head[c], sw[c].to} \cap twice # {}

(* The record linked a second time closes a cycle in the list (vme.c:113): *)
(* a switch into or out of such a space never ends.                        *)
RemappedHangs ==
  [][\A c \in CPU \ strays : sw[c].at # "idle" /\ sw[c].at' = "idle" => ~Remapped(c)]_vmeVars

(* Every other switch that has begun comes to its end, whatever the other  *)
(* processes map or switch meanwhile; one into or out of a space with a    *)
(* page mapped twice does not.                                             *)
SwitchEnds ==
  /\ \A c \in CPU : sw[c].at # "idle" ~> (sw[c].at = "idle" \/ Remapped(c))
  /\ RemappedHangs
=============================================================================
