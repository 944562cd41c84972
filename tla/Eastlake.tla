------------------------------ MODULE Eastlake ------------------------------
(***************************************************************************)
(* The kernel's persistent objects, as the programs of this repository use *)
(* them through the system calls of include/eastlake.h.  The kernel is not *)
(* part of the repository: each operator says what the callers rely on.    *)
(*                                                                         *)
(* An object has a name and a list of chunks in the order they were added. *)
(* Objects are durable; descriptors belong to a process and die with it.   *)
(***************************************************************************)
EXTENDS Naturals, Sequences

CONSTANTS
  Names,   \* names of objects
  Addrs,   \* addresses of chunks
  Pods     \* descriptors

VARIABLES
  objects,     \* name -> addresses of its chunks, for the objects there are
  descriptors  \* descriptor -> name, for the open descriptors

kernel == <<objects, descriptors>>

\* Functions with a changing domain: the std::maps of the callers too.
Empty == [x \in {} |-> x]
With(f, k, v) == [x \in DOMAIN f \cup {k} |-> IF x = k THEN v ELSE f[x]]
Without(f, k) == [x \in DOMAIN f \ {k} |-> f[x]]

InUse == UNION {{objects[n][i] : i \in 1..Len(objects[n])} : n \in DOMAIN objects}
FreeAddrs == Addrs \ InUse
FreePods == Pods \ DOMAIN descriptors

\* Creates and opens; fails when the name is taken.
po_creat(name, pod) ==
  /\ name \notin DOMAIN objects
  /\ objects' = With(objects, name, <<>>)
  /\ descriptors' = With(descriptors, pod, name)

\* descriptors' is the caller's: it may close one in the same step.
po_unlink(name) ==
  /\ name \in DOMAIN objects
  /\ objects' = Without(objects, name)

\* With O_CREAT a missing object is made.
Opened(name) == IF name \in DOMAIN objects THEN objects ELSE With(objects, name, <<>>)

po_close(pod) ==
  /\ pod \in DOMAIN descriptors
  /\ descriptors' = Without(descriptors, pod)

\* A new chunk goes to the end of the list.
po_extend(pod, addr) ==
  LET name == descriptors[pod]
  IN  /\ addr \in FreeAddrs
      /\ objects' = With(objects, name, Append(objects[name], addr))

ChunkRemoved(chunks, i) == SubSeq(chunks, 1, i - 1) \o SubSeq(chunks, i + 1, Len(chunks))

po_shrink(pod, addr) ==
  LET name == descriptors[pod]
  IN  \E i \in 1..Len(objects[name]) :
        /\ objects[name][i] = addr
        /\ objects' = With(objects, name, ChunkRemoved(objects[name], i))

=============================================================================
