---------------------------- MODULE ObjectBench ----------------------------
(***************************************************************************)
(* microbenchmarks/test.c: four loops over a list of names, which create,  *)
(* extend, open and delete an object for each.  Each call opens and closes *)
(* the object within itself.  part is the loop main() is in, round the     *)
(* index of the name.                                                      *)
(***************************************************************************)
EXTENDS Benchmark

CONSTANT ponames  \* the names in the file ponames.txt

ASSUME PonamesAssumption == ponames \in Seq(Names) /\ ponames # <<>>

poname == ponames[round]
Loop(k) == Running("test") /\ part = k /\ round <= Len(ponames)
NextName == /\ round' = round + 1
            /\ UNCHANGED <<descriptors, program, place, part, moves, addrs,
                           pattern, written, before>>

my_create ==
  /\ Loop(1) /\ poname \notin DOMAIN objects
  /\ objects' = With(objects, poname, <<>>)
  /\ NextName

\* Writes sixteen times to the first page of the new chunk.
my_append ==
  /\ Loop(2) /\ poname \in DOMAIN objects /\ FreeAddrs # {}
  /\ objects' = With(objects, poname, Append(objects[poname], AnyFree))
  /\ NextName

my_open_and_close ==
  /\ Loop(3) /\ poname \in DOMAIN objects
  /\ UNCHANGED objects
  /\ NextName

my_delete ==
  /\ Loop(4) /\ po_unlink(poname)
  /\ NextName

\* exit(-1) when the call fails; a failed po_extend is not noticed before the
\* write to it.
my_exit ==
  /\ Running("test") /\ round <= Len(ponames)
  /\ \/ part = 1 /\ poname \in DOMAIN objects
     \/ part = 2 /\ FreeAddrs = {}
     \/ part > 1 /\ poname \notin DOMAIN objects
  /\ Gone("none") /\ before' = Empty
  /\ UNCHANGED objects

\* Mutation: the last loop stops before the last name.
test_main_OffByOne ==
  \/ my_create \/ my_append \/ my_open_and_close \/ my_delete \/ my_exit
  \/ /\ Running("test") /\ round > Len(ponames) - (IF part = 4 THEN 1 ELSE 0)
     /\ IF part < 4
        THEN /\ part' = part + 1 /\ round' = 1
             /\ UNCHANGED <<kernel, program, place, moves, addrs, pattern, written,
                            before>>
        ELSE Gone("ended") /\ UNCHANGED <<objects, before>>

\* Four loops over the names, one call each
test_main ==
  \/ my_create \/ my_append \/ my_open_and_close \/ my_delete \/ my_exit
  \/ /\ Running("test") /\ round > Len(ponames)
     /\ IF part < 4
        THEN /\ part' = part + 1 /\ round' = 1
             /\ UNCHANGED <<kernel, program, place, moves, addrs, pattern, written,
                            before>>
        ELSE Gone("ended") /\ UNCHANGED <<objects, before>>

=============================================================================
