-------------------------- MODULE AllocatorExample --------------------------
(***************************************************************************)
(* src/app/allocator-example.c: a fixed sequence of calls that checks what *)
(* the allocators return.                                                  *)
(***************************************************************************)
EXTENDS AllocatorOps

VARIABLES line,     \* which call of main is next
          state,    \* of memory
          blk,
          failed    \* malloc or mmap failed at some time

examplevars == <<line, state, blk, failed>>

\* Each call with what is said of its result: "null", "some" or "any".
Repeat(n, call) == [k \in 1 .. n |-> call]
main ==
    <<<<"allocate", "malloc", entry_size, "any">>, <<"deallocate", "malloc">>,
      <<"new", "stack">>, <<"allocate", "stack", 2 * entry_size, "null">> >>
    \o Repeat(num_entries, <<"allocate", "stack", entry_size, "some">>)
    \o <<<<"deallocate", "stack">>,
         <<"allocate", "stack", entry_size, "some">>,
         <<"allocate", "stack", entry_size, "null">>,
         <<"free", "stack">>,
         <<"fallback", entry_size>>,
         <<"new", "spinlock">>, <<"allocate", "spinlock", entry_size, "some">>,
         <<"owns", "spinlock">>, <<"deallocate", "spinlock">>, <<"free", "spinlock">>,
         <<"allocate", "dma", 1, "any">>, <<"deallocate", "dma">>,
         <<"allocate", "dma", 2 * HUGE, "any">>, <<"deallocate", "dma">>,
         <<"allocate", "dma", 4 * HUGE, "any">>, <<"deallocate", "dma">> >>

ExampleInit == line = 1 /\ state = Fresh /\ blk = mem_blk(0, 0) /\ failed = FALSE

Line(kind) == line <= Len(main) /\ state.status = "running" /\ main[line][1] = kind
              /\ line' = line + 1

\* The result r of a call, checked.
Checked(r, check) ==
    /\ blk' = r[1]
    /\ state' = IF <<check, r[1].ptr = 0>> \in {<<"null", FALSE>>, <<"some", TRUE>>}
              THEN Ends(r[2], "error") ELSE r[2]
AllocateCall ==
    /\ Line("allocate")
    /\ \E r \in Allocate(main[line][2], state, main[line][3]) :
        /\ Checked(r, main[line][4])
        /\ failed' = (failed \/ (main[line][2] \in {"malloc", "dma"} /\ r[1].ptr = 0))
DeallocateCall ==
    /\ Line("deallocate")
    /\ state' = Deallocate(main[line][2], state, blk)
    /\ blk' = mem_blk(0, 0)
    /\ UNCHANGED failed
\* The next call goes through a null pointer if there is no stack.
NewCall ==
    /\ Line("new")
    /\ \E m \in New(main[line][2], state, "malloc") :
        /\ state' = IF m.base = NULL THEN Ends(m, "undefined") ELSE m
        /\ failed' = (failed \/ m.base = NULL)
    /\ UNCHANGED blk
FreeCall ==
    /\ Line("free")
    /\ state' = FreeAllocator(main[line][2], state, "malloc")
    /\ UNCHANGED <<blk, failed>>
\* Allocate from null and malloc, check, and give the block back.
FallbackCall ==
    /\ Line("fallback")
    /\ LET fb == <<"null", "malloc">>
       IN  \E m \in fallback_allocator_new(state) :
           \E r \in IF m.status = "running" THEN fallback_allocator_allocate(fb, m, main[line][2])
                   ELSE {<<mem_blk(0, 0), m>>} :
            /\ state' = IF r[1].ptr = 0 THEN Ends(r[2], "error")
                      ELSE fallback_allocator_free(fallback_allocator_deallocate(fb, r[2], r[1]))
            /\ failed' = (failed \/ r[1].ptr = 0)
    /\ blk' = mem_blk(0, 0)
OwnsCall ==
    /\ Line("owns")
    /\ state' = IF Owns(main[line][2], state, blk) THEN state ELSE Ends(state, "error")
    /\ UNCHANGED <<blk, failed>>

ExampleNext == AllocateCall \/ DeallocateCall \/ NewCall \/ FreeCall \/ FallbackCall \/ OwnsCall
ExampleSpec == ExampleInit /\ [][ExampleNext]_examplevars
-----------------------------------------------------------------------------
\* None of the example's own checks fires ("stack should have one slot left",
\* "stack should be empty", "Should have fallen back to malloc" and the others),
\* unless the system has no memory.
ChecksPass == state.status # "running" => failed
=============================================================================
