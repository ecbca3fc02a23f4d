--------------------------- MODULE MCKernelMutex ---------------------------
(* Instances of KernelMutex for TLC.                                       *)
EXTENDS KernelMutex

CONSTANTS idle, low, other, mid, high, ma, mb

Base == [t \in Tasks |-> CASE t = idle -> 0 [] t \in {low, other} -> 1
                           [] t = mid -> 2 [] OTHER -> 3]

(* Every task but the idle one asks for every mutex, with every wait.      *)
Every == [t \in Tasks |-> IF t = idle THEN {} ELSE Call]

Timeouts == [t \in Tasks |-> IF t = idle THEN {}
                             ELSE [mutex : Mutexes, ticks : {"finite"}]]

(* low takes ma; other takes mb and waits for ma; high gives up on either.    *)
Chain == [t \in Tasks |->
            CASE t = low -> {[mutex |-> ma, ticks |-> "zero"]}
              [] t = other -> {[mutex |-> mb, ticks |-> "zero"], [mutex |-> ma, ticks |-> "max"]}
              [] t = mid -> {[mutex |-> ma, ticks |-> "max"]}
              [] t = high -> {[mutex |-> ma, ticks |-> "finite"], [mutex |-> mb, ticks |-> "finite"]}
              [] OTHER -> {}]
=============================================================================
