------------------------------- MODULE AudioSem -------------------------------
(***************************************************************************)
(* The counting semaphore of the platform layer, as every component of the *)
(* audio server sees it.  A semaphore is a number of permits.  It starts   *)
(* with SemInit permits and never holds more than SemMax:                  *)
(*   Linux     sem_init(sem, 0, 1)           SemInit = 1, no practical max *)
(*   RT-Thread rt_sem_create("os_sem", 1, .) SemInit = 1, no practical max *)
(*   FreeRTOS  rkos_semaphore_create(1, 0)   SemInit = 0, SemMax = 1       *)
(* A give on a full semaphore is dropped, as FreeRTOS does.                *)
(***************************************************************************)
EXTENDS Naturals

CONSTANTS SemInit, SemMax

ASSUME SemAssumption == /\ SemInit \in Nat
                        /\ SemMax \in Nat \ {0}
                        /\ SemInit <= SemMax

Permits == 0 .. SemMax

\* audio_semaphore_give
SemGive(n) == IF n < SemMax THEN n + 1 ELSE n

\* audio_semaphore_take returns at once; with no permit it blocks
SemAvailable(n) == n > 0

SemTake(n) == n - 1
================================================================================
