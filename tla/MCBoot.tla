-------------------------------- MODULE MCBoot --------------------------------
(* Instance of Boot for TLC: addresses above 1 MiB, where linker.ld puts     *)
(* the kernel, and two masks.                                               *)
EXTENDS Boot
MCAddress == [isr0_stub |-> 1048640, isr13_stub |-> 1048658, isr14_stub |-> 1048682,
              irq0_stub |-> 1048706, irq1_stub |-> 1048722, syscall_stub |-> 1048730]
MCTssAddress == 1122432
MCStackTops == {1134632}
MCBiosMasks == {0, 184}
=============================================================================
