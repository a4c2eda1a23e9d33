---------------------------- MODULE PrivateSpaces ----------------------------
(***************************************************************************)
(* Module MemorySet as programs see it.                                    *)
(***************************************************************************)
EXTENDS MemorySet

Private == INSTANCE PrivateMemory WITH
  mem <- [p \in Proc |-> [vpn \in UserVpn |->
            IF life[p] = "live" /\ space[p].pte[vpn] # None
            THEN bytes[space[p].pte[vpn]] ELSE None]],
  Page <- UserVpn

(* What programs see: private memory, cleared when mapped, copied by fork, *)
(* whichever frames the kernel shuffles beneath it.                        *)
PrivateSpec == Private!Spec
=============================================================================
