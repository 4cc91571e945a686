------------------------- MODULE SequentialSession -------------------------
(***************************************************************************)
(* What a user of the command interpreter expects of a session: between    *)
(* two instructions of the sequential machine, each command takes effect   *)
(* at once and for all that follows.  A command may make an implementation *)
(* diverge.  initialize gives even a machine that has diverged its start   *)
(* address back; of the registers, the one whose write it finds under way  *)
(* may keep what it held before.                                           *)
(***************************************************************************)
EXTENDS SequentialMachine

CONSTANT Outside  \* an address beyond memory

VARIABLE command  \* the command just given, <<>> once the machine runs

svars == <<vars, command>>

OrDiverges(effect) == effect \/ pc' = Diverged

Load ==
    \E image \in Programs, words \in 1 .. PCTop :
        /\ command' = <<"load", image, words>>
        /\ code' = [a \in PC |-> IF a < words THEN image[a] ELSE code[a]]
        /\ OrDiverges(UNCHANGED <<pc, regs>>)

Setpc ==
    \E p \in PC :
        /\ command' = <<"setpc", p>>
        /\ OrDiverges(pc # Diverged /\ pc' = p /\ UNCHANGED regs)
        /\ UNCHANGED code

\* "setpc: program counter (%llx) must be within memory": it stays where it is.
SetpcOutside ==
    /\ command' = <<"setpc", Outside>>
    /\ OrDiverges(UNCHANGED pc)
    /\ UNCHANGED <<code, regs>>

Writereg ==
    \E r \in Registers, v \in Values :
        /\ command' = <<"writereg", r, v>>
        /\ OrDiverges(regs' = [regs EXCEPT ![r] = IF r = 0 THEN 0 ELSE v] /\ UNCHANGED pc)
        /\ UNCHANGED code

Initialize ==
    /\ command' = <<"initialize">>
    /\ pc' = 0
    /\ \E r \in Registers, v \in Values : regs' = [regs EXCEPT ![r] = IF r = 0 THEN 0 ELSE v]
    /\ UNCHANGED code

SessionNext ==
    \/ (Next \/ UNCHANGED vars) /\ command' = <<>>
    \/ Load \/ Setpc \/ SetpcOutside \/ Writereg \/ Initialize

SessionSpec == Init /\ command = <<>> /\ [][SessionNext]_svars

=============================================================================
