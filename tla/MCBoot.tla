------------------------------- MODULE MCBoot -------------------------------
(* Boot in 32 units of memory, with a window of two granules.               *)
EXTENDS Boot

R(b, n) == [base |-> b, size |-> n]

MCMemories == { <<R(0, 31)>>, <<R(0, 29)>>, <<R(20, 9), R(0, 13)>>, <<R(0, 5), R(15, 14), R(7, 6)>>,
                <<R(0, 5), R(18, 3)>>, <<R(0, 29), R(4, 24)>> }
MCKernelImage == R(2, 2)
MCDtbs == {R(0, 1), R(5, 2), R(9, 3), R(26, 3)}
MCDevices == << R(31, 1), R(29, 1), R(0, 0) >>

Rsv == {R(b, n) : b \in {0, 4, 7, 10, 14, 17, 21, 27}, n \in {1, 4}}
MCFirmwares == {<< >>} \cup {<<r>> : r \in Rsv} \cup {<<r, s>> : r, s \in Rsv}
=============================================================================
