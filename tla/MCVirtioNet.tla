----------------------------- MODULE MCVirtioNet -----------------------------
(* The instance of VirtioNet that TLC checks: rings of two slots whose     *)
(* indices wrap at four, driven past the wrap on one queue, then both.     *)
EXTENDS VirtioNet

Load(rx, tx, frames, again, odd) ==
    [rx |-> rx, tx |-> tx, frames |-> frames, lives |-> again, odd |-> odd]

MCWorkloads == {Load(0, 5, 0, 1, FALSE), Load(5, 0, 5, 1, FALSE),
                Load(2, 1, 2, 0, TRUE), Load(0, 3, 0, 1, TRUE),
                Load(1, 1, 1, 2, TRUE), Load(2, 0, 2, 1, TRUE)}
=============================================================================
