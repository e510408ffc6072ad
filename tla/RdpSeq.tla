------------------------------- MODULE RdpSeq -------------------------------
(***************************************************************************)
(* The 16-bit sequence arithmetic of transport/csp_rdp.c.  C evaluates a   *)
(* sum of uint16_t operands as an int (or uint32_t) and truncates it when  *)
(* it becomes a uint16_t argument, which is what Mod16 does.               *)
(***************************************************************************)
EXTENDS Integers

SeqNr == 0 .. 65535

\* Mutant: no truncation.
Mod16_None(i) == i

Mod16(i) == i % 65536

\* csp_rdp_seq_between: seq lies between start and end, both inclusive.
Between(seq, start, end) == Mod16(end - start) >= Mod16(seq - start)

\* csp_rdp_seq_before: (int16_t)(seq - cmp) < 0.
Before(seq, cmp) == Mod16(seq - cmp) >= 32768

\* csp_rdp_seq_after
After(seq, cmp) == Before(cmp, seq)

=============================================================================
