------------------------------- MODULE Matching ------------------------------
(***************************************************************************)
(* Input-rule matchers (src/src/matching.rs), as MatchConfig::resolve      *)
(* (src/src/config.rs) yields them: records with `kind` and                *)
(*   exact: bytes        regex: language, the frames the regular           *)
(*   mask:  pattern, mask                expression is found in            *)
(* Regular expressions are the regex crate's; here one is its language.    *)
(***************************************************************************)
EXTENDS Naturals, Sequences

(* The weights of a byte's bits, and the bit of n with weight w. *)
Weights == {1, 2, 4, 8, 16, 32, 64, 128}

Bit(n, w) == (n \div w) % 2

(* `&` on u8. *)
And(a, b) ==
  LET Both(w) == IF Bit(a, w) = 1 /\ Bit(b, w) = 1 THEN w ELSE 0
  IN  Both(1) + Both(2) + Both(4) + Both(8) + Both(16) + Both(32) + Both(64) + Both(128)

(* A mutated Compile that leaves the pattern as it is written. *)
CompileUnmasked(m) == m

(* compile_rules: the pattern of a mask is masked once, at compile time. *)
Compile(m) ==
  IF m.kind = "mask"
  THEN [m EXCEPT !.pattern = [i \in DOMAIN m.pattern |-> And(m.pattern[i], m.mask[i])]]
  ELSE m

(* Matcher::matches *)
Matches(m, line) ==
  CASE m.kind = "exact" -> line = m.bytes
    [] m.kind = "regex" -> line \in m.language
    [] m.kind = "mask"  -> /\ Len(line) = Len(m.pattern)
                           /\ \A i \in DOMAIN line : And(line[i], m.mask[i]) = m.pattern[i]
=============================================================================
