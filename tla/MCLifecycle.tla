----------------------------- MODULE MCLifecycle -----------------------------
(***************************************************************************)
(* A service with two ports over one symlink path.  The configurations     *)
(* swap rules, add and remove ports, and rename one while its link moves   *)
(* from a tty to a PTY and back.                                           *)
(***************************************************************************)
EXTENDS Lifecycle

CONSTANTS a, b, link, c

tty == <<"tty", 0>>

Port(name, transport, symlink, rules) ==
  [name |-> name, transport |-> transport, symlink |-> symlink, rules |-> rules]

OnTty      == <<Port(a, tty, link, 1)>>
MovedToPty == <<Port(b, Pty, link, 1)>>
Both       == <<Port(a, tty, link, 2), Port(b, Pty, None, 1)>>
OnPty      == <<Port(a, Pty, link, 1)>>

MCName == {a, b}
MCPath == {link}
MCConn == {c}
MCFiles == {OnTty, MovedToPty, Both}
PtyFiles == {OnPty, MovedToPty}
=============================================================================
