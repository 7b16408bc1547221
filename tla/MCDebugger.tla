----------------------------- MODULE MCDebugger -----------------------------
(***************************************************************************)
(* The debugger for TLC: its commands on a pool small enough to fill and   *)
(* long enough for a deletion in the middle of the list, and its           *)
(* expressions, as trees that grow and as strings of tokens.  part is the  *)
(* one that moves.                                                         *)
(***************************************************************************)
EXTENDS Debugger, Expr

VARIABLE part

MCMem(a) == Wrap(3 * a + 1)

MCReadable(a) == a < 12

MCAlphabet == {Num(2), Tok("+"), Tok("*"), Tok("/"), Tok("("), Tok(")")}

SdbInit ==
  /\ part \in {"commands", "trees", "strings"}
  /\ Init /\ TreeInit /\ TypeInit
  /\ part # "commands" => ~batch /\ value = [e \in Exprs |-> 0]

SdbNext ==
  /\ UNCHANGED part
  /\ \/ part = "commands" /\ Next /\ UNCHANGED exprVars
     \/ part = "trees" /\ Build /\ UNCHANGED <<vars, tokens>>
     \/ part = "strings" /\ Type /\ UNCHANGED <<vars, treeVars>>

SdbSpec == SdbInit /\ [][SdbNext]_<<part, vars, exprVars>>
=============================================================================
