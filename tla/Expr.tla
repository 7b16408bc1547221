-------------------------------- MODULE Expr --------------------------------
(***************************************************************************)
(* The expression evaluator of the debugger                                *)
(* (core/csrc/monitor/sdb/expr.c) over token sequences: what make_token    *)
(* has recognised, with registers and hexadecimal numbers already          *)
(* numbers.  Words have Width bits.  Evaluation has three outcomes: a      *)
(* value, success = false, or the end of the simulator (panic, or the      *)
(* trap of the one signed division that overflows).                        *)
(***************************************************************************)
EXTENDS Integers, Sequences

CONSTANTS
  Width,              \* 32
  Mem(_),             \* the word pmem_read returns for an address
  Readable(_),        \* whether it has memory or a device there; else it panics
  Leaves,             \* numbers
  MaxOps,             \* bound on the operators of an expression
  Alphabet,           \* tokens
  MaxTokens           \* bound on their number; the array of the source has 65536

ASSUME WidthAssumption == Width \in Nat \ {0} /\ MaxTokens \in Nat /\ MaxOps \in Nat

VARIABLES
  tokens,             \* a string of tokens, whatever they are
  built,              \* expressions, the one built last at the end
  ops                 \* the operators in them

treeVars == <<built, ops>>
exprVars == <<tokens, built, ops>>

Modulus == 2^Width
Wrap(v) == v % Modulus
Signed(v) == IF v >= Modulus \div 2 THEN v - Modulus ELSE v

\* A token: a number, or its type.  INV and DEREF are what expr makes of a
\* '-' and a '*' without a left operand.
Num(v) == [type |-> "num", val |-> v]
Tok(t) == [type |-> t, val |-> 0]

is_operator(t) == t \in {"-", "+", "*", "/", "==", "!=", "&&"}

op_hirc(t) ==
  CASE t \in {"INV", "DEREF"} -> 1
    [] t \in {"*", "/"}       -> 2
    [] t \in {"+", "-"}       -> 3
    [] t \in {"==", "!="}     -> 4
    [] t = "&&"               -> 5
    [] OTHER                  -> 0

\* The count of open parentheses in tokens a..b of ts.
Open(ts, a, b) ==
  LET c[i \in (a - 1)..b] ==
        IF i < a THEN 0
        ELSE c[i - 1] + CASE ts[i].type = "(" -> 1
                          [] ts[i].type = ")" -> -1
                          [] OTHER -> 0
  IN  c

\* Whether ts[p..q] is surrounded by one pair of parentheses, and whether its
\* parentheses match.
check_parentheses(ts, p, q) ==
  IF ts[p].type # "(" \/ ts[q].type # ")" THEN [ret |-> FALSE, ok |-> TRUE]
  ELSE LET c == Open(ts, p + 1, q - 1)
       IN  [ret |-> \A i \in (p + 1)..(q - 1) : c[i] # -1,
            ok  |-> c[q - 1] = 0 /\ \A i \in (p + 1)..(q - 1) : c[i] >= -1]

\* Mutation of find_main_op: the leftmost of the loosest operators.
find_main_op_left(ts, p, q) ==
  LET c    == Open(ts, p, q)
      free == {i \in p..q : c[i] = c[q] /\ op_hirc(ts[i].type) > 0}
      top  == {i \in free : \A j \in free : op_hirc(ts[j].type) <= op_hirc(ts[i].type)}
  IN  IF free = {} THEN 0 ELSE CHOOSE i \in top : \A j \in top : i <= j

\* The rightmost of the loosest operators outside parentheses, seen from the
\* right (musk = 0); 0 if there is none.
find_main_op(ts, p, q) ==
  LET c    == Open(ts, p, q)
      free == {i \in p..q : c[i] = c[q] /\ op_hirc(ts[i].type) > 0}
      top  == {i \in free : \A j \in free : op_hirc(ts[j].type) <= op_hirc(ts[i].type)}
  IN  IF free = {} THEN 0 ELSE CHOOSE i \in top : \A j \in top : j <= i

Panic   == [s |-> "panic", v |-> 0]
Failed  == [s |-> "fail", v |-> 1]
Value(v) == [s |-> "ok", v |-> v]

Bool(b) == IF b THEN 1 ELSE 0
Abs(n)  == IF n < 0 THEN -n ELSE n

\* C's division truncates; the most negative number by -1 traps.
Divide(a, b) ==
  LET x == Signed(a)
      y == Signed(b)
      q == Abs(x) \div Abs(y)
  IN  IF y = -1 /\ x = -(Modulus \div 2) THEN Panic
      ELSE Value(Wrap(IF (x < 0) = (y < 0) THEN q ELSE -q))

\* The switch of eval, for an operator with operands a and b.
Apply(t, a, b) ==
  CASE t = "+"     -> Value(Wrap(a + b))
    [] t = "-"     -> Value(Wrap(a - b))
    [] t = "*"     -> Value(Wrap(a * b))
    [] t = "/"     -> IF b = 0 THEN Failed ELSE Divide(a, b)
    [] t = "=="    -> Value(Bool(a = b))
    [] t = "!="    -> Value(Bool(a # b))
    [] t = "&&"    -> Value(Bool(a # 0 /\ b # 0))
    [] t = "INV"   -> Value(Wrap(-b))
    [] t = "DEREF" -> IF Readable(b) THEN Value(Mem(b)) ELSE Panic

\* Mutation of Single: any token counts as a number.
Single_unchecked(k, s) == [s |-> s, v |-> k.val]

\* One token: only a number has a value.
Single(k, s) == [s |-> IF k.type = "num" THEN s ELSE "fail", v |-> k.val]

Calls(ts) == (1..(Len(ts) + 1)) \X (0..Len(ts)) \X {"ok", "fail", "panic"}

\* The body of eval for the call c = <<p, q, s>>, where *success = (s = "ok") on
\* entry, if e is what the calls it makes return.  A failure is remembered, but
\* evaluation goes on, and may still panic, until it needs another operator.
EvalBody(e, ts, c) ==
  LET p == c[1]
      q == c[2]
      s == c[3]
      paren == check_parentheses(ts, p, q)
      s1 == IF paren.ok THEN s ELSE "fail"
      op == find_main_op(ts, p, q)
      left  == IF op = p THEN [s |-> s1, v |-> 0] ELSE e[<<p, op - 1, s1>>]
      right == e[<<op + 1, q, left.s>>]
      r     == Apply(ts[op].type, left.v, right.v)
  IN  IF p > q THEN Panic
      ELSE IF p = q THEN Single(ts[p], s)
      ELSE IF paren.ret THEN e[<<p + 1, q - 1, s1>>]
      ELSE IF op = 0 \/ s1 # "ok" THEN Failed
      ELSE IF left.s = "panic" \/ right.s = "panic" THEN Panic
      ELSE IF r.s # "ok" THEN r
      ELSE [s |-> right.s, v |-> r.v]

\* Every call has fewer tokens than its caller, so Len(ts) + 1 levels suffice.
eval(ts, p, q, s) ==
  LET level[n \in 0..(Len(ts) + 1)] ==
        IF n = 0 THEN [c \in Calls(ts) |-> Panic]
        ELSE [c \in Calls(ts) |-> EvalBody(level[n - 1], ts, c)]
  IN  level[Len(ts) + 1][<<p, q, s>>]

\* One token of the pass of expr: before is the token on its left, or an opening
\* parenthesis if it is the first.
Marked(k, before) ==
  IF k.type \in {"*", "-"} /\ (is_operator(before.type) \/ before.type = "(")
  THEN Tok(IF k.type = "*" THEN "DEREF" ELSE "INV")
  ELSE k

\* The pass looks at types it has already rewritten: after a sign the next '-' is
\* not one.
Rewrite(ts) ==
  LET new[i \in 0..Len(ts)] == IF i = 0 THEN Tok("(") ELSE Marked(ts[i], new[i - 1])
  IN  [i \in 1..Len(ts) |-> new[i]]

expr(ts) == eval(Rewrite(ts), 1, Len(ts), "ok")

----------------------------------------------------------------------------
(* Expressions, built as on a stack: the tokens of each as a user writes   *)
(* them, with the fewest parentheses the precedences of C need; the level  *)
(* of its last operator; what it means in C; what it means if no operand   *)
(* is passed over; and whether a sign or star follows another in it.       *)

Binary == {"+", "-", "*", "/", "==", "!=", "&&"}
Unary  == {"INV", "DEREF"}

\* The levels of C: the lower, the tighter.
Level(t) == CASE t \in Unary -> 1 [] t \in {"*", "/"} -> 2 [] t \in {"+", "-"} -> 3
              [] t \in {"==", "!="} -> 4 [] OTHER -> 5

Paren(need, ts) == IF need THEN <<Tok("(")>> \o ts \o <<Tok(")")>> ELSE ts

\* A failure anywhere is a failure of the whole.
Strict(t, l, r) ==
  IF l.s # "ok" THEN l ELSE IF r.s # "ok" THEN r ELSE Apply(t, l.v, r.v)

\* In C the right operand of && is not evaluated if the left one is 0.
Meaning(t, l, r) ==
  IF t = "&&" /\ l = Value(0) THEN Value(0) ELSE Strict(t, l, r)

Leaf(v) == [text |-> <<Num(v)>>, level |-> 0, mean |-> Value(v), strict |-> Value(v),
            doubled |-> FALSE]

Prefix(t, x) ==
  [text    |-> <<Tok(IF t = "INV" THEN "-" ELSE "*")>> \o Paren(x.level > 1, x.text),
   level   |-> 1,
   mean    |-> Meaning(t, Value(0), x.mean),
   strict  |-> Strict(t, Value(0), x.strict),
   doubled |-> x.doubled \/ x.level = 1]

Infix(t, x, y) ==
  [text    |-> Paren(x.level > Level(t), x.text) \o <<Tok(t)>>
                 \o Paren(y.level >= Level(t), y.text),
   level   |-> Level(t),
   mean    |-> Meaning(t, x.mean, y.mean),
   strict  |-> Strict(t, x.strict, y.strict),
   doubled |-> x.doubled \/ y.doubled]

TreeInit == built = << >> /\ ops = 0

PutNumber(v) ==
  /\ ops + Len(built) <= MaxOps
  /\ built' = Append(built, Leaf(v))
  /\ UNCHANGED ops

PutPrefix(t) ==
  LET n == Len(built)
  IN  /\ n > 0 /\ ops + n <= MaxOps
      /\ built' = [built EXCEPT ![n] = Prefix(t, built[n])]
      /\ ops' = ops + 1

PutInfix(t) ==
  LET n == Len(built)
  IN  /\ n > 1
      /\ built' = Append(SubSeq(built, 1, n - 2), Infix(t, built[n - 1], built[n]))
      /\ ops' = ops + 1

Build ==
  \/ \E v \in Leaves : PutNumber(v)
  \/ \E t \in Unary : PutPrefix(t)
  \/ \E t \in Binary : PutInfix(t)

TreeSpec == TreeInit /\ [][Build]_treeVars

(* A value expr gives is the one the expression has in C: precedence,      *)
(* association to the left, signs and stars as first operand or after an   *)
(* operator, parentheses only where C needs them.  And it says exactly     *)
(* when expr gives none: if a division or a dereference anywhere has no    *)
(* value, in an operand && would pass over in C too, or if a sign or star  *)
(* stands directly before another (- -3, **p), which C allows and the pass *)
(* of expr does not recognise.                                             *)
EvaluatesTree ==
  \A i \in 1..Len(built) :
    LET x   == built[i]
        got == expr(x.text)
    IN  /\ got.s = "ok" <=> x.strict.s = "ok" /\ ~x.doubled
        /\ got.s = "ok" => x.mean = Value(got.v)

----------------------------------------------------------------------------
(* Every sequence of tokens, most of which are no expressions.             *)

TypeInit == tokens = << >>

Type ==
  /\ Len(tokens) < MaxTokens
  /\ \E k \in Alphabet : tokens' = Append(tokens, k)

TypeSpec == TypeInit /\ [][Type]_tokens

Ends(k) == k.type = "num" \/ k.type = ")"

(* A string expr gives a value for is an expression but for a missing left *)
(* operand, which counts as 0: its parentheses match and are not empty, no *)
(* two operands stand side by side, and none is missing on the right of an *)
(* operator.                                                               *)
AcceptsExpressions ==
  expr(tokens).s = "ok" =>
    LET n == Len(tokens)
        c == Open(tokens, 1, n)
    IN  /\ c[n] = 0 /\ \A i \in 1..n : c[i] >= 0
        /\ Ends(tokens[n])
        /\ \A i \in 1..(n - 1) :
             IF Ends(tokens[i]) THEN tokens[i + 1].type \notin {"num", "("}
                                ELSE tokens[i + 1].type # ")"
=============================================================================
