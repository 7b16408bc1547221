-------------------------------- MODULE Klib --------------------------------
(***************************************************************************)
(* The string functions of abstract-machine/klib/src/string.c on a memory  *)
(* of MemSize bytes.  A pointer is an address; a call reads and writes     *)
(* byte by byte, in the order of its loop, so that overlapping operands    *)
(* see each other.  Loops are recursive functions of their counter.        *)
(***************************************************************************)
EXTENDS Integers

CONSTANTS
  MemSize,            \* bytes of memory
  Byte                \* values of a byte, 0 among them

ASSUME ByteAssumption == MemSize \in Nat \ {0} /\ Byte \subseteq Nat /\ 0 \in Byte

Addr   == 0..(MemSize - 1)
Memory == [Addr -> Byte]

VARIABLES
  mem,
  call                \* the last call: its name, arguments, memory before, result

klibVars == <<mem, call>>

----------------------------------------------------------------------------
(* Loops *)

\* A string ends within memory; a loop that runs off its end is not called.
Terminated(m, s) == \E a \in Addr : a >= s /\ m[a] = 0

\* while (*s++) len++
strlen(m, s) ==
  LET len[a \in 0..MemSize] ==
        IF a = MemSize \/ m[a] = 0 THEN 0 ELSE 1 + len[a + 1]
  IN  len[s]

\* d[i] = s[i] for i = 0, 1, ... n - 1
CopyUp(m, d, s, n) ==
  LET after[i \in 0..n] ==
        IF i = 0 THEN m
        ELSE [after[i - 1] EXCEPT ![d + i - 1] = after[i - 1][s + i - 1]]
  IN  after[n]

\* d[i-1] = s[i-1] for i = n, ... 1
CopyDown(m, d, s, n) ==
  LET after[i \in 0..n] ==
        IF i = 0 THEN m
        ELSE [after[i - 1] EXCEPT ![d + n - i] = after[i - 1][s + n - i]]
  IN  after[n]

\* Mutation of memmove: the operands are taken not to overlap.
memmove_up(m, d, s, n) == CopyUp(m, d, s, n)

memmove(m, d, s, n) ==
  CASE d = s \/ n = 0 -> m
    [] d < s /\ n # 0 -> CopyUp(m, d, s, n)
    [] OTHER          -> CopyDown(m, d, s, n)

memcpy(m, d, s, n) == CopyUp(m, d, s, n)

memset(m, s, c, n) ==
  LET after[i \in 0..n] == IF i = 0 THEN m ELSE [after[i - 1] EXCEPT ![s + i - 1] = c]
  IN  after[n]

\* Mutation of strcpy: the terminator is not copied.
strcpy_open(m, d, s) == CopyUp(m, d, s, strlen(m, s))

\* The terminator is copied after the loop.
strcpy(m, d, s) == CopyUp(m, d, s, strlen(m, s) + 1)

strcat(m, d, s) == strcpy(m, d + strlen(m, d), s)

\* while (*s1 && *s1 == *s2)
strcmp(m, s1, s2) ==
  LET Cmp[i \in 0..MemSize] ==
        IF i < MemSize /\ m[s1 + i] # 0 /\ m[s1 + i] = m[s2 + i] THEN Cmp[i + 1]
        ELSE m[s1 + i] - m[s2 + i]
  IN  Cmp[0]

strncmp(m, s1, s2, n) ==
  LET Cmp[i \in 0..n] ==
        CASE i = n                             -> 0
          [] i # n /\ m[s1 + i] # m[s2 + i]    -> m[s1 + i] - m[s2 + i]
          [] i # n /\ m[s1 + i] = m[s2 + i] /\ m[s1 + i] = 0 -> 0
          [] OTHER                             -> Cmp[i + 1]
  IN  Cmp[0]

memcmp(m, s1, s2, n) ==
  LET Cmp[i \in 0..n] ==
        CASE i = n                          -> 0
          [] i # n /\ m[s1 + i] # m[s2 + i] -> m[s1 + i] - m[s2 + i]
          [] OTHER                          -> Cmp[i + 1]
  IN  Cmp[0]

----------------------------------------------------------------------------
(* Calls with operands inside memory *)

Fits(a, n) == a + n <= MemSize

Writes(fn, d, s, n, after) ==
  /\ mem' = after
  /\ call' = [fn |-> fn, d |-> d, s |-> s, n |-> n, before |-> mem, ret |-> 0]

Returns(fn, s1, s2, n, ret) ==
  /\ UNCHANGED mem
  /\ call' = [fn |-> fn, d |-> s1, s |-> s2, n |-> n, before |-> mem, ret |-> ret]

Separate(a, b, n) == a + n <= b \/ b + n <= a

Moves == \E d, s \in Addr, n \in 0..MemSize :
  /\ Fits(d, n) /\ Fits(s, n)
  /\ \/ Writes("move", d, s, n, memmove(mem, d, s, n))
     \/ Separate(d, s, n) /\ Writes("move", d, s, n, memcpy(mem, d, s, n))

Fill == \E s \in Addr, c \in Byte, n \in 0..MemSize :
  /\ Fits(s, n)
  /\ Writes("fill", s, c, n, memset(mem, s, c, n))

\* dst has room for the string and its terminator, apart from it
Copy == \E d, s \in Addr :
  /\ Terminated(mem, s)
  /\ Fits(d, strlen(mem, s) + 1) /\ Separate(d, s, strlen(mem, s) + 1)
  /\ Writes("copy", d, s, 0, strcpy(mem, d, s))

Cat == \E d, s \in Addr :
  /\ Terminated(mem, s) /\ Terminated(mem, d)
  /\ LET end == d + strlen(mem, d)
         len == strlen(mem, s) + 1
     IN  Fits(end, len) /\ (s + len <= d \/ end + len <= s)
  /\ Writes("cat", d, s, 0, strcat(mem, d, s))

Compare == \E s1, s2 \in Addr :
  /\ Terminated(mem, s1) /\ Terminated(mem, s2)
  /\ \/ Returns("cmp", s1, s2, MemSize, strcmp(mem, s1, s2))
     \/ \E n \in 0..MemSize : Returns("cmp", s1, s2, n, strncmp(mem, s1, s2, n))

CompareBytes == \E s1, s2 \in Addr, n \in 0..MemSize :
  /\ Fits(s1, n) /\ Fits(s2, n)
  /\ Returns("memcmp", s1, s2, n, memcmp(mem, s1, s2, n))

KlibInit ==
  /\ mem \in Memory
  /\ call = [fn |-> "none", d |-> 0, s |-> 0, n |-> 0, before |-> mem, ret |-> 0]

\* One call, on any memory.
KlibNext ==
  /\ call.fn = "none"
  /\ Moves \/ Fill \/ Copy \/ Cat \/ Compare \/ CompareBytes

KlibSpec == KlibInit /\ [][KlibNext]_klibVars

----------------------------------------------------------------------------
(* Properties *)

\* Memory m with the n bytes at d replaced by those that were at s.
Moved(m, d, s, n) ==
  [a \in Addr |-> IF a \in d..(d + n - 1) THEN m[s + a - d] ELSE m[a]]

(* Whatever the overlap, the destination holds what the source held before *)
(* the call, and no other byte has changed.                                *)
MovesBytes ==
  /\ call.fn = "move" => mem = Moved(call.before, call.d, call.s, call.n)
  /\ call.fn = "fill" =>
       mem = [a \in Addr |-> IF a \in call.d..(call.d + call.n - 1) THEN call.s
                             ELSE call.before[a]]

\* The bytes of a string.
StringAt(m, s) == [i \in 0..(strlen(m, s) - 1) |-> m[s + i]]

(* After strcpy the destination is the source string, after strcat the old *)
(* destination followed by it; the source is untouched.                    *)
CopiesString ==
  LET b == call.before
      k == IF call.fn = "cat" THEN strlen(b, call.d) ELSE 0
  IN  call.fn \in {"copy", "cat"} =>
        /\ Terminated(mem, call.d)
        /\ StringAt(mem, call.s) = StringAt(b, call.s)
        /\ StringAt(mem, call.d) =
             [i \in 0..(k + strlen(b, call.s) - 1) |->
                IF i < k THEN b[call.d + i] ELSE b[call.s + i - k]]

\* Where two operands first differ, bytes after a terminator not counted.
FirstDifference(m, s1, s2, n, strings) ==
  {i \in 0..(n - 1) :
     /\ \A j \in 0..(i - 1) : m[s1 + j] = m[s2 + j] /\ (strings => m[s1 + j] # 0)
     /\ m[s1 + i] # m[s2 + i]}

(* The sign of a comparison is that of the first difference, as unsigned   *)
(* bytes, within the length and within the strings; none means 0.          *)
ComparesRight ==
  LET diff == FirstDifference(mem, call.d, call.s,
                IF Fits(call.d, call.n) /\ Fits(call.s, call.n)
                THEN call.n
                ELSE MemSize - (IF call.d > call.s THEN call.d ELSE call.s),
                call.fn = "cmp")
  IN  call.fn \in {"cmp", "memcmp"} =>
        /\ call.ret = 0 <=> diff = {}
        /\ \A i \in diff : call.ret < 0 <=> mem[call.d + i] < mem[call.s + i]

(* The string functions move, copy and compare what their names say, for   *)
(* every memory and all operands that lie in it.                           *)
StringsRight == MovesBytes /\ CopiesString /\ ComparesRight
=============================================================================
