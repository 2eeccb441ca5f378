-------------------------------- MODULE CStr --------------------------------
(***************************************************************************)
(* The string and memory functions of libc (libc/src/ffi/string.rs) on a   *)
(* small memory: what the loops and the string instructions do, byte by    *)
(* byte and word by word, against what C says they do.                     *)
(*                                                                         *)
(* A call is one step; strtok_r is called until it returns null.  Null is  *)
(* -1.  A pointer argument of a string function points at a string that    *)
(* ends within the memory; destinations are large enough and apart from    *)
(* the source.                                                             *)
(***************************************************************************)
EXTENDS Integers, Sequences, FiniteSets, SequencesExt, FiniteSetsExt

CONSTANTS
    MemLen,     \* bytes of memory
    Chr,        \* byte values; 0 is one of them
    QWORD,      \* bytes of a word (8)
    BitArr      \* bytes from here on do not fit strspn's bit array (64)

VARIABLES
    before,     \* the memory before the call
    cmem,        \* the memory
    call,       \* the function and its arguments, or NoCall
    ret,        \* what it returned
    lasts,      \* strtok_r's state
    toks        \* the tokens it returned

csvars == <<before, cmem, call, ret, lasts, toks>>

NoCall == [f |-> "none"]
Addr == 0 .. MemLen - 1
NULL == -1
PANIC == -2

-----------------------------------------------------------------------------
(* A block is read whole and then written: one move instruction.           *)
Move(m, d, s, n) == [a \in Addr |-> IF d <= a /\ a < d + n THEN m[s + a - d] ELSE m[a]]

(* rep movsq forwards, then rep movsb for what is left.                    *)
Memcpy(m, d, s, n) ==
    LET q == n \div QWORD
        words == FoldLeft(LAMBDA x, k : Move(x, d + QWORD * k, s + QWORD * k, QWORD), m, [k \in 1 .. q |-> k - 1])
    IN  FoldLeft(LAMBDA x, k : Move(x, d + k, s + k, 1), words, [k \in 1 .. n % QWORD |-> QWORD * q + k - 1])

(* memmove: the same, or backwards from the end when the source would be   *)
(* overwritten; the difference of the pointers wraps.                      *)
(* A bug: only when the source and the destination are less than a word    *)
(* apart.                                                                  *)
Backwards_Near(d, s, n) == d >= s /\ d - s < n /\ d - s < QWORD
Backwards(d, s, n) == d >= s /\ d - s < n
MemmoveBack(m, d, s, n) ==
    LET q == n \div QWORD
        words == FoldLeft(LAMBDA x, k : Move(x, d + n - QWORD * k, s + n - QWORD * k, QWORD), m, [k \in 1 .. q |-> k])
        top == n - QWORD * q
    IN  FoldLeft(LAMBDA x, k : Move(x, d + top - k, s + top - k, 1), words, [k \in 1 .. n % QWORD |-> k])
Memmove(m, d, s, n) == IF Backwards(d, s, n) THEN MemmoveBack(m, d, s, n) ELSE Memcpy(m, d, s, n)

Memset(m, d, c, n) ==
    FoldLeft(LAMBDA x, k : [x EXCEPT ![d + k] = c], m, [k \in 1 .. n |-> k - 1])

RECURSIVE Memcmp(_, _, _, _)
Memcmp(m, l, r, n) ==
    IF n = 0 THEN 0 ELSE IF m[l] # m[r] THEN m[l] - m[r] ELSE Memcmp(m, l + 1, r + 1, n - 1)

Memchr(m, p, c, n) ==
    LET at == {i \in 0 .. n - 1 : m[p + i] = c} IN IF at = {} THEN NULL ELSE p + Min(at)

-----------------------------------------------------------------------------
(* CStr::from_ptr(s).to_bytes().                                           *)
IsStr(m, s) == \E a \in Addr : a >= s /\ m[a] = 0
Strlen(m, s) == Min({i \in 0 .. MemLen : s + i \in Addr /\ m[s + i] = 0})
Text(m, s) == [i \in 1 .. Strlen(m, s) |-> m[s + i - 1]]

RECURSIVE Strcpy(_, _, _)
Strcpy(m, d, s) == IF m[s] = 0 THEN [m EXCEPT ![d] = 0] ELSE Strcpy([m EXCEPT ![d] = m[s]], d + 1, s + 1)

(* strncpy: after the null, nulls.                                         *)
Strncpy(m, d, s, n) ==
    LET step(x, i) == IF x.f THEN [x EXCEPT !.m[d + i] = 0]
                      ELSE [f |-> m[s + i] = 0, m |-> [x.m EXCEPT ![d + i] = m[s + i]]]
    IN  FoldLeft(LAMBDA x, i : step(x, i), [f |-> FALSE, m |-> m], [i \in 1 .. n |-> i - 1]).m

Strcat(m, d, s) == Strcpy(m, d + Strlen(m, d), s)

(* strncat: min(n, strlen(src)) bytes and the one after them.              *)
Strncat(m, d, s, n) ==
    LET end == d + Strlen(m, d)
        count == IF n < Strlen(m, s) THEN n ELSE Strlen(m, s)
    IN  FoldLeft(LAMBDA x, i : [x EXCEPT ![end + i] = m[s + i]], m, [i \in 1 .. count + 1 |-> i - 1])

Upto(t, n) == SubSeq(t, 1, IF n < Len(t) THEN n ELSE Len(t))
RECURSIVE Cmp(_, _)
Cmp(t, u) ==
    IF t = <<>> /\ u = <<>> THEN 0 ELSE IF t = <<>> THEN -1 ELSE IF u = <<>> THEN 1
    ELSE IF Head(t) # Head(u) THEN IF Head(t) < Head(u) THEN -1 ELSE 1 ELSE Cmp(Tail(t), Tail(u))
Strncmp(m, l, r, n) == Cmp(Upto(Text(m, l), n), Upto(Text(m, r), n))

(* strchr, strrchr: in the bytes before the null.                          *)
Strchr(m, s, c) == Memchr(m, s, c, Strlen(m, s))
Strrchr(m, s, c) ==
    LET at == {i \in 0 .. Strlen(m, s) - 1 : m[s + i] = c} IN IF at = {} THEN NULL ELSE s + Max(at)

(* strspn_inner; it panics on a byte out of the bit array's range.          *)
StrspnInner(m, s, set, cmp) ==
    LET t == Text(m, s)
        u == ToSet(Text(m, set))
        stop == {i \in 1 .. Len(t) : t[i] >= BitArr \/ (t[i] \in u) # cmp}
    IN  IF \E b \in u : b >= BitArr THEN PANIC
        ELSE IF stop = {} THEN Len(t)
        ELSE IF t[Min(stop)] >= BitArr THEN PANIC ELSE Min(stop) - 1
Strpbrk(m, s, set) ==
    LET n == StrspnInner(m, s, set, FALSE) IN IF n = PANIC THEN PANIC ELSE IF m[s + n] # 0 THEN s + n ELSE NULL

(* strstr: the windows of the substring's length; there are none of 0.     *)
Strstr(m, s, sub) ==
    LET t == Text(m, s)
        u == Text(m, sub)
        at == {i \in 0 .. Len(t) - Len(u) : SubSeq(t, i + 1, i + Len(u)) = u}
    IN  IF u = <<>> THEN PANIC ELSE IF at = {} THEN NULL ELSE s + Min(at)

-----------------------------------------------------------------------------
CsInit ==
    /\ before \in [Addr -> Chr] /\ cmem = before /\ call = NoCall /\ ret = NULL /\ lasts = NULL /\ toks = <<>>

Called(c, m, r) == /\ call' = c /\ cmem' = m /\ ret' = r /\ UNCHANGED <<before, lasts, toks>>

CallMem(f, d, s, n) ==
    /\ call = NoCall /\ d + n <= MemLen /\ s + n <= MemLen
    /\ LET c == [f |-> f, d |-> d, s |-> s, n |-> n]
       IN  CASE f = "memmove" -> Called(c, Memmove(cmem, d, s, n), d)
             [] f = "memcpy" -> (d + n <= s \/ s + n <= d) /\ Called(c, Memcpy(cmem, d, s, n), d)
             [] f = "memset" -> s \in Chr /\ Called(c, Memset(cmem, d, s, n), d)
             [] f = "memcmp" -> Called(c, cmem, Memcmp(cmem, d, s, n))
             [] f = "memchr" -> s \in Chr /\ Called(c, cmem, Memchr(cmem, d, s, n))

(* Room for the result at d, up to the source.                             *)
Room(d, s, need) == d + need <= s

CallStr(f, d, s, n) ==
    /\ call = NoCall /\ IsStr(cmem, s)
    /\ LET c == [f |-> f, d |-> d, s |-> s, n |-> n]
           len == Strlen(cmem, s)
       IN  CASE f = "strcpy" -> Room(d, s, len + 1) /\ Called(c, Strcpy(cmem, d, s), d)
             [] f = "strncpy" -> Room(d, s, n) /\ Called(c, Strncpy(cmem, d, s, n), d)
             [] f = "strcat" -> IsStr(cmem, d) /\ Room(d, s, Strlen(cmem, d) + len + 1) /\ Called(c, Strcat(cmem, d, s), d)
             [] f = "strncat" -> IsStr(cmem, d) /\ Room(d, s, Strlen(cmem, d) + len + 1) /\ Called(c, Strncat(cmem, d, s, n), d)
             [] f = "strncmp" -> IsStr(cmem, d) /\ Called(c, cmem, Strncmp(cmem, d, s, n))
             [] f = "strchr" -> d \in Chr /\ Called(c, cmem, Strchr(cmem, s, d))
             [] f = "strrchr" -> d \in Chr /\ Called(c, cmem, Strrchr(cmem, s, d))
             [] f = "strspn" -> IsStr(cmem, d) /\ Called(c, cmem, StrspnInner(cmem, s, d, TRUE))
             [] f = "strcspn" -> IsStr(cmem, d) /\ Called(c, cmem, StrspnInner(cmem, s, d, FALSE))
             [] f = "strpbrk" -> IsStr(cmem, d) /\ Called(c, cmem, Strpbrk(cmem, s, d))
             [] f = "strstr" -> IsStr(cmem, d) /\ Called(c, cmem, Strstr(cmem, s, d))

(* strtok_r: the string first, then null until null is returned.  A byte   *)
(* out of the bit array's range ends the calls with a panic.               *)
TokCut(hs, delim) ==
    LET token == hs + StrspnInner(cmem, hs, delim, TRUE)
        cut == Strpbrk(cmem, token, delim)
    IN  IF cmem[token] = 0 THEN ret' = NULL /\ lasts' = NULL /\ UNCHANGED <<cmem, toks>>
        ELSE /\ cut # PANIC
             /\ cmem' = IF cut = NULL THEN cmem ELSE [cmem EXCEPT ![cut] = 0]
             /\ lasts' = IF cut = NULL THEN NULL ELSE cut + 1
             /\ ret' = token /\ toks' = Append(toks, Text(cmem', token))

Strtok(s, delim) ==
    LET hs == IF call = NoCall THEN s ELSE lasts
    IN  /\ IF hs = NULL THEN ret' = NULL /\ UNCHANGED <<cmem, lasts, toks>>
           ELSE StrspnInner(cmem, hs, delim, TRUE) # PANIC /\ TokCut(hs, delim)
        /\ call' = [f |-> "strtok", d |-> delim, s |-> s, n |-> 0]
        /\ UNCHANGED before

(* The delimiters lie before the string and are not part of it.            *)
CallTok(s, delim) ==
    /\ \/ call = NoCall /\ delim < s /\ IsStr(cmem, delim) /\ delim + Strlen(cmem, delim) < s /\ IsStr(cmem, s)
       \/ call = [f |-> "strtok", d |-> delim, s |-> s, n |-> 0] /\ ret # NULL
    /\ Strtok(s, delim)

CsNext ==
    \E d, s \in Addr :
        \/ \E n \in 0 .. MemLen - 1, f \in {"memmove", "memcpy", "memset", "memcmp", "memchr"} : CallMem(f, d, s, n)
        \/ \E n \in {1, 3}, f \in {"strncpy", "strncat", "strncmp"} : CallStr(f, d, s, n)
        \/ \E f \in {"strcpy", "strcat", "strchr", "strrchr", "strspn", "strcspn", "strpbrk", "strstr"} : CallStr(f, d, s, 0)
        \/ CallTok(s, d)

CsSpec == CsInit /\ [][CsNext]_csvars

-----------------------------------------------------------------------------
(* What C says.                                                            *)
Sgn(x) == IF x < 0 THEN -1 ELSE IF x > 0 THEN 1 ELSE 0
Less(t, u) ==
    \/ IsStrictPrefix(t, u)
    \/ \E i \in DOMAIN t \cap DOMAIN u : t[i] < u[i] /\ \A j \in 1 .. i - 1 : t[j] = u[j]
StrOrder(t, u) == IF Less(t, u) THEN -1 ELSE IF Less(u, t) THEN 1 ELSE 0
Bytes(p, n) == [i \in 1 .. n |-> before[p + i - 1]]
SpanLens(t, P) == {k \in 0 .. Len(t) : ToSet(SubSeq(t, 1, k)) \subseteq P /\ (k < Len(t) => t[k + 1] \notin P)}

(* The tokens of t: its maximal runs of bytes that delimit nothing.        *)
Tokens(t, D) ==
    LET starts == {i \in 1 .. Len(t) : t[i] \notin D /\ (i = 1 \/ t[i - 1] \in D)}
        run(i) == SubSeq(t, i, Max({j \in i .. Len(t) : \A k \in i .. j : t[k] \notin D}))
    IN  [n \in 1 .. Cardinality(starts) |-> run(SetToSortSeq(starts, <)[n])]

(* Nothing but the n bytes at d changes, and they become t.                *)
Wrote(d, t) == cmem = [a \in Addr |-> IF d <= a /\ a < d + Len(t) THEN t[a - d + 1] ELSE before[a]]

(* Every function of libc's string.rs does what C says of it: memmove and  *)
(* memcpy copy whatever the overlap, word steps or length; the copying     *)
(* functions write the destination's bytes and no others; the comparing    *)
(* and searching functions agree with the definition; strtok_r returns the *)
(* tokens in order.  The exceptions are the code's own: a byte out of the  *)
(* bit array's range or an empty substring panics, the null byte is not    *)
(* found by strchr and strrchr, and strncat that cuts its source short     *)
(* writes the next byte in place of the null.                              *)
CStrExact ==
    call # NoCall =>
        LET d == call.d
            s == call.s
            n == call.n
            t == Text(before, s)
            u == Text(before, d)
            zeros(k) == [i \in 1 .. k |-> 0]
            first(S) == IF S = {} THEN NULL ELSE Min(S)
        IN  CASE call.f \in {"memmove", "memcpy"} -> Wrote(d, Bytes(s, n))
              [] call.f = "memset" -> Wrote(d, [i \in 1 .. n |-> s])
              [] call.f = "memcmp" -> cmem = before /\ Sgn(ret) = StrOrder(Bytes(d, n), Bytes(s, n))
              [] call.f = "memchr" -> cmem = before /\ ret = first({a \in d .. d + n - 1 : before[a] = s})
              [] call.f = "strcpy" -> Wrote(d, Append(t, 0))
              [] call.f = "strncpy" -> Wrote(d, SubSeq(t \o zeros(n), 1, n))
              [] call.f = "strcat" -> Wrote(d, u \o Append(t, 0))
              [] call.f = "strncat" -> Wrote(d, u \o (IF n < Len(t) THEN SubSeq(t, 1, n + 1) ELSE Append(t, 0)))
              [] call.f = "strncmp" -> cmem = before /\ ret = StrOrder(Upto(u, n), Upto(t, n))
              [] call.f = "strchr" -> cmem = before /\ ret = first({a \in s .. s + Len(t) - 1 : before[a] = d})
              [] call.f = "strrchr" ->
                     /\ cmem = before
                     /\ ret # NULL => before[ret] = d /\ \A a \in ret + 1 .. s + Len(t) - 1 : before[a] # d
                     /\ ret = NULL => d \notin ToSet(t)
              [] call.f = "strspn" -> cmem = before /\ (ret # PANIC => ret \in SpanLens(t, ToSet(u)))
              [] call.f = "strcspn" -> cmem = before /\ (ret # PANIC => ret \in SpanLens(t, Chr \ ToSet(u)))
              [] call.f = "strpbrk" ->
                     /\ cmem = before
                     /\ ret # PANIC => ret = first({a \in s .. s + Len(t) - 1 : before[a] \in ToSet(u)})
              [] call.f = "strstr" ->
                     /\ cmem = before
                     /\ ret = PANIC <=> u = <<>>
                     /\ ret # PANIC => ret = first({a \in s .. s + Len(t) : IsPrefix(u, SubSeq(t, a - s + 1, Len(t)))})
              [] call.f = "strtok" ->
                     LET all == Tokens(t, ToSet(u))
                     IN  IF ret = NULL THEN toks = all ELSE IsPrefix(toks, all)
=============================================================================
