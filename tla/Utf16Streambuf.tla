----------------------------- MODULE Utf16Streambuf -----------------------------
(***************************************************************************)
(* jni_utf16_output_streambuf (jni_util.cpp:23-77, jni_util.h:1755-1803),  *)
(* the growing buffer behind every message that JSDI makes for Java, and   *)
(* smallest_pow2() (util.h:172-222), which decides how it grows.           *)
(*                                                                         *)
(* Characters come one by one (8-bit strings, through sputc()) or as whole *)
(* strings (Java strings, through write() and xsputn()).  Assertions are   *)
(* compiled out: a write of nothing, which fails one, is not modelled.     *)
(***************************************************************************)
EXTENDS Integers, FiniteSets, Sequences

CONSTANTS Chars,       \* characters other than the null character
          Nul,         \* what resize() fills the vector with
          Capacities,  \* the initial capacities, 127 if none is given
          Width,       \* the bits of a size_t
          IntWidth,    \* the bits of an int, and of a jsize
          Shifts,      \* how often smallest_pow2() shifts: 6 times for 64 bits
          MaxSize,     \* d_buf.max_size()
          MaxText,     \* bound: characters written to one stream
          MaxWrite     \* bound: characters of one string

\* 2^n.
Pow2[n \in Nat] == IF n = 0 THEN 1 ELSE 2 * Pow2[n - 1]

MaxInt == Pow2[IntWidth - 1] - 1

\* static_cast<int>(n).
AsInt(n) == LET m == n % Pow2[IntWidth] IN IF m <= MaxInt THEN m ELSE m - Pow2[IntWidth]

\* Half of what a size_t counts is the most for a vector of 16-bit characters, and
\* for a std::streamsize, which has a sign: used + count does not overflow.  Whole
\* strings are Java strings, and the length of one is a jsize.
ASSUME Utf16Assumption == /\ Nul \notin Chars
                          /\ {Width, Shifts, MaxSize, MaxText} \subseteq Nat
                          /\ Capacities \subseteq 1 .. MaxSize
                          /\ IntWidth \in Nat \ {0} /\ MaxWrite \in 1 .. MaxInt
                          /\ Width <= Pow2[Shifts]
                          /\ MaxSize + MaxWrite < Pow2[Width]

VARIABLES
  d_buf,   \* the vector behind the buffer
  pptr,    \* how far the put pointer is from pbase()
  text,    \* what was written to the stream
  status,  \* "ok", "length_error", "bad_alloc", "overrun" (wrote outside of the buffer)
  split,   \* the buffer was expanded with room left in it, a history
  cut      \* it was expanded when its size did not fit an int, a history

vars == <<d_buf, pptr, text, status, split, cut>>

Init == /\ \E c \in Capacities : d_buf = [i \in 1 .. c |-> Nul]
        /\ pptr = 0
        /\ text = <<>>
        /\ status = "ok"
        /\ split = FALSE
        /\ cut = FALSE

-------------------------------------------------------------------------------
\* x | y of w bits.
Or[w \in Nat] ==
  [x \in Nat |-> [y \in Nat |->
     IF w = 0 THEN 0 ELSE 2 * Or[w - 1][x \div 2][y \div 2]
                          + (IF x % 2 = 0 /\ y % 2 = 0 THEN 0 ELSE 1)]]

\* x |= x >> 1, then by 2, by 4 and so on, n times.
Smeared[n \in Nat] ==
  [x \in Nat |-> IF n = 0 THEN x
                 ELSE LET s == Smeared[n - 1][x]
                      IN  Or[Width][s][s \div Pow2[Pow2[n - 1]]]]

\* Bug: x is not decremented first, so that a power of two is doubled.
SmallestPow2NoDecrement(x) == (Smeared[Shifts][x] + 1) % Pow2[Width]

\* smallest_pow2(): --x, or_and_shift_remainder(x), x + 1.
SmallestPow2(x) == (Smeared[Shifts][(x + Pow2[Width] - 1) % Pow2[Width]] + 1) % Pow2[Width]

\* Bug: the put pointer stays where setp() has put it.
ExpandNoBump(min) ==
  LET new_size == SmallestPow2(min) IN
  [ok   |-> Len(d_buf) <= new_size /\ new_size <= MaxSize,
   buf  |-> [i \in 1 .. new_size |-> IF i \in DOMAIN d_buf THEN d_buf[i] ELSE Nul],
   pptr |-> 0]

\* expand(): throws, or grows the vector and puts the pointer at its old size, which
\* it casts to an int: exact up to MaxInt, and otherwise less, or before the buffer.
Expand(min) ==
  LET new_size == SmallestPow2(min) IN
  [ok   |-> Len(d_buf) <= new_size /\ new_size <= MaxSize,
   buf  |-> [i \in 1 .. new_size |-> IF i \in DOMAIN d_buf THEN d_buf[i] ELSE Nul],
   pptr |-> AsInt(Len(d_buf))]

\* expand() throws, and the ostream sets badbit.  Where exceptions() was called the
\* user unwinds; elsewhere the stream takes nothing more and jstr() gives what was
\* written before.
Fails(error) == status' = error /\ UNCHANGED <<d_buf, pptr, text, split, cut>>

\* length_error, or bad_alloc of resize(), which leaves the vector as it was.
Refuses(e) == \/ ~e.ok /\ Fails("length_error")
              \/ e.ok /\ Fails("bad_alloc")

\* The characters of s are put at position p of a buffer b.
Put(b, p, s) ==
  IF p < 0 \/ p + Len(s) > Len(b)
  THEN /\ status' = "overrun"
       /\ UNCHANGED <<d_buf, pptr, text>>
  ELSE /\ d_buf' = [i \in DOMAIN b |-> IF i \in p + 1 .. p + Len(s) THEN s[i - p] ELSE b[i]]
       /\ pptr' = p + Len(s)
       /\ text' = text \o s
       /\ UNCHANGED status

\* sputc() where there is room.
Sputc(c) ==
  /\ pptr < Len(d_buf)
  /\ Put(d_buf, pptr, <<c>>)
  /\ UNCHANGED <<split, cut>>

\* Bug: the pointer is moved before and after the store.
OverflowBumpTwice(c) ==
  /\ pptr = Len(d_buf)
  /\ LET e == Expand((Len(d_buf) + 1) % Pow2[Width]) IN
     \/ Refuses(e)
     \/ e.ok /\ Put(e.buf, e.pptr + 1, <<c>>) /\ cut' = (cut \/ Len(d_buf) > MaxInt)
             /\ UNCHANGED split

\* sputc() where there is none: overflow().
Overflow(c) ==
  /\ pptr = Len(d_buf)
  /\ LET e == Expand((Len(d_buf) + 1) % Pow2[Width]) IN
     \/ Refuses(e)
     \/ e.ok /\ Put(e.buf, e.pptr, <<c>>) /\ cut' = (cut \/ Len(d_buf) > MaxInt)
             /\ UNCHANGED split

\* Bug: the length of the string is not checked against the room.
XsputnUnchecked(s) ==
  LET e == Expand((pptr + Len(s)) % Pow2[Width]) IN
  \/ /\ pptr < Len(d_buf)
     /\ pptr' = pptr + Len(s)
     /\ text' = text \o s
     /\ UNCHANGED <<d_buf, status, split, cut>>
  \/ /\ pptr = Len(d_buf)
     /\ \/ Refuses(e)
        \/ e.ok /\ Put(e.buf, e.pptr, s) /\ cut' = (cut \/ Len(d_buf) > MaxInt)
                /\ UNCHANGED split

\* xsputn(): expand if there is too little room, and copy to the put pointer,
\* wherever expand() has left it.
Xsputn(s) ==
  LET e == Expand((pptr + Len(s)) % Pow2[Width]) IN
  \/ /\ Len(d_buf) - pptr >= Len(s)
     /\ Put(d_buf, pptr, s)
     /\ UNCHANGED <<split, cut>>
  \/ /\ Len(d_buf) - pptr < Len(s)
     /\ \/ Refuses(e)
        \/ /\ e.ok
           /\ Put(e.buf, e.pptr, s)
           /\ split' = (split \/ pptr < Len(d_buf))
           /\ cut' = (cut \/ Len(d_buf) > MaxInt)

Next == /\ status = "ok"
        /\ \/ /\ Len(text) < MaxText
              /\ \E c \in Chars : Sputc(c) \/ Overflow(c)
           \/ \E n \in 1 .. MaxWrite : /\ Len(text) + n <= MaxText
                                       /\ \E s \in [1 .. n -> Chars] : Xsputn(s)

Spec == Init /\ [][Next]_vars

-------------------------------------------------------------------------------
\* What jstr() makes a Java string of; it passes pptr as a jsize, so that there is a
\* string of no more than MaxInt.
Contents == SubSeq(d_buf, 1, pptr)

\* Well-typed, and the put pointer stays inside the buffer.
TypeOK == /\ d_buf \in Seq(Chars \cup {Nul}) /\ Len(d_buf) \in 1 .. MaxSize
          /\ pptr \in 0 .. Len(d_buf)
          /\ text \in Seq(Chars) /\ Len(text) <= MaxText
          /\ status \in {"ok", "length_error", "bad_alloc", "overrun"}
          /\ split \in BOOLEAN /\ cut \in BOOLEAN

\* Whatever the sequence of writes, of failed ones too, and although the buffer moves
\* under them, no character is lost, overwritten or out of order: the string is the
\* text with at most null characters in between, as long as each size that the buffer
\* has outgrown fits an int (jni_util.cpp:43-77).
TextKept ==
  ~cut =>
  LET kept == {i \in 1 .. pptr : d_buf[i] # Nul}
  IN  /\ Cardinality(kept) = Len(text)
      /\ \A i \in kept : d_buf[i] = text[Cardinality({j \in kept : j <= i})]

\* The string has such a gap, or a write goes outside of the buffer, only once xsputn()
\* has expanded a buffer that was not full, or a size was cut to an int; overflow()
\* and strings that fit, or find the buffer full, never do either (jni_util.cpp:50,
\* 72-75).
GapOnlyOfSplitWrite == ~split /\ ~cut => Contents = text /\ status # "overrun"

\* The buffer grows to the least power of two that holds the text and what is
\* being written, whether smallest_pow2() gets a power of two, one more or one
\* less.  It is too long (length_error) only where no such size is left: the 0 that
\* smallest_pow2() wraps to is never taken for a size.  Memory runs out (bad_alloc)
\* only for a write that has no room, and an int that is too narrow for the old size
\* has no part in the new one (util.h:198-222, jni_util.cpp:43-50).
GrowsLeast ==
  [][LET need == pptr + Len(text') - Len(text)
         size == Len(d_buf')
     IN /\ size # Len(d_buf) => /\ \E k \in 0 .. Width - 1 : size = Pow2[k]
                                /\ size \in need .. 2 * need - 1
        /\ status' = "length_error" =>
             \E n \in 1 .. MaxWrite : \A k \in 0 .. Width - 1 :
                Pow2[k] \notin pptr + n .. MaxSize
        /\ status' = "bad_alloc" => Len(d_buf) < pptr + MaxWrite]_vars

-------------------------------------------------------------------------------
(* What the documentation says and the code does not do.                   *)

\* jni_util.h:1861-1862: jstr() returns "the contents of the stream".
StringIsText == status = "ok" => Contents = text

===============================================================================
