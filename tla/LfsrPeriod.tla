------------------------------- MODULE LfsrPeriod -------------------------------
(***************************************************************************)
(* The period of the lfsr mode of shift_register_modulator, for each of    *)
(* its 31 tap masks.  A register of 32 bits is back after 2^32 - 1 clocks, *)
(* too many to take one at a time.  But every bit after a clock is the     *)
(* parity of bits before it, and so is every bit after twice as many       *)
(* clocks: clocks are taken 1, 2, 4, 8, ... at a time.                     *)
(*                                                                         *)
(* A register is the set of its bits that are 1.  A number of clocks is    *)
(* the set of the pairs <<i, j>> such that bit j before them is one of the *)
(* bits whose parity is bit i after them.                                  *)
(***************************************************************************)
EXTENDS Integers, Sequences, SequencesExt, ShiftRegister

BitsOf(n) == 0 .. n - 1

Odd(S) == Cardinality(S) % 2 = 1

\* The set S, whose members TLC then tests once and not whenever it looks for one.
Listed(S) == {x : x \in S}

\* One tick() on a clock edge: bit 0 is the parity of the taps, the others move up.
OneClock(n) == {<<0, t>> : t \in LfsrTaps[n]} \cup {<<i, i - 1>> : i \in 1 .. n - 1}

\* Twice as many clocks.
Twice(n, clocks) ==
    Listed({p \in BitsOf(n) \X BitsOf(n) :
               Odd({j \in BitsOf(n) : <<p[1], j>> \in clocks /\ <<j, p[2]>> \in clocks})})

\* 1, 2, 4, .., 2^k clocks.
RECURSIVE Doublings(_, _)
Doublings(n, k) ==
    IF k = 0 THEN <<OneClock(n)>>
    ELSE LET d == Doublings(n, k - 1) IN Append(d, Twice(n, d[k]))

\* What a number of clocks makes of register r.
Image(n, clocks, r) == Listed({i \in BitsOf(n) : Odd({j \in r : <<i, j>> \in clocks})})

\* e clocks, where d holds 1, 2, 4, .. of them.
RECURSIVE After(_, _, _, _)
After(n, d, e, r) ==
    IF e = 0 THEN r
    ELSE After(n, Tail(d), e \div 2, IF e % 2 = 1 THEN Image(n, Head(d), r) ELSE r)

\* The prime factors of 2^n - 1.
Factors == <<
    << >>, <<3>>, <<7>>, <<3, 5>>, <<31>>, <<3, 3, 7>>, <<127>>, <<3, 5, 17>>, <<7, 73>>,
    <<3, 11, 31>>, <<23, 89>>, <<3, 3, 5, 7, 13>>, <<8191>>, <<3, 43, 127>>, <<7, 31, 151>>,
    <<3, 5, 17, 257>>, <<131071>>, <<3, 3, 3, 7, 19, 73>>, <<524287>>,
    <<3, 5, 5, 11, 31, 41>>, <<7, 7, 127, 337>>, <<3, 23, 89, 683>>, <<47, 178481>>,
    <<3, 3, 5, 7, 13, 17, 241>>, <<31, 601, 1801>>, <<3, 2731, 8191>>, <<7, 73, 262657>>,
    <<3, 5, 29, 43, 113, 127>>, <<233, 1103, 2089>>, <<3, 3, 7, 11, 31, 151, 331>>,
    <<2147483647>>, <<3, 5, 17, 257, 65537>> >>

\* 46340 is the root of the largest number TLC knows.
Prime(q) == \A k \in 2 .. Limit(q - 1, 1, 46340) : k * k <= q => q % k # 0

\* (2^n - 1) / q for the i-th factor q.
Cofactor(n, i) == FoldLeft(LAMBDA a, b : a * b, 1, RemoveAt(Factors[n], i))

\* q * e = 2^n - 1 for odd q and e, without leaving the integers of TLC.
IsPeriod(n, q, e) ==
    q % 2 = 1 /\ e % 2 = 1 /\ (q \div 2) * e + e \div 2 = 2 * (2^(n - 2) - 1) + 1

\* From its first value r the register is back after 2^n - 1 clocks (2^n clocks are as
\* one, and the top bit is tapped, so that a clock loses nothing), and not after that
\* number divided by one of its primes: no smaller number of clocks will do.
Maximal(n) ==
    LET d == Doublings(n, n)
        r == {i \in Seed : i < n}
    IN  /\ n - 1 \in LfsrTaps[n] /\ d[n + 1] = OneClock(n)
        /\ \A i \in DOMAIN Factors[n] :
              /\ Prime(Factors[n][i]) /\ IsPeriod(n, Factors[n][i], Cofactor(n, i))
              /\ After(n, d, Cofactor(n, i), r) # r

EveryMaskIsMaximal == \A n \in 2 .. 32 : Maximal(n)

Ones(r) == {i \in Places : r[i]}

(* "period 2^N - 1": an lfsr register is back at its first value after 2^N - 1 clocks
   and not before.  One clock is the OneClock that every mask of the table, of 2 to 32
   bits, is maximal for, and registers of up to 10 bits are also clocked all the way
   round.  The other modes have the period of their feedback. *)
RegisterPeriod ==
    /\ mode = "lfsr" =>
          /\ reg = start <=> since = 0
          /\ Ones(Pushed(reg, LfsrNewBit)) = Image(length, OneClock(length), Ones(reg))
    /\ EveryMaskIsMaximal
    /\ LoopPeriod
================================================================================
