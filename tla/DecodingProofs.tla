--------------------------- MODULE DecodingProofs ---------------------------
(***************************************************************************)
(* Proof that the immediates are right for each of the 2^32 words.         *)
(***************************************************************************)
EXTENDS Decoding, TLAPS

LEMMA GetBits ==
    \A w \in Word, low, high \in 0 .. 31 : low <= high =>
      /\ get_bits(w, low, high) \in Word
      /\ \A k \in 0 .. 31 :
           get_bits(w, low, high)[k] = IF k <= high - low THEN w[k + low] ELSE 0
<1> SUFFICES ASSUME NEW w \in Word, NEW low \in 0 .. 31, NEW high \in 0 .. 31, low <= high
             PROVE  /\ get_bits(w, low, high) \in Word
                    /\ \A k \in 0 .. 31 : get_bits(w, low, high)[k] =
                                            IF k <= high - low THEN w[k + low] ELSE 0
  OBVIOUS
<1> DEFINE s == ShiftLeft(w, 31 - high)
<1>1. s \in Word
  BY DEF ShiftLeft, Word, WORDLENGTH
<1>2. \A k \in 0 .. 31 : s[k] = IF k >= 31 - high THEN w[k - (31 - high)] ELSE 0
  BY DEF ShiftLeft, Word, WORDLENGTH
<1>3. get_bits(w, low, high) = ShiftRight(s, 32 - (high - low + 1))
  BY DEF get_bits, WORDLENGTH
<1> HIDE DEF s
<1>4. get_bits(w, low, high) \in Word
  BY <1>1, <1>3 DEF ShiftRight, Word, WORDLENGTH
<1>5. \A k \in 0 .. 31 :
        get_bits(w, low, high)[k] = IF k <= high - low THEN w[k + low] ELSE 0
  <2> TAKE k \in 0 .. 31
  <2> DEFINE n == 32 - (high - low + 1)
  <2>1. get_bits(w, low, high)[k] = IF k + n \in 0 .. 31 THEN s[k + n] ELSE 0
    BY <1>1, <1>3 DEF ShiftRight, Word, WORDLENGTH
  <2>2. k + n \in 0 .. 31 <=> k <= high - low
    OBVIOUS
  <2>3. k <= high - low => /\ k + n \in 0 .. 31
                           /\ k + n >= 31 - high
                           /\ k + n - (31 - high) = k + low
    OBVIOUS
  <2>4. k <= high - low => s[k + n] = w[k + low]
    BY <1>2, <2>3
  <2>5. QED BY <2>1, <2>2, <2>4
<1>6. QED BY <1>4, <1>5

LEMMA Shifted ==
    \A w \in Word, low, high, n \in 0 .. 31 : low <= high =>
      LET f == ShiftLeft(get_bits(w, low, high), n)
      IN  /\ f \in Word
          /\ \A k \in 0 .. 31 :
               f[k] = IF n <= k /\ k - n <= high - low THEN w[k - n + low] ELSE 0
<1> TAKE w \in Word, low, high, n \in 0 .. 31
<1> HAVE low <= high
<1> DEFINE b == get_bits(w, low, high)
<1>1. /\ b \in Word
      /\ \A k \in 0 .. 31 : b[k] = IF k <= high - low THEN w[k + low] ELSE 0
  BY GetBits
<1> HIDE DEF b
<1>2. ShiftLeft(b, n) \in Word
  BY <1>1 DEF ShiftLeft, Word, WORDLENGTH
<1>3. \A k \in 0 .. 31 :
        ShiftLeft(b, n)[k] = IF n <= k /\ k - n <= high - low THEN w[k - n + low] ELSE 0
  BY <1>1 DEF ShiftLeft, Word, WORDLENGTH
<1>4. QED BY <1>2, <1>3 DEF b

LEMMA OrBits ==
    ASSUME NEW v \in Word, NEW w \in Word
    PROVE  /\ Or(v, w) \in Word
           /\ \A k \in 0 .. 31 : Or(v, w)[k] = IF v[k] = 1 \/ w[k] = 1 THEN 1 ELSE 0
BY DEF Or, Word, WORDLENGTH

LEMMA SignExpanded ==
    ASSUME NEW imm \in Word, NEW b \in 0 .. 31, NEW ref \in Long,
           \A k \in 0 .. b : imm[k] = ref[k],
           \A k \in b + 1 .. 31 : imm[k] = 0,
           \A k \in b + 1 .. 63 : ref[k] = ref[b]
    PROVE  sign_expand(imm, b) = ref
<1>1. \A k \in 0 .. 63 : imm[b] \in {0, 1} /\ sign_expand(imm, b)[k] = ref[k]
  <2> TAKE k \in 0 .. 63
  <2>1. imm[b] \in {0, 1} /\ ref[b] = imm[b]
    BY DEF Word, WORDLENGTH
  <2>2. sign_expand(imm, b)[k] = IF imm[b] = 1 /\ k > b THEN 1
                                 ELSE IF k < 32 THEN imm[k] ELSE 0
    BY DEF sign_expand, WORDLENGTH, DOUBLEWORD
  <2>3. CASE k > b
    BY <2>1, <2>2, <2>3
  <2>4. CASE k <= b
    BY <2>1, <2>2, <2>4
  <2>5. QED BY <2>1, <2>3, <2>4
<1>2. QED BY <1>1 DEF sign_expand, Long, DOUBLEWORD

\* Every immediate of every word is the one the manual gives (utils.c).
THEOREM ImmediatesRight == \A w \in Word : ImmediateRight(w)
<1> SUFFICES ASSUME NEW w \in Word
             PROVE  ImmediateRight(w)
  OBVIOUS
<1>1. \A k \in 0 .. 31 : w[k] \in {0, 1}
  BY DEF Word, WORDLENGTH
<1>2. get_imm_i(w) = ImmediateI(w)
  <2> DEFINE imm == get_bits(w, 20, 31)
  <2>1. /\ imm \in Word
        /\ \A k \in 0 .. 31 : imm[k] = IF k <= 11 THEN w[k + 20] ELSE 0
    <3>1. 20 \in 0 .. 31 /\ 31 \in 0 .. 31 /\ 20 <= 31
      OBVIOUS
    <3>2. /\ imm \in Word
          /\ \A k \in 0 .. 31 : imm[k] = IF k <= 31 - 20 THEN w[k + 20] ELSE 0
      BY <3>1, GetBits, Zenon
    <3>3. 31 - 20 = 11
      OBVIOUS
    <3>4. QED BY <3>2, <3>3, Zenon
  <2> HIDE DEF imm
  <2>2. \A k \in 0 .. 63 : ImmediateI(w)[k] = IF k <= 10 THEN w[k + 20] ELSE w[31]
    BY DEF ImmediateI
  <2>3. ImmediateI(w) \in Long
    BY <1>1 DEF ImmediateI, Long, DOUBLEWORD
  <2>4. 11 \in 0 .. 31
    OBVIOUS
  <2>5. \A k \in 0 .. 11 : imm[k] = ImmediateI(w)[k]
    BY <2>1, <2>2
  <2>6. \A k \in 11 + 1 .. 31 : imm[k] = 0
    BY <2>1
  <2>7. \A k \in 11 + 1 .. 63 : ImmediateI(w)[k] = ImmediateI(w)[11]
    BY <2>2
  <2>8. sign_expand(imm, 11) = ImmediateI(w)
    <3>1. imm \in Word
      BY <2>1
    <3>2. QED BY <3>1, <2>3, <2>4, <2>5, <2>6, <2>7, SignExpanded, ZenonT(60)
  <2>9. QED BY <2>8 DEF get_imm_i, imm
<1>3. get_imm_s(w) = ImmediateS(w)
  <2> DEFINE h == ShiftLeft(get_bits(w, 25, 31), 5)
             l == get_bits(w, 7, 11)
             imm == Or(h, l)
  <2>1. /\ h \in Word
        /\ \A k \in 0 .. 31 :
             h[k] = IF 5 <= k /\ k - 5 <= 6 THEN w[k - 5 + 25] ELSE 0
    <3>1. 25 \in 0 .. 31 /\ 31 \in 0 .. 31 /\ 5 \in 0 .. 31 /\ 25 <= 31
      OBVIOUS
    <3>2. /\ h \in Word
          /\ \A k \in 0 .. 31 :
               h[k] = IF 5 <= k /\ k - 5 <= 31 - 25 THEN w[k - 5 + 25] ELSE 0
      BY <3>1, Shifted, Zenon
    <3>3. 31 - 25 = 6
      OBVIOUS
    <3>4. QED BY <3>2, <3>3, Zenon
  <2>2. /\ l \in Word
        /\ \A k \in 0 .. 31 : l[k] = IF k <= 4 THEN w[k + 7] ELSE 0
    <3>1. 7 \in 0 .. 31 /\ 11 \in 0 .. 31 /\ 7 <= 11
      OBVIOUS
    <3>2. /\ l \in Word
          /\ \A k \in 0 .. 31 : l[k] = IF k <= 11 - 7 THEN w[k + 7] ELSE 0
      BY <3>1, GetBits, Zenon
    <3>3. 11 - 7 = 4
      OBVIOUS
    <3>4. QED BY <3>2, <3>3, Zenon
  <2> HIDE DEF h, l
  <2>3. /\ imm \in Word
        /\ \A k \in 0 .. 31 : imm[k] = IF h[k] = 1 \/ l[k] = 1 THEN 1 ELSE 0
    BY <2>1, <2>2, OrBits
  <2> HIDE DEF imm
  <2>4. \A k \in 0 .. 31 : imm[k] = IF k <= 4 THEN w[k + 7]
                                    ELSE IF k <= 11 THEN w[k + 20] ELSE 0
    BY <1>1, <2>1, <2>2, <2>3
  <2>5. \A k \in 0 .. 63 : ImmediateS(w)[k] = IF k <= 4 THEN w[k + 7]
                                      ELSE IF k <= 10 THEN w[k + 20] ELSE w[31]
    BY DEF ImmediateS
  <2>6. ImmediateS(w) \in Long
    BY <1>1 DEF ImmediateS, Long, DOUBLEWORD
  <2>7. 11 \in 0 .. 31
    OBVIOUS
  <2>8. \A k \in 0 .. 11 : imm[k] = ImmediateS(w)[k]
    BY <2>3, <2>4, <2>5
  <2>9. \A k \in 11 + 1 .. 31 : imm[k] = 0
    BY <2>3, <2>4
  <2>10. \A k \in 11 + 1 .. 63 : ImmediateS(w)[k] = ImmediateS(w)[11]
    BY <2>5
  <2>11. sign_expand(imm, 11) = ImmediateS(w)
    <3>1. imm \in Word
      BY <2>3, <2>4
    <3>2. QED BY <3>1, <2>6, <2>7, <2>8, <2>9, <2>10, SignExpanded, ZenonT(60)
  <2>12. QED BY <2>11 DEF get_imm_s, h, l, imm
<1>4. get_imm_sb(w) = ImmediateB(w)
  <2> DEFINE a == ShiftLeft(get_bits(w, 31, 31), 12)
             b == ShiftLeft(get_bits(w, 25, 30), 5)
             c == ShiftLeft(get_bits(w, 8, 11), 1)
             d == ShiftLeft(get_bits(w, 7, 7), 11)
             imm == Or(Or(a, b), Or(c, d))
  <2>1. /\ a \in Word
        /\ \A k \in 0 .. 31 :
             a[k] = IF 12 <= k /\ k - 12 <= 0 THEN w[k - 12 + 31] ELSE 0
    <3>1. 31 \in 0 .. 31 /\ 31 \in 0 .. 31 /\ 12 \in 0 .. 31 /\ 31 <= 31
      OBVIOUS
    <3>2. /\ a \in Word
          /\ \A k \in 0 .. 31 :
               a[k] = IF 12 <= k /\ k - 12 <= 31 - 31 THEN w[k - 12 + 31] ELSE 0
      BY <3>1, Shifted, Zenon
    <3>3. 31 - 31 = 0
      OBVIOUS
    <3>4. QED BY <3>2, <3>3, Zenon
  <2>2. /\ b \in Word
        /\ \A k \in 0 .. 31 :
             b[k] = IF 5 <= k /\ k - 5 <= 5 THEN w[k - 5 + 25] ELSE 0
    <3>1. 25 \in 0 .. 31 /\ 30 \in 0 .. 31 /\ 5 \in 0 .. 31 /\ 25 <= 30
      OBVIOUS
    <3>2. /\ b \in Word
          /\ \A k \in 0 .. 31 :
               b[k] = IF 5 <= k /\ k - 5 <= 30 - 25 THEN w[k - 5 + 25] ELSE 0
      BY <3>1, Shifted, Zenon
    <3>3. 30 - 25 = 5
      OBVIOUS
    <3>4. QED BY <3>2, <3>3, Zenon
  <2>3. /\ c \in Word
        /\ \A k \in 0 .. 31 :
             c[k] = IF 1 <= k /\ k - 1 <= 3 THEN w[k - 1 + 8] ELSE 0
    <3>1. 8 \in 0 .. 31 /\ 11 \in 0 .. 31 /\ 1 \in 0 .. 31 /\ 8 <= 11
      OBVIOUS
    <3>2. /\ c \in Word
          /\ \A k \in 0 .. 31 :
               c[k] = IF 1 <= k /\ k - 1 <= 11 - 8 THEN w[k - 1 + 8] ELSE 0
      BY <3>1, Shifted, Zenon
    <3>3. 11 - 8 = 3
      OBVIOUS
    <3>4. QED BY <3>2, <3>3, Zenon
  <2>4. /\ d \in Word
        /\ \A k \in 0 .. 31 :
             d[k] = IF 11 <= k /\ k - 11 <= 0 THEN w[k - 11 + 7] ELSE 0
    <3>1. 7 \in 0 .. 31 /\ 7 \in 0 .. 31 /\ 11 \in 0 .. 31 /\ 7 <= 7
      OBVIOUS
    <3>2. /\ d \in Word
          /\ \A k \in 0 .. 31 :
               d[k] = IF 11 <= k /\ k - 11 <= 7 - 7 THEN w[k - 11 + 7] ELSE 0
      BY <3>1, Shifted, Zenon
    <3>3. 7 - 7 = 0
      OBVIOUS
    <3>4. QED BY <3>2, <3>3, Zenon
  <2> HIDE DEF a, b, c, d
  <2>5. /\ Or(a, b) \in Word /\ Or(c, d) \in Word
        /\ \A k \in 0 .. 31 : Or(a, b)[k] = IF a[k] = 1 \/ b[k] = 1 THEN 1 ELSE 0
        /\ \A k \in 0 .. 31 : Or(c, d)[k] = IF c[k] = 1 \/ d[k] = 1 THEN 1 ELSE 0
    BY <2>1, <2>2, <2>3, <2>4, OrBits, Zenon
  <2>6. /\ imm \in Word
        /\ \A k \in 0 .. 31 : imm[k] = IF a[k] = 1 \/ b[k] = 1 \/ c[k] = 1 \/ d[k] = 1
                                       THEN 1 ELSE 0
    BY <2>5, OrBits
  <2> HIDE DEF imm
  <2>7. \A k \in 0 .. 31 : imm[k] = IF k = 0 THEN 0
                                    ELSE IF k <= 4 THEN w[k + 7]
                                    ELSE IF k <= 10 THEN w[k + 20]
                                    ELSE IF k = 11 THEN w[7]
                                    ELSE IF k = 12 THEN w[31] ELSE 0
    BY <1>1, <2>1, <2>2, <2>3, <2>4, <2>6
  <2>8. \A k \in 0 .. 63 : ImmediateB(w)[k] = IF k = 0 THEN 0
                                      ELSE IF k <= 4 THEN w[k + 7]
                                      ELSE IF k <= 10 THEN w[k + 20]
                                      ELSE IF k = 11 THEN w[7] ELSE w[31]
    BY DEF ImmediateB
  <2>9. ImmediateB(w) \in Long
    BY <1>1 DEF ImmediateB, Long, DOUBLEWORD
  <2>10. 12 \in 0 .. 31
    OBVIOUS
  <2>11. \A k \in 0 .. 12 : imm[k] = ImmediateB(w)[k]
    BY <2>6, <2>7, <2>8
  <2>12. \A k \in 12 + 1 .. 31 : imm[k] = 0
    BY <2>6, <2>7
  <2>13. \A k \in 12 + 1 .. 63 : ImmediateB(w)[k] = ImmediateB(w)[12]
    BY <2>8
  <2>14. sign_expand(imm, 12) = ImmediateB(w)
    <3>1. imm \in Word
      BY <2>6
    <3>2. QED BY <3>1, <2>9, <2>10, <2>11, <2>12, <2>13, SignExpanded, ZenonT(60)
  <2>15. QED BY <2>14 DEF get_imm_sb, a, b, c, d, imm
<1>5. get_imm_u(w) = ImmediateU(w)
  <2> DEFINE imm == ShiftLeft(get_bits(w, 12, 31), 12)
  <2>1. /\ imm \in Word
        /\ \A k \in 0 .. 31 :
             imm[k] = IF 12 <= k /\ k - 12 <= 19 THEN w[k - 12 + 12] ELSE 0
    <3>1. 12 \in 0 .. 31 /\ 31 \in 0 .. 31 /\ 12 \in 0 .. 31 /\ 12 <= 31
      OBVIOUS
    <3>2. /\ imm \in Word
          /\ \A k \in 0 .. 31 :
               imm[k] = IF 12 <= k /\ k - 12 <= 31 - 12 THEN w[k - 12 + 12] ELSE 0
      BY <3>1, Shifted, Zenon
    <3>3. 31 - 12 = 19
      OBVIOUS
    <3>4. QED BY <3>2, <3>3, Zenon
  <2> HIDE DEF imm
  <2>2. \A k \in 0 .. 63 : ImmediateU(w)[k] = IF k <= 11 THEN 0
                                      ELSE IF k <= 30 THEN w[k] ELSE w[31]
    BY DEF ImmediateU
  <2>3. ImmediateU(w) \in Long
    BY <1>1 DEF ImmediateU, Long, DOUBLEWORD
  <2>4. 31 \in 0 .. 31
    OBVIOUS
  <2>5. \A k \in 0 .. 31 : imm[k] = ImmediateU(w)[k]
    BY <2>1, <2>2
  <2>6. \A k \in 31 + 1 .. 31 : imm[k] = 0
    BY <2>1
  <2>7. \A k \in 31 + 1 .. 63 : ImmediateU(w)[k] = ImmediateU(w)[31]
    BY <2>2
  <2>8. sign_expand(imm, 31) = ImmediateU(w)
    <3>1. imm \in Word
      BY <2>1
    <3>2. QED BY <3>1, <2>3, <2>4, <2>5, <2>6, <2>7, SignExpanded, ZenonT(60)
  <2>9. QED BY <2>8 DEF get_imm_u, imm
<1>6. get_imm_uj(w) = ImmediateJ(w)
  <2> DEFINE a == ShiftLeft(get_bits(w, 31, 31), 20)
             b == ShiftLeft(get_bits(w, 21, 30), 1)
             c == ShiftLeft(get_bits(w, 20, 20), 11)
             d == ShiftLeft(get_bits(w, 12, 19), 12)
             imm == Or(Or(a, b), Or(c, d))
  <2>1. /\ a \in Word
        /\ \A k \in 0 .. 31 :
             a[k] = IF 20 <= k /\ k - 20 <= 0 THEN w[k - 20 + 31] ELSE 0
    <3>1. 31 \in 0 .. 31 /\ 31 \in 0 .. 31 /\ 20 \in 0 .. 31 /\ 31 <= 31
      OBVIOUS
    <3>2. /\ a \in Word
          /\ \A k \in 0 .. 31 :
               a[k] = IF 20 <= k /\ k - 20 <= 31 - 31 THEN w[k - 20 + 31] ELSE 0
      BY <3>1, Shifted, Zenon
    <3>3. 31 - 31 = 0
      OBVIOUS
    <3>4. QED BY <3>2, <3>3, Zenon
  <2>2. /\ b \in Word
        /\ \A k \in 0 .. 31 :
             b[k] = IF 1 <= k /\ k - 1 <= 9 THEN w[k - 1 + 21] ELSE 0
    <3>1. 21 \in 0 .. 31 /\ 30 \in 0 .. 31 /\ 1 \in 0 .. 31 /\ 21 <= 30
      OBVIOUS
    <3>2. /\ b \in Word
          /\ \A k \in 0 .. 31 :
               b[k] = IF 1 <= k /\ k - 1 <= 30 - 21 THEN w[k - 1 + 21] ELSE 0
      BY <3>1, Shifted, Zenon
    <3>3. 30 - 21 = 9
      OBVIOUS
    <3>4. QED BY <3>2, <3>3, Zenon
  <2>3. /\ c \in Word
        /\ \A k \in 0 .. 31 :
             c[k] = IF 11 <= k /\ k - 11 <= 0 THEN w[k - 11 + 20] ELSE 0
    <3>1. 20 \in 0 .. 31 /\ 20 \in 0 .. 31 /\ 11 \in 0 .. 31 /\ 20 <= 20
      OBVIOUS
    <3>2. /\ c \in Word
          /\ \A k \in 0 .. 31 :
               c[k] = IF 11 <= k /\ k - 11 <= 20 - 20 THEN w[k - 11 + 20] ELSE 0
      BY <3>1, Shifted, Zenon
    <3>3. 20 - 20 = 0
      OBVIOUS
    <3>4. QED BY <3>2, <3>3, Zenon
  <2>4. /\ d \in Word
        /\ \A k \in 0 .. 31 :
             d[k] = IF 12 <= k /\ k - 12 <= 7 THEN w[k - 12 + 12] ELSE 0
    <3>1. 12 \in 0 .. 31 /\ 19 \in 0 .. 31 /\ 12 \in 0 .. 31 /\ 12 <= 19
      OBVIOUS
    <3>2. /\ d \in Word
          /\ \A k \in 0 .. 31 :
               d[k] = IF 12 <= k /\ k - 12 <= 19 - 12 THEN w[k - 12 + 12] ELSE 0
      BY <3>1, Shifted, Zenon
    <3>3. 19 - 12 = 7
      OBVIOUS
    <3>4. QED BY <3>2, <3>3, Zenon
  <2> HIDE DEF a, b, c, d
  <2>5. /\ Or(a, b) \in Word /\ Or(c, d) \in Word
        /\ \A k \in 0 .. 31 : Or(a, b)[k] = IF a[k] = 1 \/ b[k] = 1 THEN 1 ELSE 0
        /\ \A k \in 0 .. 31 : Or(c, d)[k] = IF c[k] = 1 \/ d[k] = 1 THEN 1 ELSE 0
    BY <2>1, <2>2, <2>3, <2>4, OrBits, Zenon
  <2>6. /\ imm \in Word
        /\ \A k \in 0 .. 31 : imm[k] = IF a[k] = 1 \/ b[k] = 1 \/ c[k] = 1 \/ d[k] = 1
                                       THEN 1 ELSE 0
    BY <2>5, OrBits
  <2> HIDE DEF imm
  <2>7. \A k \in 0 .. 31 : imm[k] = IF k = 0 THEN 0
                                    ELSE IF k <= 10 THEN w[k + 20]
                                    ELSE IF k = 11 THEN w[20]
                                    ELSE IF k <= 19 THEN w[k]
                                    ELSE IF k = 20 THEN w[31] ELSE 0
    BY <1>1, <2>1, <2>2, <2>3, <2>4, <2>6
  <2>8. \A k \in 0 .. 63 : ImmediateJ(w)[k] = IF k = 0 THEN 0
                                      ELSE IF k <= 10 THEN w[k + 20]
                                      ELSE IF k = 11 THEN w[20]
                                      ELSE IF k <= 19 THEN w[k] ELSE w[31]
    BY DEF ImmediateJ
  <2>9. ImmediateJ(w) \in Long
    BY <1>1 DEF ImmediateJ, Long, DOUBLEWORD
  <2>10. 20 \in 0 .. 31
    OBVIOUS
  <2>11. \A k \in 0 .. 20 : imm[k] = ImmediateJ(w)[k]
    BY <2>6, <2>7, <2>8
  <2>12. \A k \in 20 + 1 .. 31 : imm[k] = 0
    BY <2>6, <2>7
  <2>13. \A k \in 20 + 1 .. 63 : ImmediateJ(w)[k] = ImmediateJ(w)[20]
    BY <2>8
  <2>14. sign_expand(imm, 20) = ImmediateJ(w)
    <3>1. imm \in Word
      BY <2>6
    <3>2. QED BY <3>1, <2>9, <2>10, <2>11, <2>12, <2>13, SignExpanded, ZenonT(60)
  <2>15. QED BY <2>14 DEF get_imm_uj, a, b, c, d, imm
<1>7. QED BY <1>2, <1>3, <1>4, <1>5, <1>6 DEF ImmediateRight

=============================================================================
