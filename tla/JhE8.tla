-------------------------------- MODULE JhE8 --------------------------------
(***************************************************************************)
(* F8 of c_jh.c, a round of E8 at a time, and what JH says a round is: a   *)
(* substitution and a linear map on 256 elements of four bits, which are   *)
(* then permuted.  E8 keeps the elements in their columns and exchanges    *)
(* bits of the odd rows instead, so that the columns of a round hold the   *)
(* elements in another order, which comes round after seven rounds.        *)
(*                                                                         *)
(* A row of the state, x[j][0] and x[j][1], is the set of the columns that *)
(* have a 1, in the order of memory with the high bit of a byte first.     *)
(***************************************************************************)
EXTENDS Words

JhRows == 0..7
Columns == 0..127

(* The columns of a table that is given by its bytes, two at a time. *)
AsColumns(groups) == UNION {{16 * k - 1 - b : b \in Bits(groups[k])} : k \in DOMAIN groups}

E8_bitslice_roundconstant ==
  << <<\h72d5, \hdea2, \hdf15, \hf867, \h7b84, \h150a, \hb723, \h1557, \h81ab, \hd690, \h4d5a, \h87f6, \h4e9f, \h4fc5, \hc3d1, \h2b40>>,
     <<\hea98, \h3ae0, \h5c45, \hfa9c, \h3c5, \hd299, \h66b2, \h999a, \h6602, \h96b4, \hf2bb, \h538a, \hb556, \h141a, \h88db, \ha231>>,
     <<\h3a3, \h5a5c, \h9a19, \hedb, \h403f, \hb20a, \h87c1, \h4410, \h1c05, \h1980, \h849e, \h951d, \h6f33, \hebad, \h5ee7, \hcddc>>,
     <<\h10ba, \h1392, \h2bf, \h6b41, \hdc78, \h6515, \hf7bb, \h27d0, \ha2c, \h8139, \h37aa, \h7850, \h3f1a, \hbfd2, \h4100, \h91d3>>,
     <<\h422d, \h5a0d, \hf6cc, \h7e90, \hdd62, \h9f9c, \h92c0, \h97ce, \h185c, \ha70b, \hc72b, \h44ac, \hd1df, \h65d6, \h63c6, \hfc23>>,
     <<\h976e, \h6c03, \h9ee0, \hb81a, \h2105, \h457e, \h446c, \heca8, \heef1, \h3bb, \h5d8e, \h61fa, \hfd96, \h97b2, \h9483, \h8197>>,
     <<\h4a8e, \h8537, \hdb03, \h302f, \h2a67, \h8d2d, \hfb9f, \h6a95, \h8afe, \h7381, \hf8b8, \h696c, \h8ac7, \h7246, \hc07f, \h4214>>,
     <<\hc5f4, \h158f, \hbdc7, \h5ec4, \h7544, \h6fa7, \h8f11, \hbb80, \h52de, \h75b7, \haee4, \h88bc, \h82b8, \h1e, \h98a6, \ha3f4>>,
     <<\h8ef4, \h8f33, \ha9a3, \h6315, \haa5f, \h5624, \hd5b7, \hf989, \hb6f1, \hed20, \h7c5a, \he0fd, \h36ca, \he95a, \h642, \h2c36>>,
     <<\hce29, \h3543, \h4efe, \h983d, \h533a, \hf974, \h739a, \h4ba7, \hd0f5, \h1f59, \h6f4e, \h8186, \he9d, \had81, \hafd8, \h5a9f>>,
     <<\ha705, \h667, \hee34, \h626a, \h8b0b, \h28be, \h6eb9, \h1727, \h4774, \h726, \hc680, \h103f, \he0a0, \h7e6f, \hc67e, \h487b>>,
     <<\hd55, \haa5, \h4af8, \ha4c0, \h91e3, \he79f, \h978e, \hf19e, \h8676, \h7281, \h5060, \h8dd4, \h7e9e, \h5a41, \hf3e5, \hb062>>,
     <<\hfc9f, \h1fec, \h4054, \h207a, \he3e4, \h1a00, \hcef4, \hc984, \h4fd7, \h94f5, \h9dfa, \h95d8, \h552e, \h7e11, \h24c3, \h54a5>>,
     <<\h5bdf, \h7228, \hbdfe, \h6e28, \h78f5, \h7fe2, \hfa5, \hc4b2, \h589, \h7cef, \hee49, \hd32e, \h447e, \h9385, \heb28, \h597f>>,
     <<\h705f, \h6937, \hb324, \h314a, \h5e86, \h28f1, \h1dd6, \he465, \hc71b, \h7704, \h51b9, \h20e7, \h74fe, \h43e8, \h23d4, \h878a>>,
     <<\h7d29, \he8a3, \h9276, \h94f2, \hddcb, \h7a09, \h9b30, \hd9c1, \h1d1b, \h30fb, \h5bdc, \h1be0, \hda24, \h494f, \hf29c, \h82bf>>,
     <<\ha4e7, \hba31, \hb470, \hbfff, \hd32, \h4405, \hdef8, \hbc48, \h3bae, \hfc32, \h53bb, \hd339, \h459f, \hc3c1, \he029, \h8ba0>>,
     <<\he5c9, \h5fd, \hf7ae, \h90f, \h9470, \h3412, \h4290, \hf134, \ha271, \hb701, \he344, \hed95, \he93b, \h8e36, \h4f2f, \h984a>>,
     <<\h8840, \h1d63, \ha06c, \hf615, \h47c1, \h444b, \h8752, \hafff, \h7ebb, \h4af1, \he20a, \hc630, \h4670, \hb6c5, \hcc6e, \h8ce6>>,
     <<\ha4d5, \ha456, \hbd4f, \hca00, \hda9d, \h844b, \hc83e, \h18ae, \h7357, \hce45, \h3064, \hd1ad, \he8a6, \hce68, \h145c, \h2567>>,
     <<\ha3da, \h8cf2, \hcb0e, \he116, \h33e9, \h658, \h9a94, \h999a, \h1f60, \hb220, \hc26f, \h847b, \hd1ce, \hac7f, \ha0d1, \h8518>>,
     <<\h3259, \h5ba1, \h8ddd, \h19d3, \h509a, \h1cc0, \haaa5, \hb446, \h9f3d, \h6367, \he404, \h6bba, \hf6ca, \h19ab, \hb56, \hee7e>>,
     <<\h1fb1, \h79ea, \ha928, \h2174, \he9bd, \hf735, \h3b36, \h51ee, \h1d57, \hac5a, \h7550, \hd376, \h3a46, \hc2fe, \ha37d, \h7001>>,
     <<\hf735, \hc1af, \h98a4, \hd842, \h78ed, \hec20, \h9e6b, \h6779, \h4183, \h6315, \hea3a, \hdba8, \hfac3, \h3b4d, \h3283, \h2c83>>,
     <<\ha740, \h3b1f, \h1c27, \h47f3, \h5940, \hf034, \hb72d, \h769a, \he73e, \h4e6c, \hd221, \h4ffd, \hb8fd, \h8d39, \hdc57, \h59ef>>,
     <<\h8d9b, \hc49, \h2b49, \hebda, \h5ba2, \hd749, \h68f3, \h700d, \h7d3b, \haed0, \h7a8d, \h5584, \hf5a5, \he9f0, \he4f8, \h8e65>>,
     <<\ha0b8, \ha2f4, \h3610, \h3b53, \hca8, \h79e, \h753e, \hec5a, \h9168, \h9492, \h56e8, \h884f, \h5bb0, \h5c55, \hf8ba, \hbc4c>>,
     <<\he3bb, \h3b99, \hf387, \h947b, \h75da, \hf4d6, \h726b, \h1c5d, \h64ae, \hac28, \hdc34, \hb36d, \h6c34, \ha550, \hb828, \hdb71>>,
     <<\hf861, \he2f2, \h108d, \h512a, \he3db, \h6433, \h59dd, \h75fc, \h1cac, \hbcf1, \h43ce, \h3fa2, \h67bb, \hd13c, \h2e8, \h43b0>>,
     <<\h330a, \h5bca, \h8829, \ha175, \h7f34, \h194d, \hb416, \h535c, \h923b, \h94c3, \he79, \h4d1e, \h7974, \h75d7, \hb6ee, \haf3f>>,
     <<\heaa8, \hd4f7, \hbe1a, \h3921, \h5cf4, \h7e09, \h4c23, \h2751, \h26a3, \h2453, \hba32, \h3cd2, \h44a3, \h174a, \h6da6, \hd5ad>>,
     <<\hb51d, \h3ea6, \haff2, \hc908, \h8359, \h3d98, \h916b, \h3c56, \h4cf8, \h7ca1, \h7286, \h604d, \h46e2, \h3ecc, \h86e, \hc7f6>>,
     <<\h2f98, \h33b3, \hb1bc, \h765e, \h2bd6, \h66a5, \hefc4, \he62a, \h6f4, \hb6e8, \hbec1, \hd436, \h74ee, \h8215, \hbcef, \h2163>>,
     <<\hfdc1, \h4e0d, \hf453, \hc969, \ha77d, \h5ac4, \h658, \h5826, \h7ec1, \h1416, \h6e0, \hfa16, \h7e90, \haf3d, \h2863, \h9d3f>>,
     <<\hd2c9, \hf2e3, \h9b, \hd20c, \h5faa, \hce30, \hb7d4, \hc30, \h742a, \h5116, \hf2e0, \h3298, \hdeb, \h30d8, \he3ce, \hf89a>>,
     <<\h4bc5, \h9e7b, \hb5f1, \h7992, \hff51, \he66e, \h486, \h68d3, \h9b23, \h4d57, \he696, \h6731, \hcce6, \ha6f3, \h170a, \h7505>>,
     <<\hb176, \h81d9, \h1332, \h6cce, \h3c17, \h5284, \hf805, \ha262, \hf42b, \hcbb3, \h7847, \h1547, \hff46, \h5482, \h2393, \h6a48>>,
     <<\h38df, \h5807, \h4e5e, \h6565, \hf2fc, \h7c89, \hfc86, \h508e, \h3170, \h2e44, \hd00b, \hca86, \hf040, \h9a2, \h3078, \h474e>>,
     <<\h65a0, \hee39, \hd1f7, \h3883, \hf75e, \he937, \he42c, \h3abd, \h2197, \hb226, \h113, \hf86f, \ha344, \hedd1, \hef9f, \hdee7>>,
     <<\h8ba0, \hdf15, \h7625, \h92d9, \h3c85, \hf7f6, \h12dc, \h42be, \hd8a7, \hec7c, \hab27, \hb07e, \h538d, \h7dda, \haa3e, \ha8de>>,
     <<\haa25, \hce93, \hbd02, \h69d8, \h5af6, \h43fd, \h1a73, \h8f9, \hc05f, \hefda, \h174a, \h19a5, \h974d, \h6633, \h4cfd, \h216a>>,
     <<\h35b4, \h9831, \hdb41, \h1570, \hea1e, \hfbb, \hedcd, \h549b, \h9ad0, \h63a1, \h5197, \h4072, \hf675, \h9dbf, \h9147, \h6fe2>> >>

JH256_H0 ==
  << <<\heb98, \ha341, \h2c20, \hd3eb, \h92cd, \hbe7b, \h9cb2, \h45c1>>,
     <<\h1c93, \h5191, \h60d4, \hc7fa, \h2600, \h82d6, \h7e50, \h8a03>>,
     <<\ha423, \h9e26, \h7726, \hb945, \he0fb, \h1a48, \hd41a, \h9477>>,
     <<\hcdb5, \hab26, \h26b, \h177a, \h56f0, \h2442, \hfff, \h2fa8>>,
     <<\h71a3, \h9689, \h7f2e, \h4d75, \h1d14, \h4908, \hf77d, \he262>>,
     <<\h2776, \h95f7, \h7624, \h8f94, \h87d5, \hb657, \h4780, \h296c>>,
     <<\h5c5e, \h272d, \hac8e, \hd6c, \h5184, \h50c6, \h5705, \h7a0f>>,
     <<\h7be4, \hd367, \h7024, \h12ea, \h89e3, \hab13, \hd31c, \hd769>> >>

(* SWAP1 to SWAP32: neighbouring groups of n columns change places. *)
SwapColumns(n, row) == {IF (c \div n) % 2 = 0 THEN c + n ELSE c - n : c \in row}

(* One of the two S-boxes of SS, on four rows and a row of constants. *)
SS(m0, m1, m2, m3, cc) ==
  LET n3   == Columns \ m3
      a0   == XorBits(m0, cc \ m2)
      temp == XorBits(cc, a0 \intersect m1)
      b0   == XorBits(a0, m2 \intersect n3)
      a3   == XorBits(n3, m2 \ m1)
      a1   == XorBits(m1, b0 \intersect m2)
      a2   == XorBits(m2, b0 \ a3)
      c0   == XorBits(b0, a1 \union a3)
  IN  <<c0, XorBits(a1, temp \intersect c0), XorBits(a2, temp), XorBits(a3, a1 \intersect a2)>>

(* Mutant: L adds m5 to m0 before it has changed. *)
L_Unordered(e, o) ==
  LET m4 == XorBits(o[1], e[2])
      m5 == XorBits(o[2], e[3])
      m6 == XorAll(<<o[3], e[1], e[4]>>)
      m7 == XorBits(o[4], e[1])
  IN  <<XorBits(e[1], o[2]), m4, XorBits(e[2], m6), m5,
        XorAll(<<e[3], m4, m7>>), m6, XorBits(e[4], m4), m7>>

(* The MDS transform on the even rows e and the odd rows o, then all rows. *)
L(e, o) ==
  LET m4 == XorBits(o[1], e[2])
      m5 == XorBits(o[2], e[3])
      m6 == XorAll(<<o[3], e[1], e[4]>>)
      m7 == XorBits(o[4], e[1])
  IN  <<XorBits(e[1], m5), m4, XorBits(e[2], m6), m5,
        XorAll(<<e[3], m4, m7>>), m6, XorBits(e[4], m4), m7>>

E8Round(x, r) ==
  LET cc   == AsColumns(E8_bitslice_roundconstant[r + 1])    \* 256: one for each S-box
      rows == L(SS(x[0], x[2], x[4], x[6], cc \intersect Columns),
                SS(x[1], x[3], x[5], x[7], {c - 128 : c \in cc \ Columns}))
  IN  [j \in JhRows |-> IF j % 2 = 0 THEN rows[j + 1] ELSE SwapColumns(2^(r % 7), rows[j + 1])]

(* F8 before and after E8: the block, four rows of it, enters the first *)
(* four rows of the state and then the last four.                       *)
F8Enter(x, block) == [j \in JhRows |-> IF j < 4 THEN XorBits(x[j], block[j]) ELSE x[j]]
F8Leave(x, block) == [j \in JhRows |-> IF j < 4 THEN x[j] ELSE XorBits(x[j], block[j - 4])]
-----------------------------------------------------------------------------
(***************************************************************************)
(* The definition.  Elements are numbers below 16, in a sequence.          *)
(***************************************************************************)
S0 == <<9, 0, 4, 11, 13, 12, 3, 15, 1, 10, 2, 6, 7, 5, 8, 14>>
S1 == <<3, 12, 6, 13, 5, 7, 1, 9, 15, 2, 0, 4, 11, 10, 14, 8>>

Nibble(bits) ==
  LET Digit(i, value) == IF i \in bits THEN value ELSE 0
  IN  Digit(3, 8) + Digit(2, 4) + Digit(1, 2) + Digit(0, 1)
Added(a, b) == Nibble(XorBits(Bits(a), Bits(b)))
Twice(a) == IF a < 8 THEN 2 * a ELSE Added(2 * a - 16, 3)    \* in GF(2^4)

(* The linear map of each pair of substituted elements.  Then the first of *)
(* every pair goes to the front and the second to the back, the other way  *)
(* round in every second pair, and in the back neighbours change places.   *)
JhRound(q, c) ==
  LET half == Len(q) \div 2
      v(i) == (IF i \in c THEN S1 ELSE S0)[q[i] + 1]
      Second(i) == Added(v(2 * i), Twice(v(2 * i - 1)))
      First(i)  == Added(v(2 * i - 1), Twice(Second(i)))
  IN  [k \in 1..half |-> IF k % 2 = 1 THEN First(k) ELSE Second(k)]
        \o [k \in 1..half |-> IF k % 2 = 1 THEN First(k + 1) ELSE Second(k - 1)]

(* The constants of the rounds are 64 elements that go through rounds      *)
(* themselves, the first from the digits of the square root of 2; one bit  *)
(* of them chooses the substitution of an element.                         *)
FirstConstant ==
  <<6, 10, 0, 9, 14, 6, 6, 7, 15, 3, 11, 12, 12, 9, 0, 8, 11, 2, 15, 11, 1, 3, 6, 6, 14, 10, 9, 5, 7, 13, 3, 14,
    3, 10, 13, 14, 12, 1, 7, 5, 1, 2, 7, 7, 5, 0, 9, 9, 13, 10, 2, 15, 5, 9, 0, 11, 0, 6, 6, 7, 3, 2, 2, 10>>
NextConstant(c) == JhRound(c, {})
Chosen(c) == UNION {{4 * k - b : b \in Bits(c[k])} : k \in DOMAIN c}

(* Element i of a state of 1024 bits is bits i, 256 + i, 512 + i and       *)
(* 768 + i of it, in the order 0, 128, 1, 129 and so on; here as the rows  *)
(* of columns that E8 has before a round r, where a pair of neighbours is  *)
(* in a column of its place: one in the even rows, one in the odd ones.    *)
ColumnOfPair(r, pair) ==
  LET n == 2^(r % 7)
  IN  ((pair % (128 \div n)) * n) + (pair \div (128 \div n))
ElementAt(x, c, odd) == Nibble({b \in 0..3 : c \in x[2 * (3 - b) + odd]})
Elements(x, r) == [e \in 1..256 |-> ElementAt(x, ColumnOfPair(r, (e - 1) \div 2), (e - 1) % 2)]

(* The bits of a row of the table of E8 in the order of the elements they  *)
(* choose for, as the 64 elements that they are by definition.             *)
ChoosesAt(r, e) ==
  ColumnOfPair(r, (e - 1) \div 2) + 128 * ((e - 1) % 2) \in AsColumns(E8_bitslice_roundconstant[r + 1])
ConstantAt(r) == [k \in 1..64 |-> Nibble({b \in 0..3 : ChoosesAt(r, 4 * k - b)})]

(* The table has the constants of all 42 rounds. *)
ASSUME RoundConstantsOfE8 ==
  /\ \A r \in 0..41 : AsColumns(E8_bitslice_roundconstant[r + 1]) \subseteq 0..255
  /\ ConstantAt(0) = FirstConstant
  /\ \A r \in 0..40 : NextConstant(ConstantAt(r)) = ConstantAt(r + 1)
=============================================================================
