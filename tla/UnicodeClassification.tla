------------------------- MODULE UnicodeClassification -------------------------
(***************************************************************************)
(* UnicodeClassification.cpp: general-category and combining-class        *)
(* lookups by binary search over tables of closed code-point ranges.  A   *)
(* range is <<first, last>>, or <<first, last, rank>> in CC.  The search  *)
(* is std::lower_bound with the ranges' operator<, which orders a range   *)
(* before another when its last code point is below the other's first.    *)
(***************************************************************************)
EXTENDS Naturals, Sequences

\* ClosedRange::Contains and ClosedRangeWithRank::Contains (lines 15, 22).
RangeContains(r, c) == r[1] <= c /\ c <= r[2]

\* An ordering that also puts a range before one starting at its last.
RangeLessInclusive(a, b) == a[2] <= b[1]

\* ClosedRange::operator< and ClosedRangeWithRank::operator< (lines 25-39).
RangeLess(a, b) == a[2] < b[1]

\* std::lower_bound(begin, end, one): the first position in
\* first..first+len-1 whose range is not less than one, halving the
\* count as libstdc++ does; first+len when there is none.
RECURSIVE LowerBoundFrom(_, _, _, _)
LowerBoundFrom(t, one, first, len) ==
    IF len = 0 THEN first
    ELSE LET half == len \div 2
             middle == first + half
         IN IF RangeLess(t[middle], one)
            THEN LowerBoundFrom(t, one, middle + 1, len - half - 1)
            ELSE LowerBoundFrom(t, one, first, half)

LowerBound(t, one) == LowerBoundFrom(t, one, 1, Len(t))

\* Contains(begin, end, character) (lines 41-52).
Contains(t, c) ==
    LET p == LowerBound(t, <<c, c>>)
    IN IF p >= Len(t) + 1 THEN FALSE ELSE RangeContains(t[p], c)

\* Rank(begin, end, character, d) (lines 54-66).  The rank -1U of the key
\* one is never compared, and is left out.
Rank(t, c, d) ==
    LET p == LowerBound(t, <<c, c>>)
    IN IF p >= Len(t) + 1 \/ ~RangeContains(t[p], c) THEN d ELSE t[p][3]


\* Mn[] (lines 70-136): non-spacing marks.
Mn == <<
    <<\h300, \h36F>>, <<\h483, \h487>>, <<\h591, \h5BD>>, <<\h5BF, \h5BF>>,
    <<\h5C1, \h5C2>>, <<\h5C4, \h5C5>>, <<\h5C7, \h5C7>>, <<\h610, \h61A>>,
    <<\h64B, \h65F>>, <<\h670, \h670>>, <<\h6D6, \h6DC>>, <<\h6DF, \h6E4>>,
    <<\h6E7, \h6E8>>, <<\h6EA, \h6ED>>, <<\h711, \h711>>, <<\h730, \h74A>>,
    <<\h7A6, \h7B0>>, <<\h7EB, \h7F3>>, <<\h816, \h819>>, <<\h81B, \h823>>,
    <<\h825, \h827>>, <<\h829, \h82D>>, <<\h859, \h85B>>, <<\h8E4, \h902>>,
    <<\h93A, \h93A>>, <<\h93C, \h93C>>, <<\h941, \h948>>, <<\h94D, \h94D>>,
    <<\h951, \h957>>, <<\h962, \h963>>, <<\h981, \h981>>, <<\h9BC, \h9BC>>,
    <<\h9C1, \h9C4>>, <<\h9CD, \h9CD>>, <<\h9E2, \h9E3>>, <<\hA01, \hA02>>,
    <<\hA3C, \hA3C>>, <<\hA41, \hA42>>, <<\hA47, \hA48>>, <<\hA4B, \hA4D>>,
    <<\hA51, \hA51>>, <<\hA70, \hA71>>, <<\hA75, \hA75>>, <<\hA81, \hA82>>,
    <<\hABC, \hABC>>, <<\hAC1, \hAC5>>, <<\hAC7, \hAC8>>, <<\hACD, \hACD>>,
    <<\hAE2, \hAE3>>, <<\hB01, \hB01>>, <<\hB3C, \hB3C>>, <<\hB3F, \hB3F>>,
    <<\hB41, \hB44>>, <<\hB4D, \hB4D>>, <<\hB56, \hB56>>, <<\hB62, \hB63>>,
    <<\hB82, \hB82>>, <<\hBC0, \hBC0>>, <<\hBCD, \hBCD>>, <<\hC00, \hC00>>,
    <<\hC3E, \hC40>>, <<\hC46, \hC48>>, <<\hC4A, \hC4D>>, <<\hC55, \hC56>>,
    <<\hC62, \hC63>>, <<\hC81, \hC81>>, <<\hCBC, \hCBC>>, <<\hCBF, \hCBF>>,
    <<\hCC6, \hCC6>>, <<\hCCC, \hCCD>>, <<\hCE2, \hCE3>>, <<\hD01, \hD01>>,
    <<\hD41, \hD44>>, <<\hD4D, \hD4D>>, <<\hD62, \hD63>>, <<\hDCA, \hDCA>>,
    <<\hDD2, \hDD4>>, <<\hDD6, \hDD6>>, <<\hE31, \hE31>>, <<\hE34, \hE3A>>,
    <<\hE47, \hE4E>>, <<\hEB1, \hEB1>>, <<\hEB4, \hEB9>>, <<\hEBB, \hEBC>>,
    <<\hEC8, \hECD>>, <<\hF18, \hF19>>, <<\hF35, \hF35>>, <<\hF37, \hF37>>,
    <<\hF39, \hF39>>, <<\hF71, \hF7E>>, <<\hF80, \hF84>>, <<\hF86, \hF87>>,
    <<\hF8D, \hF97>>, <<\hF99, \hFBC>>, <<\hFC6, \hFC6>>, <<\h102D, \h1030>>,
    <<\h1032, \h1037>>, <<\h1039, \h103A>>, <<\h103D, \h103E>>, <<\h1058, \h1059>>,
    <<\h105E, \h1060>>, <<\h1071, \h1074>>, <<\h1082, \h1082>>, <<\h1085, \h1086>>,
    <<\h108D, \h108D>>, <<\h109D, \h109D>>, <<\h135D, \h135F>>, <<\h1712, \h1714>>,
    <<\h1732, \h1734>>, <<\h1752, \h1753>>, <<\h1772, \h1773>>, <<\h17B4, \h17B5>>,
    <<\h17B7, \h17BD>>, <<\h17C6, \h17C6>>, <<\h17C9, \h17D3>>, <<\h17DD, \h17DD>>,
    <<\h180B, \h180D>>, <<\h18A9, \h18A9>>, <<\h1920, \h1922>>, <<\h1927, \h1928>>,
    <<\h1932, \h1932>>, <<\h1939, \h193B>>, <<\h1A17, \h1A18>>, <<\h1A1B, \h1A1B>>,
    <<\h1A56, \h1A56>>, <<\h1A58, \h1A5E>>, <<\h1A60, \h1A60>>, <<\h1A62, \h1A62>>,
    <<\h1A65, \h1A6C>>, <<\h1A73, \h1A7C>>, <<\h1A7F, \h1A7F>>, <<\h1AB0, \h1ABD>>,
    <<\h1B00, \h1B03>>, <<\h1B34, \h1B34>>, <<\h1B36, \h1B3A>>, <<\h1B3C, \h1B3C>>,
    <<\h1B42, \h1B42>>, <<\h1B6B, \h1B73>>, <<\h1B80, \h1B81>>, <<\h1BA2, \h1BA5>>,
    <<\h1BA8, \h1BA9>>, <<\h1BAB, \h1BAD>>, <<\h1BE6, \h1BE6>>, <<\h1BE8, \h1BE9>>,
    <<\h1BED, \h1BED>>, <<\h1BEF, \h1BF1>>, <<\h1C2C, \h1C33>>, <<\h1C36, \h1C37>>,
    <<\h1CD0, \h1CD2>>, <<\h1CD4, \h1CE0>>, <<\h1CE2, \h1CE8>>, <<\h1CED, \h1CED>>,
    <<\h1CF4, \h1CF4>>, <<\h1CF8, \h1CF9>>, <<\h1DC0, \h1DF5>>, <<\h1DFC, \h1DFF>>,
    <<\h20D0, \h20DC>>, <<\h20E1, \h20E1>>, <<\h20E5, \h20F0>>, <<\h2CEF, \h2CF1>>,
    <<\h2D7F, \h2D7F>>, <<\h2DE0, \h2DFF>>, <<\h302A, \h302D>>, <<\h3099, \h309A>>,
    <<\hA66F, \hA66F>>, <<\hA674, \hA67D>>, <<\hA69F, \hA69F>>, <<\hA6F0, \hA6F1>>,
    <<\hA802, \hA802>>, <<\hA806, \hA806>>, <<\hA80B, \hA80B>>, <<\hA825, \hA826>>,
    <<\hA8C4, \hA8C4>>, <<\hA8E0, \hA8F1>>, <<\hA926, \hA92D>>, <<\hA947, \hA951>>,
    <<\hA980, \hA982>>, <<\hA9B3, \hA9B3>>, <<\hA9B6, \hA9B9>>, <<\hA9BC, \hA9BC>>,
    <<\hA9E5, \hA9E5>>, <<\hAA29, \hAA2E>>, <<\hAA31, \hAA32>>, <<\hAA35, \hAA36>>,
    <<\hAA43, \hAA43>>, <<\hAA4C, \hAA4C>>, <<\hAA7C, \hAA7C>>, <<\hAAB0, \hAAB0>>,
    <<\hAAB2, \hAAB4>>, <<\hAAB7, \hAAB8>>, <<\hAABE, \hAABF>>, <<\hAAC1, \hAAC1>>,
    <<\hAAEC, \hAAED>>, <<\hAAF6, \hAAF6>>, <<\hABE5, \hABE5>>, <<\hABE8, \hABE8>>,
    <<\hABED, \hABED>>, <<\hFB1E, \hFB1E>>, <<\hFE00, \hFE0F>>, <<\hFE20, \hFE2D>>,
    <<\h101FD, \h101FD>>, <<\h102E0, \h102E0>>, <<\h10376, \h1037A>>, <<\h10A01, \h10A03>>,
    <<\h10A05, \h10A06>>, <<\h10A0C, \h10A0F>>, <<\h10A38, \h10A3A>>, <<\h10A3F, \h10A3F>>,
    <<\h10AE5, \h10AE6>>, <<\h11001, \h11001>>, <<\h11038, \h11046>>, <<\h1107F, \h11081>>,
    <<\h110B3, \h110B6>>, <<\h110B9, \h110BA>>, <<\h11100, \h11102>>, <<\h11127, \h1112B>>,
    <<\h1112D, \h11134>>, <<\h11173, \h11173>>, <<\h11180, \h11181>>, <<\h111B6, \h111BE>>,
    <<\h1122F, \h11231>>, <<\h11234, \h11234>>, <<\h11236, \h11237>>, <<\h112DF, \h112DF>>,
    <<\h112E3, \h112EA>>, <<\h11301, \h11301>>, <<\h1133C, \h1133C>>, <<\h11340, \h11340>>,
    <<\h11366, \h1136C>>, <<\h11370, \h11374>>, <<\h114B3, \h114B8>>, <<\h114BA, \h114BA>>,
    <<\h114BF, \h114C0>>, <<\h114C2, \h114C3>>, <<\h115B2, \h115B5>>, <<\h115BC, \h115BD>>,
    <<\h115BF, \h115C0>>, <<\h11633, \h1163A>>, <<\h1163D, \h1163D>>, <<\h1163F, \h11640>>,
    <<\h116AB, \h116AB>>, <<\h116AD, \h116AD>>, <<\h116B0, \h116B5>>, <<\h116B7, \h116B7>>,
    <<\h16AF0, \h16AF4>>, <<\h16B30, \h16B36>>, <<\h16F8F, \h16F92>>, <<\h1BC9D, \h1BC9E>>,
    <<\h1D167, \h1D169>>, <<\h1D17B, \h1D182>>, <<\h1D185, \h1D18B>>, <<\h1D1AA, \h1D1AD>>,
    <<\h1D242, \h1D244>>, <<\h1E8D0, \h1E8D6>>, <<\hE0100, \hE01EF>>
    >>

\* Me[] (lines 137-139): enclosing marks.
Me == <<
    <<\h488, \h489>>, <<\h1ABE, \h1ABE>>, <<\h20DD, \h20E4>>, <<\hA670, \hA672>>
    >>

\* Cf[] (lines 140-145): format characters.
Cf == <<
    <<\hAD, \hAD>>, <<\h600, \h605>>, <<\h61C, \h61C>>, <<\h6DD, \h6DD>>,
    <<\h70F, \h70F>>, <<\h180E, \h180E>>, <<\h200B, \h200F>>, <<\h202A, \h202E>>,
    <<\h2060, \h2064>>, <<\h2066, \h206F>>, <<\hFEFF, \hFEFF>>, <<\hFFF9, \hFFFB>>,
    <<\h110BD, \h110BD>>, <<\h1BCA0, \h1BCA3>>, <<\h1D173, \h1D17A>>, <<\hE0001, \hE007F>>
    >>

\* CC[] (lines 149-469): canonical combining classes.
CC == <<
    <<\h300, \h314, 230>>, <<\h315, \h315, 232>>, <<\h316, \h319, 220>>, <<\h31A, \h31A, 232>>,
    <<\h31B, \h31B, 216>>, <<\h31C, \h320, 220>>, <<\h321, \h322, 202>>, <<\h323, \h326, 220>>,
    <<\h327, \h328, 202>>, <<\h329, \h333, 220>>, <<\h334, \h338, 1>>, <<\h339, \h33C, 220>>,
    <<\h33D, \h344, 230>>, <<\h345, \h345, 240>>, <<\h346, \h346, 230>>, <<\h347, \h349, 220>>,
    <<\h34A, \h34C, 230>>, <<\h34D, \h34E, 220>>, <<\h350, \h352, 230>>, <<\h353, \h356, 220>>,
    <<\h357, \h357, 230>>, <<\h358, \h358, 232>>, <<\h359, \h35A, 220>>, <<\h35B, \h35B, 230>>,
    <<\h35C, \h35C, 233>>, <<\h35D, \h35E, 234>>, <<\h35F, \h35F, 233>>, <<\h360, \h361, 234>>,
    <<\h362, \h362, 233>>, <<\h363, \h36F, 230>>, <<\h483, \h487, 230>>, <<\h591, \h591, 220>>,
    <<\h592, \h595, 230>>, <<\h596, \h596, 220>>, <<\h597, \h599, 230>>, <<\h59A, \h59A, 222>>,
    <<\h59B, \h59B, 220>>, <<\h59C, \h5A1, 230>>, <<\h5A2, \h5A7, 220>>, <<\h5A8, \h5A9, 230>>,
    <<\h5AA, \h5AA, 220>>, <<\h5AB, \h5AC, 230>>, <<\h5AD, \h5AD, 222>>, <<\h5AE, \h5AE, 228>>,
    <<\h5AF, \h5AF, 230>>, <<\h5B0, \h5B0, 10>>, <<\h5B1, \h5B1, 11>>, <<\h5B2, \h5B2, 12>>,
    <<\h5B3, \h5B3, 13>>, <<\h5B4, \h5B4, 14>>, <<\h5B5, \h5B5, 15>>, <<\h5B6, \h5B6, 16>>,
    <<\h5B7, \h5B7, 17>>, <<\h5B8, \h5B8, 18>>, <<\h5B9, \h5BA, 19>>, <<\h5BB, \h5BB, 20>>,
    <<\h5BC, \h5BC, 21>>, <<\h5BD, \h5BD, 22>>, <<\h5BF, \h5BF, 23>>, <<\h5C1, \h5C1, 24>>,
    <<\h5C2, \h5C2, 25>>, <<\h5C4, \h5C4, 230>>, <<\h5C5, \h5C5, 220>>, <<\h5C7, \h5C7, 18>>,
    <<\h610, \h617, 230>>, <<\h618, \h618, 30>>, <<\h619, \h619, 31>>, <<\h61A, \h61A, 32>>,
    <<\h64B, \h64B, 27>>, <<\h64C, \h64C, 28>>, <<\h64D, \h64D, 29>>, <<\h64E, \h64E, 30>>,
    <<\h64F, \h64F, 31>>, <<\h650, \h650, 32>>, <<\h651, \h651, 33>>, <<\h652, \h652, 34>>,
    <<\h653, \h654, 230>>, <<\h655, \h656, 220>>, <<\h657, \h65B, 230>>, <<\h65C, \h65C, 220>>,
    <<\h65D, \h65E, 230>>, <<\h65F, \h65F, 220>>, <<\h670, \h670, 35>>, <<\h6D6, \h6DC, 230>>,
    <<\h6DF, \h6E2, 230>>, <<\h6E3, \h6E3, 220>>, <<\h6E4, \h6E4, 230>>, <<\h6E7, \h6E8, 230>>,
    <<\h6EA, \h6EA, 220>>, <<\h6EB, \h6EC, 230>>, <<\h6ED, \h6ED, 220>>, <<\h711, \h711, 36>>,
    <<\h730, \h730, 230>>, <<\h731, \h731, 220>>, <<\h732, \h733, 230>>, <<\h734, \h734, 220>>,
    <<\h735, \h736, 230>>, <<\h737, \h739, 220>>, <<\h73A, \h73A, 230>>, <<\h73B, \h73C, 220>>,
    <<\h73D, \h73D, 230>>, <<\h73E, \h73E, 220>>, <<\h73F, \h741, 230>>, <<\h742, \h742, 220>>,
    <<\h743, \h743, 230>>, <<\h744, \h744, 220>>, <<\h745, \h745, 230>>, <<\h746, \h746, 220>>,
    <<\h747, \h747, 230>>, <<\h748, \h748, 220>>, <<\h749, \h74A, 230>>, <<\h7EB, \h7F1, 230>>,
    <<\h7F2, \h7F2, 220>>, <<\h7F3, \h7F3, 230>>, <<\h816, \h819, 230>>, <<\h81B, \h823, 230>>,
    <<\h825, \h827, 230>>, <<\h829, \h82D, 230>>, <<\h859, \h85B, 220>>, <<\h8E4, \h8E5, 230>>,
    <<\h8E6, \h8E6, 220>>, <<\h8E7, \h8E8, 230>>, <<\h8E9, \h8E9, 220>>, <<\h8EA, \h8EC, 230>>,
    <<\h8ED, \h8EF, 220>>, <<\h8F0, \h8F0, 27>>, <<\h8F1, \h8F1, 28>>, <<\h8F2, \h8F2, 29>>,
    <<\h8F3, \h8F5, 230>>, <<\h8F6, \h8F6, 220>>, <<\h8F7, \h8F8, 230>>, <<\h8F9, \h8FA, 220>>,
    <<\h8FB, \h8FF, 230>>, <<\h93C, \h93C, 7>>, <<\h94D, \h94D, 9>>, <<\h951, \h951, 230>>,
    <<\h952, \h952, 220>>, <<\h953, \h954, 230>>, <<\h9BC, \h9BC, 7>>, <<\h9CD, \h9CD, 9>>,
    <<\hA3C, \hA3C, 7>>, <<\hA4D, \hA4D, 9>>, <<\hABC, \hABC, 7>>, <<\hACD, \hACD, 9>>,
    <<\hB3C, \hB3C, 7>>, <<\hB4D, \hB4D, 9>>, <<\hBCD, \hBCD, 9>>, <<\hC4D, \hC4D, 9>>,
    <<\hC55, \hC55, 84>>, <<\hC56, \hC56, 91>>, <<\hCBC, \hCBC, 7>>, <<\hCCD, \hCCD, 9>>,
    <<\hD4D, \hD4D, 9>>, <<\hDCA, \hDCA, 9>>, <<\hE38, \hE39, 103>>, <<\hE3A, \hE3A, 9>>,
    <<\hE48, \hE4B, 107>>, <<\hEB8, \hEB9, 118>>, <<\hEC8, \hECB, 122>>, <<\hF18, \hF19, 220>>,
    <<\hF35, \hF35, 220>>, <<\hF37, \hF37, 220>>, <<\hF39, \hF39, 216>>, <<\hF71, \hF71, 129>>,
    <<\hF72, \hF72, 130>>, <<\hF74, \hF74, 132>>, <<\hF7A, \hF7D, 130>>, <<\hF80, \hF80, 130>>,
    <<\hF82, \hF83, 230>>, <<\hF84, \hF84, 9>>, <<\hF86, \hF87, 230>>, <<\hFC6, \hFC6, 220>>,
    <<\h1037, \h1037, 7>>, <<\h1039, \h103A, 9>>, <<\h108D, \h108D, 220>>, <<\h135D, \h135F, 230>>,
    <<\h1714, \h1714, 9>>, <<\h1734, \h1734, 9>>, <<\h17D2, \h17D2, 9>>, <<\h17DD, \h17DD, 230>>,
    <<\h18A9, \h18A9, 228>>, <<\h1939, \h1939, 222>>, <<\h193A, \h193A, 230>>, <<\h193B, \h193B, 220>>,
    <<\h1A17, \h1A17, 230>>, <<\h1A18, \h1A18, 220>>, <<\h1A60, \h1A60, 9>>, <<\h1A75, \h1A7C, 230>>,
    <<\h1A7F, \h1A7F, 220>>, <<\h1AB0, \h1AB4, 230>>, <<\h1AB5, \h1ABA, 220>>, <<\h1ABB, \h1ABC, 230>>,
    <<\h1ABD, \h1ABD, 220>>, <<\h1B34, \h1B34, 7>>, <<\h1B44, \h1B44, 9>>, <<\h1B6B, \h1B6B, 230>>,
    <<\h1B6C, \h1B6C, 220>>, <<\h1B6D, \h1B73, 230>>, <<\h1BAA, \h1BAB, 9>>, <<\h1BE6, \h1BE6, 7>>,
    <<\h1BF2, \h1BF3, 9>>, <<\h1C37, \h1C37, 7>>, <<\h1CD0, \h1CD2, 230>>, <<\h1CD4, \h1CD4, 1>>,
    <<\h1CD5, \h1CD9, 220>>, <<\h1CDA, \h1CDB, 230>>, <<\h1CDC, \h1CDF, 220>>, <<\h1CE0, \h1CE0, 230>>,
    <<\h1CE2, \h1CE8, 1>>, <<\h1CED, \h1CED, 220>>, <<\h1CF4, \h1CF4, 230>>, <<\h1CF8, \h1CF9, 230>>,
    <<\h1DC0, \h1DC1, 230>>, <<\h1DC2, \h1DC2, 220>>, <<\h1DC3, \h1DC9, 230>>, <<\h1DCA, \h1DCA, 220>>,
    <<\h1DCB, \h1DCC, 230>>, <<\h1DCD, \h1DCD, 234>>, <<\h1DCE, \h1DCE, 214>>, <<\h1DCF, \h1DCF, 220>>,
    <<\h1DD0, \h1DD0, 202>>, <<\h1DD1, \h1DF5, 230>>, <<\h1DFC, \h1DFC, 233>>, <<\h1DFD, \h1DFD, 220>>,
    <<\h1DFE, \h1DFE, 230>>, <<\h1DFF, \h1DFF, 220>>, <<\h20D0, \h20D1, 230>>, <<\h20D2, \h20D3, 1>>,
    <<\h20D4, \h20D7, 230>>, <<\h20D8, \h20DA, 1>>, <<\h20DB, \h20DC, 230>>, <<\h20E1, \h20E1, 230>>,
    <<\h20E5, \h20E6, 1>>, <<\h20E7, \h20E7, 230>>, <<\h20E8, \h20E8, 220>>, <<\h20E9, \h20E9, 230>>,
    <<\h20EA, \h20EB, 1>>, <<\h20EC, \h20EF, 220>>, <<\h20F0, \h20F0, 230>>, <<\h2CEF, \h2CF1, 230>>,
    <<\h2D7F, \h2D7F, 9>>, <<\h2DE0, \h2DFF, 230>>, <<\h302A, \h302A, 218>>, <<\h302B, \h302B, 228>>,
    <<\h302C, \h302C, 232>>, <<\h302D, \h302D, 222>>, <<\h302E, \h302F, 224>>, <<\h3099, \h309A, 8>>,
    <<\hA66F, \hA66F, 230>>, <<\hA674, \hA67D, 230>>, <<\hA69F, \hA69F, 230>>, <<\hA6F0, \hA6F1, 230>>,
    <<\hA806, \hA806, 9>>, <<\hA8C4, \hA8C4, 9>>, <<\hA8E0, \hA8F1, 230>>, <<\hA92B, \hA92D, 220>>,
    <<\hA953, \hA953, 9>>, <<\hA9B3, \hA9B3, 7>>, <<\hA9C0, \hA9C0, 9>>, <<\hAAB0, \hAAB0, 230>>,
    <<\hAAB2, \hAAB3, 230>>, <<\hAAB4, \hAAB4, 220>>, <<\hAAB7, \hAAB8, 230>>, <<\hAABE, \hAABF, 230>>,
    <<\hAAC1, \hAAC1, 230>>, <<\hAAF6, \hAAF6, 9>>, <<\hABED, \hABED, 9>>, <<\hFB1E, \hFB1E, 26>>,
    <<\hFE20, \hFE26, 230>>, <<\hFE27, \hFE2D, 220>>, <<\h101FD, \h101FD, 220>>, <<\h102E0, \h102E0, 220>>,
    <<\h10376, \h1037A, 230>>, <<\h10A0D, \h10A0D, 220>>, <<\h10A0F, \h10A0F, 230>>, <<\h10A38, \h10A38, 230>>,
    <<\h10A39, \h10A39, 1>>, <<\h10A3A, \h10A3A, 220>>, <<\h10A3F, \h10A3F, 9>>, <<\h10AE5, \h10AE5, 230>>,
    <<\h10AE6, \h10AE6, 220>>, <<\h11046, \h11046, 9>>, <<\h1107F, \h1107F, 9>>, <<\h110B9, \h110B9, 9>>,
    <<\h110BA, \h110BA, 7>>, <<\h11100, \h11102, 230>>, <<\h11133, \h11134, 9>>, <<\h11173, \h11173, 7>>,
    <<\h111C0, \h111C0, 9>>, <<\h11235, \h11235, 9>>, <<\h11236, \h11236, 7>>, <<\h112E9, \h112E9, 7>>,
    <<\h112EA, \h112EA, 9>>, <<\h1133C, \h1133C, 7>>, <<\h1134D, \h1134D, 9>>, <<\h11366, \h1136C, 230>>,
    <<\h11370, \h11374, 230>>, <<\h114C2, \h114C2, 9>>, <<\h114C3, \h114C3, 7>>, <<\h115BF, \h115BF, 9>>,
    <<\h115C0, \h115C0, 7>>, <<\h1163F, \h1163F, 9>>, <<\h116B6, \h116B6, 9>>, <<\h116B7, \h116B7, 7>>,
    <<\h16AF0, \h16AF4, 1>>, <<\h16B30, \h16B36, 230>>, <<\h1BC9E, \h1BC9E, 1>>, <<\h1D165, \h1D166, 216>>,
    <<\h1D167, \h1D169, 1>>, <<\h1D16D, \h1D16D, 226>>, <<\h1D16E, \h1D172, 216>>, <<\h1D17B, \h1D182, 220>>,
    <<\h1D185, \h1D189, 230>>, <<\h1D18A, \h1D18B, 220>>, <<\h1D1AA, \h1D1AD, 230>>, <<\h1D242, \h1D244, 230>>,
    <<\h1E8D0, \h1E8D6, 220>>
    >>

\* The public functions (lines 476-498).
IsMarkNonSpacing(c) == Contains(Mn, c)
IsMarkEnclosing(c) == Contains(Me, c)
IsOtherFormat(c) == Contains(Cf, c)
CombiningClass(c) == Rank(CC, c, 0)
=============================================================================
