------------------------------- MODULE DeadKeys -------------------------------
(***************************************************************************)
(* The input method of console-fb-realizer.cpp: dead keys (combining      *)
(* marks) typed before a base character are held back, merged pairwise    *)
(* per ISO 9995-3, and composed with the base character by binary search  *)
(* of three tables of Combinations <<c1, c2, r>> (lines 1414-2479).       *)
(* Realizer::handle_character_input is HandleCharacterInput, a function   *)
(* of the held dead keys and the typed character giving the new held dead *)
(* keys and the code points written to the terminal, in order.            *)
(***************************************************************************)
EXTENDS Naturals
LOCAL INSTANCE SequencesExt
UC == INSTANCE UnicodeClassification

\* What Combine and combine_dead_keys report when no rule applies.
NotFound == -1

\* Zero-Width Non-Joiner (line 2558).
ZWNJ == \h200C

\* An ordering that looks at c1 alone.
CombinationLessByFirst(a, b) == a[1] < b[1]

\* Combination::operator< (line 1417): by c1, then by c2.
CombinationLess(a, b) == a[1] < b[1] \/ (a[1] = b[1] /\ a[2] < b[2])

\* std::lower_bound(begin, end, one) with Combination::operator<: the
\* first position of first..first+len-1 whose entry is not less than
\* one, halving as libstdc++ does.
RECURSIVE CombinationLowerBound(_, _, _, _)
CombinationLowerBound(t, one, first, len) ==
    IF len = 0 THEN first
    ELSE LET half == len \div 2
             middle == first + half
         IN IF CombinationLess(t[middle], one)
            THEN CombinationLowerBound(t, one, middle + 1, len - half - 1)
            ELSE CombinationLowerBound(t, one, first, half)

\* Combine(begin, end, c, b) (lines 2503-2514): the result r of the entry
\* the search lands on when it is <<c, b, r>>; NotFound otherwise.  The
\* key's r, -1U, is never compared.
Combine(t, c, b) ==
    LET p == CombinationLowerBound(t, <<c, b>>, 1, Len(t))
    IN IF p > Len(t) \/ t[p][1] # c \/ t[p][2] # b THEN NotFound ELSE t[p][3]

\* peculiar_combinations1[] (lines 1422-1441): dead key + dead key.
peculiar_combinations1 == <<
    <<\h300, \h300, \h30F>>, <<\h302, \h302, \h1DCD>>, <<\h303, \h303, \h360>>, <<\h304, \h304, \h35E>>,
    <<\h306, \h306, \h35D>>, <<\h307, \h306, \h310>>, <<\h30D, \h30D, \h30E>>, <<\h311, \h311, \h361>>,
    <<\h313, \h313, \h315>>, <<\h323, \h323, \h324>>, <<\h329, \h329, \h348>>, <<\h32E, \h32E, \h35C>>,
    <<\h331, \h331, \h347>>, <<\h332, \h332, \h35F>>
    >>

\* peculiar_combinations2[] (lines 1442-1533): dead key + base, and the
\* spacing forms (base 32), some of them NUL.
peculiar_combinations2 == <<
    <<\h300, \h20, \h60>>, <<\h301, \h20, \hB4>>, <<\h302, \h20, \h5E>>, <<\h303, \h20, \h7E>>,
    <<\h304, \h20, \hAF>>, <<\h306, \h20, \h2D8>>, <<\h307, \h20, \h2D9>>, <<\h308, \h20, \hA8>>,
    <<\h309, \h20, \h0>>, <<\h30A, \h20, \h2DA>>, <<\h30B, \h20, \h2DD>>, <<\h30C, \h20, \h2C7>>,
    <<\h30D, \h20, \h2C8>>, <<\h30E, \h20, \h0>>, <<\h30F, \h20, \h0>>, <<\h310, \h20, \h0>>,
    <<\h311, \h20, \h0>>, <<\h313, \h20, \h2BC>>, <<\h315, \h20, \h0>>, <<\h31B, \h20, \h0>>,
    <<\h323, \h20, \h0>>, <<\h324, \h20, \h0>>, <<\h325, \h20, \h0>>, <<\h326, \h20, \h0>>,
    <<\h327, \h20, \hB8>>, <<\h328, \h20, \h2DB>>, <<\h329, \h20, \h2CC>>, <<\h32D, \h20, \hA788>>,
    <<\h32E, \h20, \h0>>, <<\h331, \h20, \h2CD>>, <<\h331, \h3C, \h2264>>, <<\h331, \h3E, \h2265>>,
    <<\h332, \h20, \h0>>, <<\h335, \h20, \h2212>>, <<\h335, \h42, \h243>>, <<\h335, \h44, \h110>>,
    <<\h335, \h47, \h1E4>>, <<\h335, \h48, \h126>>, <<\h335, \h49, \h197>>, <<\h335, \h4A, \h248>>,
    <<\h335, \h4C, \h23D>>, <<\h335, \h4F, \h19F>>, <<\h335, \h50, \h2C63>>, <<\h335, \h52, \h24C>>,
    <<\h335, \h54, \h166>>, <<\h335, \h55, \h244>>, <<\h335, \h59, \h24E>>, <<\h335, \h5A, \h1B5>>,
    <<\h335, \h62, \h180>>, <<\h335, \h64, \h111>>, <<\h335, \h67, \h1E5>>, <<\h335, \h68, \h127>>,
    <<\h335, \h69, \h268>>, <<\h335, \h6A, \h249>>, <<\h335, \h6C, \h19A>>, <<\h335, \h6F, \h275>>,
    <<\h335, \h70, \h1D7D>>, <<\h335, \h72, \h24D>>, <<\h335, \h74, \h167>>, <<\h335, \h75, \h289>>,
    <<\h335, \h79, \h24F>>, <<\h335, \h7A, \h1B6>>, <<\h338, \h20, \h2215>>, <<\h338, \h3D, \h2260>>,
    <<\h338, \h41, \h23A>>, <<\h338, \h43, \h23B>>, <<\h338, \h45, \h246>>, <<\h338, \h4C, \h141>>,
    <<\h338, \h4F, \hD8>>, <<\h338, \h54, \h23E>>, <<\h338, \h61, \h2C65>>, <<\h338, \h63, \h23C>>,
    <<\h338, \h65, \h247>>, <<\h338, \h6C, \h142>>, <<\h338, \h6D, \h20A5>>, <<\h338, \h6F, \hF8>>,
    <<\h338, \h74, \h2C66>>, <<\h347, \h20, \h0>>, <<\h348, \h20, \h0>>, <<\h35C, \h20, \h0>>,
    <<\h35D, \h20, \h0>>, <<\h35E, \h20, \h0>>, <<\h35F, \h20, \h0>>, <<\h360, \h20, \h0>>,
    <<\h361, \h20, \h0>>, <<\h338, \hB0, \h2300>>
    >>

\* unicode_combinations[] (lines 1534-2479): Unicode canonical composition.
unicode_combinations == <<
    <<\h300, \h41, \hC0>>, <<\h300, \h45, \hC8>>, <<\h300, \h49, \hCC>>, <<\h300, \h4E, \h1F8>>,
    <<\h300, \h4F, \hD2>>, <<\h300, \h55, \hD9>>, <<\h300, \h57, \h1E80>>, <<\h300, \h59, \h1EF2>>,
    <<\h300, \h61, \hE0>>, <<\h300, \h65, \hE8>>, <<\h300, \h69, \hEC>>, <<\h300, \h6E, \h1F9>>,
    <<\h300, \h6F, \hF2>>, <<\h300, \h75, \hF9>>, <<\h300, \h77, \h1E81>>, <<\h300, \h79, \h1EF3>>,
    <<\h300, \hA8, \h1FED>>, <<\h300, \hC2, \h1EA6>>, <<\h300, \hCA, \h1EC0>>, <<\h300, \hD4, \h1ED2>>,
    <<\h300, \hDC, \h1DB>>, <<\h300, \hE2, \h1EA7>>, <<\h300, \hEA, \h1EC1>>, <<\h300, \hF4, \h1ED3>>,
    <<\h300, \hFC, \h1DC>>, <<\h300, \h102, \h1EB0>>, <<\h300, \h103, \h1EB1>>, <<\h300, \h112, \h1E14>>,
    <<\h300, \h113, \h1E15>>, <<\h300, \h14C, \h1E50>>, <<\h300, \h14D, \h1E51>>, <<\h300, \h1A0, \h1EDC>>,
    <<\h300, \h1A1, \h1EDD>>, <<\h300, \h1AF, \h1EEA>>, <<\h300, \h1B0, \h1EEB>>, <<\h300, \h391, \h1FBA>>,
    <<\h300, \h395, \h1FC8>>, <<\h300, \h397, \h1FCA>>, <<\h300, \h399, \h1FDA>>, <<\h300, \h39F, \h1FF8>>,
    <<\h300, \h3A5, \h1FEA>>, <<\h300, \h3A9, \h1FFA>>, <<\h300, \h3B1, \h1F70>>, <<\h300, \h3B5, \h1F72>>,
    <<\h300, \h3B7, \h1F74>>, <<\h300, \h3B9, \h1F76>>, <<\h300, \h3BF, \h1F78>>, <<\h300, \h3C5, \h1F7A>>,
    <<\h300, \h3C9, \h1F7C>>, <<\h300, \h3CA, \h1FD2>>, <<\h300, \h3CB, \h1FE2>>, <<\h300, \h415, \h400>>,
    <<\h300, \h418, \h40D>>, <<\h300, \h435, \h450>>, <<\h300, \h438, \h45D>>, <<\h300, \h1F00, \h1F02>>,
    <<\h300, \h1F01, \h1F03>>, <<\h300, \h1F08, \h1F0A>>, <<\h300, \h1F09, \h1F0B>>, <<\h300, \h1F10, \h1F12>>,
    <<\h300, \h1F11, \h1F13>>, <<\h300, \h1F18, \h1F1A>>, <<\h300, \h1F19, \h1F1B>>, <<\h300, \h1F20, \h1F22>>,
    <<\h300, \h1F21, \h1F23>>, <<\h300, \h1F28, \h1F2A>>, <<\h300, \h1F29, \h1F2B>>, <<\h300, \h1F30, \h1F32>>,
    <<\h300, \h1F31, \h1F33>>, <<\h300, \h1F38, \h1F3A>>, <<\h300, \h1F39, \h1F3B>>, <<\h300, \h1F40, \h1F42>>,
    <<\h300, \h1F41, \h1F43>>, <<\h300, \h1F48, \h1F4A>>, <<\h300, \h1F49, \h1F4B>>, <<\h300, \h1F50, \h1F52>>,
    <<\h300, \h1F51, \h1F53>>, <<\h300, \h1F59, \h1F5B>>, <<\h300, \h1F60, \h1F62>>, <<\h300, \h1F61, \h1F63>>,
    <<\h300, \h1F68, \h1F6A>>, <<\h300, \h1F69, \h1F6B>>, <<\h300, \h1FBF, \h1FCD>>, <<\h300, \h1FFE, \h1FDD>>,
    <<\h301, \h41, \hC1>>, <<\h301, \h43, \h106>>, <<\h301, \h45, \hC9>>, <<\h301, \h47, \h1F4>>,
    <<\h301, \h49, \hCD>>, <<\h301, \h4B, \h1E30>>, <<\h301, \h4C, \h139>>, <<\h301, \h4D, \h1E3E>>,
    <<\h301, \h4E, \h143>>, <<\h301, \h4F, \hD3>>, <<\h301, \h50, \h1E54>>, <<\h301, \h52, \h154>>,
    <<\h301, \h53, \h15A>>, <<\h301, \h55, \hDA>>, <<\h301, \h57, \h1E82>>, <<\h301, \h59, \hDD>>,
    <<\h301, \h5A, \h179>>, <<\h301, \h61, \hE1>>, <<\h301, \h63, \h107>>, <<\h301, \h65, \hE9>>,
    <<\h301, \h67, \h1F5>>, <<\h301, \h69, \hED>>, <<\h301, \h6B, \h1E31>>, <<\h301, \h6C, \h13A>>,
    <<\h301, \h6D, \h1E3F>>, <<\h301, \h6E, \h144>>, <<\h301, \h6F, \hF3>>, <<\h301, \h70, \h1E55>>,
    <<\h301, \h72, \h155>>, <<\h301, \h73, \h15B>>, <<\h301, \h75, \hFA>>, <<\h301, \h77, \h1E83>>,
    <<\h301, \h79, \hFD>>, <<\h301, \h7A, \h17A>>, <<\h301, \hA8, \h385>>, <<\h301, \hC2, \h1EA4>>,
    <<\h301, \hC5, \h1FA>>, <<\h301, \hC6, \h1FC>>, <<\h301, \hC7, \h1E08>>, <<\h301, \hCA, \h1EBE>>,
    <<\h301, \hCF, \h1E2E>>, <<\h301, \hD4, \h1ED0>>, <<\h301, \hD5, \h1E4C>>, <<\h301, \hD8, \h1FE>>,
    <<\h301, \hDC, \h1D7>>, <<\h301, \hE2, \h1EA5>>, <<\h301, \hE5, \h1FB>>, <<\h301, \hE6, \h1FD>>,
    <<\h301, \hE7, \h1E09>>, <<\h301, \hEA, \h1EBF>>, <<\h301, \hEF, \h1E2F>>, <<\h301, \hF4, \h1ED1>>,
    <<\h301, \hF5, \h1E4D>>, <<\h301, \hF8, \h1FF>>, <<\h301, \hFC, \h1D8>>, <<\h301, \h102, \h1EAE>>,
    <<\h301, \h103, \h1EAF>>, <<\h301, \h112, \h1E16>>, <<\h301, \h113, \h1E17>>, <<\h301, \h14C, \h1E52>>,
    <<\h301, \h14D, \h1E53>>, <<\h301, \h168, \h1E78>>, <<\h301, \h169, \h1E79>>, <<\h301, \h1A0, \h1EDA>>,
    <<\h301, \h1A1, \h1EDB>>, <<\h301, \h1AF, \h1EE8>>, <<\h301, \h1B0, \h1EE9>>, <<\h301, \h391, \h386>>,
    <<\h301, \h395, \h388>>, <<\h301, \h397, \h389>>, <<\h301, \h399, \h38A>>, <<\h301, \h39F, \h38C>>,
    <<\h301, \h3A5, \h38E>>, <<\h301, \h3A9, \h38F>>, <<\h301, \h3B1, \h3AC>>, <<\h301, \h3B5, \h3AD>>,
    <<\h301, \h3B7, \h3AE>>, <<\h301, \h3B9, \h3AF>>, <<\h301, \h3BF, \h3CC>>, <<\h301, \h3C5, \h3CD>>,
    <<\h301, \h3C9, \h3CE>>, <<\h301, \h3CA, \h390>>, <<\h301, \h3CB, \h3B0>>, <<\h301, \h3D2, \h3D3>>,
    <<\h301, \h413, \h403>>, <<\h301, \h41A, \h40C>>, <<\h301, \h433, \h453>>, <<\h301, \h43A, \h45C>>,
    <<\h301, \h1F00, \h1F04>>, <<\h301, \h1F01, \h1F05>>, <<\h301, \h1F08, \h1F0C>>, <<\h301, \h1F09, \h1F0D>>,
    <<\h301, \h1F10, \h1F14>>, <<\h301, \h1F11, \h1F15>>, <<\h301, \h1F18, \h1F1C>>, <<\h301, \h1F19, \h1F1D>>,
    <<\h301, \h1F20, \h1F24>>, <<\h301, \h1F21, \h1F25>>, <<\h301, \h1F28, \h1F2C>>, <<\h301, \h1F29, \h1F2D>>,
    <<\h301, \h1F30, \h1F34>>, <<\h301, \h1F31, \h1F35>>, <<\h301, \h1F38, \h1F3C>>, <<\h301, \h1F39, \h1F3D>>,
    <<\h301, \h1F40, \h1F44>>, <<\h301, \h1F41, \h1F45>>, <<\h301, \h1F48, \h1F4C>>, <<\h301, \h1F49, \h1F4D>>,
    <<\h301, \h1F50, \h1F54>>, <<\h301, \h1F51, \h1F55>>, <<\h301, \h1F59, \h1F5D>>, <<\h301, \h1F60, \h1F64>>,
    <<\h301, \h1F61, \h1F65>>, <<\h301, \h1F68, \h1F6C>>, <<\h301, \h1F69, \h1F6D>>, <<\h301, \h1FBF, \h1FCE>>,
    <<\h301, \h1FFE, \h1FDE>>, <<\h302, \h41, \hC2>>, <<\h302, \h43, \h108>>, <<\h302, \h45, \hCA>>,
    <<\h302, \h47, \h11C>>, <<\h302, \h48, \h124>>, <<\h302, \h49, \hCE>>, <<\h302, \h4A, \h134>>,
    <<\h302, \h4F, \hD4>>, <<\h302, \h53, \h15C>>, <<\h302, \h55, \hDB>>, <<\h302, \h57, \h174>>,
    <<\h302, \h59, \h176>>, <<\h302, \h5A, \h1E90>>, <<\h302, \h61, \hE2>>, <<\h302, \h63, \h109>>,
    <<\h302, \h65, \hEA>>, <<\h302, \h67, \h11D>>, <<\h302, \h68, \h125>>, <<\h302, \h69, \hEE>>,
    <<\h302, \h6A, \h135>>, <<\h302, \h6F, \hF4>>, <<\h302, \h73, \h15D>>, <<\h302, \h75, \hFB>>,
    <<\h302, \h77, \h175>>, <<\h302, \h79, \h177>>, <<\h302, \h7A, \h1E91>>, <<\h302, \h1EA0, \h1EAC>>,
    <<\h302, \h1EA1, \h1EAD>>, <<\h302, \h1EB8, \h1EC6>>, <<\h302, \h1EB9, \h1EC7>>, <<\h302, \h1ECC, \h1ED8>>,
    <<\h302, \h1ECD, \h1ED9>>, <<\h303, \h41, \hC3>>, <<\h303, \h45, \h1EBC>>, <<\h303, \h49, \h128>>,
    <<\h303, \h4E, \hD1>>, <<\h303, \h4F, \hD5>>, <<\h303, \h55, \h168>>, <<\h303, \h56, \h1E7C>>,
    <<\h303, \h59, \h1EF8>>, <<\h303, \h61, \hE3>>, <<\h303, \h65, \h1EBD>>, <<\h303, \h69, \h129>>,
    <<\h303, \h6E, \hF1>>, <<\h303, \h6F, \hF5>>, <<\h303, \h75, \h169>>, <<\h303, \h76, \h1E7D>>,
    <<\h303, \h79, \h1EF9>>, <<\h303, \hC2, \h1EAA>>, <<\h303, \hCA, \h1EC4>>, <<\h303, \hD4, \h1ED6>>,
    <<\h303, \hE2, \h1EAB>>, <<\h303, \hEA, \h1EC5>>, <<\h303, \hF4, \h1ED7>>, <<\h303, \h102, \h1EB4>>,
    <<\h303, \h103, \h1EB5>>, <<\h303, \h1A0, \h1EE0>>, <<\h303, \h1A1, \h1EE1>>, <<\h303, \h1AF, \h1EEE>>,
    <<\h303, \h1B0, \h1EEF>>, <<\h304, \h41, \h100>>, <<\h304, \h45, \h112>>, <<\h304, \h47, \h1E20>>,
    <<\h304, \h49, \h12A>>, <<\h304, \h4F, \h14C>>, <<\h304, \h55, \h16A>>, <<\h304, \h59, \h232>>,
    <<\h304, \h61, \h101>>, <<\h304, \h65, \h113>>, <<\h304, \h67, \h1E21>>, <<\h304, \h69, \h12B>>,
    <<\h304, \h6F, \h14D>>, <<\h304, \h75, \h16B>>, <<\h304, \h79, \h233>>, <<\h304, \hC4, \h1DE>>,
    <<\h304, \hC6, \h1E2>>, <<\h304, \hD5, \h22C>>, <<\h304, \hD6, \h22A>>, <<\h304, \hDC, \h1D5>>,
    <<\h304, \hE4, \h1DF>>, <<\h304, \hE6, \h1E3>>, <<\h304, \hF5, \h22D>>, <<\h304, \hF6, \h22B>>,
    <<\h304, \hFC, \h1D6>>, <<\h304, \h1EA, \h1EC>>, <<\h304, \h1EB, \h1ED>>, <<\h304, \h226, \h1E0>>,
    <<\h304, \h227, \h1E1>>, <<\h304, \h22E, \h230>>, <<\h304, \h22F, \h231>>, <<\h304, \h391, \h1FB9>>,
    <<\h304, \h399, \h1FD9>>, <<\h304, \h3A5, \h1FE9>>, <<\h304, \h3B1, \h1FB1>>, <<\h304, \h3B9, \h1FD1>>,
    <<\h304, \h3C5, \h1FE1>>, <<\h304, \h418, \h4E2>>, <<\h304, \h423, \h4EE>>, <<\h304, \h438, \h4E3>>,
    <<\h304, \h443, \h4EF>>, <<\h304, \h1E36, \h1E38>>, <<\h304, \h1E37, \h1E39>>, <<\h304, \h1E5A, \h1E5C>>,
    <<\h304, \h1E5B, \h1E5D>>, <<\h306, \h41, \h102>>, <<\h306, \h45, \h114>>, <<\h306, \h47, \h11E>>,
    <<\h306, \h49, \h12C>>, <<\h306, \h4F, \h14E>>, <<\h306, \h55, \h16C>>, <<\h306, \h61, \h103>>,
    <<\h306, \h65, \h115>>, <<\h306, \h67, \h11F>>, <<\h306, \h69, \h12D>>, <<\h306, \h6F, \h14F>>,
    <<\h306, \h75, \h16D>>, <<\h306, \h228, \h1E1C>>, <<\h306, \h229, \h1E1D>>, <<\h306, \h391, \h1FB8>>,
    <<\h306, \h399, \h1FD8>>, <<\h306, \h3A5, \h1FE8>>, <<\h306, \h3B1, \h1FB0>>, <<\h306, \h3B9, \h1FD0>>,
    <<\h306, \h3C5, \h1FE0>>, <<\h306, \h410, \h4D0>>, <<\h306, \h415, \h4D6>>, <<\h306, \h416, \h4C1>>,
    <<\h306, \h418, \h419>>, <<\h306, \h423, \h40E>>, <<\h306, \h430, \h4D1>>, <<\h306, \h435, \h4D7>>,
    <<\h306, \h436, \h4C2>>, <<\h306, \h438, \h439>>, <<\h306, \h443, \h45E>>, <<\h306, \h1EA0, \h1EB6>>,
    <<\h306, \h1EA1, \h1EB7>>, <<\h307, \h41, \h226>>, <<\h307, \h42, \h1E02>>, <<\h307, \h43, \h10A>>,
    <<\h307, \h44, \h1E0A>>, <<\h307, \h45, \h116>>, <<\h307, \h46, \h1E1E>>, <<\h307, \h47, \h120>>,
    <<\h307, \h48, \h1E22>>, <<\h307, \h49, \h130>>, <<\h307, \h4D, \h1E40>>, <<\h307, \h4E, \h1E44>>,
    <<\h307, \h4F, \h22E>>, <<\h307, \h50, \h1E56>>, <<\h307, \h52, \h1E58>>, <<\h307, \h53, \h1E60>>,
    <<\h307, \h54, \h1E6A>>, <<\h307, \h57, \h1E86>>, <<\h307, \h58, \h1E8A>>, <<\h307, \h59, \h1E8E>>,
    <<\h307, \h5A, \h17B>>, <<\h307, \h61, \h227>>, <<\h307, \h62, \h1E03>>, <<\h307, \h63, \h10B>>,
    <<\h307, \h64, \h1E0B>>, <<\h307, \h65, \h117>>, <<\h307, \h66, \h1E1F>>, <<\h307, \h67, \h121>>,
    <<\h307, \h68, \h1E23>>, <<\h307, \h6D, \h1E41>>, <<\h307, \h6E, \h1E45>>, <<\h307, \h6F, \h22F>>,
    <<\h307, \h70, \h1E57>>, <<\h307, \h72, \h1E59>>, <<\h307, \h73, \h1E61>>, <<\h307, \h74, \h1E6B>>,
    <<\h307, \h77, \h1E87>>, <<\h307, \h78, \h1E8B>>, <<\h307, \h79, \h1E8F>>, <<\h307, \h7A, \h17C>>,
    <<\h307, \h15A, \h1E64>>, <<\h307, \h15B, \h1E65>>, <<\h307, \h160, \h1E66>>, <<\h307, \h161, \h1E67>>,
    <<\h307, \h17F, \h1E9B>>, <<\h307, \h1E62, \h1E68>>, <<\h307, \h1E63, \h1E69>>, <<\h308, \h41, \hC4>>,
    <<\h308, \h45, \hCB>>, <<\h308, \h48, \h1E26>>, <<\h308, \h49, \hCF>>, <<\h308, \h4F, \hD6>>,
    <<\h308, \h55, \hDC>>, <<\h308, \h57, \h1E84>>, <<\h308, \h58, \h1E8C>>, <<\h308, \h59, \h178>>,
    <<\h308, \h61, \hE4>>, <<\h308, \h65, \hEB>>, <<\h308, \h68, \h1E27>>, <<\h308, \h69, \hEF>>,
    <<\h308, \h6F, \hF6>>, <<\h308, \h74, \h1E97>>, <<\h308, \h75, \hFC>>, <<\h308, \h77, \h1E85>>,
    <<\h308, \h78, \h1E8D>>, <<\h308, \h79, \hFF>>, <<\h308, \hD5, \h1E4E>>, <<\h308, \hF5, \h1E4F>>,
    <<\h308, \h16A, \h1E7A>>, <<\h308, \h16B, \h1E7B>>, <<\h308, \h399, \h3AA>>, <<\h308, \h3A5, \h3AB>>,
    <<\h308, \h3B9, \h3CA>>, <<\h308, \h3C5, \h3CB>>, <<\h308, \h3D2, \h3D4>>, <<\h308, \h406, \h407>>,
    <<\h308, \h410, \h4D2>>, <<\h308, \h415, \h401>>, <<\h308, \h416, \h4DC>>, <<\h308, \h417, \h4DE>>,
    <<\h308, \h418, \h4E4>>, <<\h308, \h41E, \h4E6>>, <<\h308, \h423, \h4F0>>, <<\h308, \h427, \h4F4>>,
    <<\h308, \h42B, \h4F8>>, <<\h308, \h42D, \h4EC>>, <<\h308, \h430, \h4D3>>, <<\h308, \h435, \h451>>,
    <<\h308, \h436, \h4DD>>, <<\h308, \h437, \h4DF>>, <<\h308, \h438, \h4E5>>, <<\h308, \h43E, \h4E7>>,
    <<\h308, \h443, \h4F1>>, <<\h308, \h447, \h4F5>>, <<\h308, \h44B, \h4F9>>, <<\h308, \h44D, \h4ED>>,
    <<\h308, \h456, \h457>>, <<\h308, \h4D8, \h4DA>>, <<\h308, \h4D9, \h4DB>>, <<\h308, \h4E8, \h4EA>>,
    <<\h308, \h4E9, \h4EB>>, <<\h309, \h41, \h1EA2>>, <<\h309, \h45, \h1EBA>>, <<\h309, \h49, \h1EC8>>,
    <<\h309, \h4F, \h1ECE>>, <<\h309, \h55, \h1EE6>>, <<\h309, \h59, \h1EF6>>, <<\h309, \h61, \h1EA3>>,
    <<\h309, \h65, \h1EBB>>, <<\h309, \h69, \h1EC9>>, <<\h309, \h6F, \h1ECF>>, <<\h309, \h75, \h1EE7>>,
    <<\h309, \h79, \h1EF7>>, <<\h309, \hC2, \h1EA8>>, <<\h309, \hCA, \h1EC2>>, <<\h309, \hD4, \h1ED4>>,
    <<\h309, \hE2, \h1EA9>>, <<\h309, \hEA, \h1EC3>>, <<\h309, \hF4, \h1ED5>>, <<\h309, \h102, \h1EB2>>,
    <<\h309, \h103, \h1EB3>>, <<\h309, \h1A0, \h1EDE>>, <<\h309, \h1A1, \h1EDF>>, <<\h309, \h1AF, \h1EEC>>,
    <<\h309, \h1B0, \h1EED>>, <<\h30A, \h41, \hC5>>, <<\h30A, \h55, \h16E>>, <<\h30A, \h61, \hE5>>,
    <<\h30A, \h75, \h16F>>, <<\h30A, \h77, \h1E98>>, <<\h30A, \h79, \h1E99>>, <<\h30B, \h4F, \h150>>,
    <<\h30B, \h55, \h170>>, <<\h30B, \h6F, \h151>>, <<\h30B, \h75, \h171>>, <<\h30B, \h423, \h4F2>>,
    <<\h30B, \h443, \h4F3>>, <<\h30C, \h41, \h1CD>>, <<\h30C, \h43, \h10C>>, <<\h30C, \h44, \h10E>>,
    <<\h30C, \h45, \h11A>>, <<\h30C, \h47, \h1E6>>, <<\h30C, \h48, \h21E>>, <<\h30C, \h49, \h1CF>>,
    <<\h30C, \h4B, \h1E8>>, <<\h30C, \h4C, \h13D>>, <<\h30C, \h4E, \h147>>, <<\h30C, \h4F, \h1D1>>,
    <<\h30C, \h52, \h158>>, <<\h30C, \h53, \h160>>, <<\h30C, \h54, \h164>>, <<\h30C, \h55, \h1D3>>,
    <<\h30C, \h5A, \h17D>>, <<\h30C, \h61, \h1CE>>, <<\h30C, \h63, \h10D>>, <<\h30C, \h64, \h10F>>,
    <<\h30C, \h65, \h11B>>, <<\h30C, \h67, \h1E7>>, <<\h30C, \h68, \h21F>>, <<\h30C, \h69, \h1D0>>,
    <<\h30C, \h6A, \h1F0>>, <<\h30C, \h6B, \h1E9>>, <<\h30C, \h6C, \h13E>>, <<\h30C, \h6E, \h148>>,
    <<\h30C, \h6F, \h1D2>>, <<\h30C, \h72, \h159>>, <<\h30C, \h73, \h161>>, <<\h30C, \h74, \h165>>,
    <<\h30C, \h75, \h1D4>>, <<\h30C, \h7A, \h17E>>, <<\h30C, \hDC, \h1D9>>, <<\h30C, \hFC, \h1DA>>,
    <<\h30C, \h1B7, \h1EE>>, <<\h30C, \h292, \h1EF>>, <<\h30F, \h41, \h200>>, <<\h30F, \h45, \h204>>,
    <<\h30F, \h49, \h208>>, <<\h30F, \h4F, \h20C>>, <<\h30F, \h52, \h210>>, <<\h30F, \h55, \h214>>,
    <<\h30F, \h61, \h201>>, <<\h30F, \h65, \h205>>, <<\h30F, \h69, \h209>>, <<\h30F, \h6F, \h20D>>,
    <<\h30F, \h72, \h211>>, <<\h30F, \h75, \h215>>, <<\h30F, \h474, \h476>>, <<\h30F, \h475, \h477>>,
    <<\h311, \h41, \h202>>, <<\h311, \h45, \h206>>, <<\h311, \h49, \h20A>>, <<\h311, \h4F, \h20E>>,
    <<\h311, \h52, \h212>>, <<\h311, \h55, \h216>>, <<\h311, \h61, \h203>>, <<\h311, \h65, \h207>>,
    <<\h311, \h69, \h20B>>, <<\h311, \h6F, \h20F>>, <<\h311, \h72, \h213>>, <<\h311, \h75, \h217>>,
    <<\h313, \h391, \h1F08>>, <<\h313, \h395, \h1F18>>, <<\h313, \h397, \h1F28>>, <<\h313, \h399, \h1F38>>,
    <<\h313, \h39F, \h1F48>>, <<\h313, \h3A9, \h1F68>>, <<\h313, \h3B1, \h1F00>>, <<\h313, \h3B5, \h1F10>>,
    <<\h313, \h3B7, \h1F20>>, <<\h313, \h3B9, \h1F30>>, <<\h313, \h3BF, \h1F40>>, <<\h313, \h3C1, \h1FE4>>,
    <<\h313, \h3C5, \h1F50>>, <<\h313, \h3C9, \h1F60>>, <<\h314, \h391, \h1F09>>, <<\h314, \h395, \h1F19>>,
    <<\h314, \h397, \h1F29>>, <<\h314, \h399, \h1F39>>, <<\h314, \h39F, \h1F49>>, <<\h314, \h3A1, \h1FEC>>,
    <<\h314, \h3A5, \h1F59>>, <<\h314, \h3A9, \h1F69>>, <<\h314, \h3B1, \h1F01>>, <<\h314, \h3B5, \h1F11>>,
    <<\h314, \h3B7, \h1F21>>, <<\h314, \h3B9, \h1F31>>, <<\h314, \h3BF, \h1F41>>, <<\h314, \h3C1, \h1FE5>>,
    <<\h314, \h3C5, \h1F51>>, <<\h314, \h3C9, \h1F61>>, <<\h31B, \h4F, \h1A0>>, <<\h31B, \h55, \h1AF>>,
    <<\h31B, \h6F, \h1A1>>, <<\h31B, \h75, \h1B0>>, <<\h323, \h41, \h1EA0>>, <<\h323, \h42, \h1E04>>,
    <<\h323, \h44, \h1E0C>>, <<\h323, \h45, \h1EB8>>, <<\h323, \h48, \h1E24>>, <<\h323, \h49, \h1ECA>>,
    <<\h323, \h4B, \h1E32>>, <<\h323, \h4C, \h1E36>>, <<\h323, \h4D, \h1E42>>, <<\h323, \h4E, \h1E46>>,
    <<\h323, \h4F, \h1ECC>>, <<\h323, \h52, \h1E5A>>, <<\h323, \h53, \h1E62>>, <<\h323, \h54, \h1E6C>>,
    <<\h323, \h55, \h1EE4>>, <<\h323, \h56, \h1E7E>>, <<\h323, \h57, \h1E88>>, <<\h323, \h59, \h1EF4>>,
    <<\h323, \h5A, \h1E92>>, <<\h323, \h61, \h1EA1>>, <<\h323, \h62, \h1E05>>, <<\h323, \h64, \h1E0D>>,
    <<\h323, \h65, \h1EB9>>, <<\h323, \h68, \h1E25>>, <<\h323, \h69, \h1ECB>>, <<\h323, \h6B, \h1E33>>,
    <<\h323, \h6C, \h1E37>>, <<\h323, \h6D, \h1E43>>, <<\h323, \h6E, \h1E47>>, <<\h323, \h6F, \h1ECD>>,
    <<\h323, \h72, \h1E5B>>, <<\h323, \h73, \h1E63>>, <<\h323, \h74, \h1E6D>>, <<\h323, \h75, \h1EE5>>,
    <<\h323, \h76, \h1E7F>>, <<\h323, \h77, \h1E89>>, <<\h323, \h79, \h1EF5>>, <<\h323, \h7A, \h1E93>>,
    <<\h323, \h1A0, \h1EE2>>, <<\h323, \h1A1, \h1EE3>>, <<\h323, \h1AF, \h1EF0>>, <<\h323, \h1B0, \h1EF1>>,
    <<\h324, \h55, \h1E72>>, <<\h324, \h75, \h1E73>>, <<\h325, \h41, \h1E00>>, <<\h325, \h61, \h1E01>>,
    <<\h326, \h53, \h218>>, <<\h326, \h54, \h21A>>, <<\h326, \h73, \h219>>, <<\h326, \h74, \h21B>>,
    <<\h327, \h43, \hC7>>, <<\h327, \h44, \h1E10>>, <<\h327, \h45, \h228>>, <<\h327, \h47, \h122>>,
    <<\h327, \h48, \h1E28>>, <<\h327, \h4B, \h136>>, <<\h327, \h4C, \h13B>>, <<\h327, \h4E, \h145>>,
    <<\h327, \h52, \h156>>, <<\h327, \h53, \h15E>>, <<\h327, \h54, \h162>>, <<\h327, \h63, \hE7>>,
    <<\h327, \h64, \h1E11>>, <<\h327, \h65, \h229>>, <<\h327, \h67, \h123>>, <<\h327, \h68, \h1E29>>,
    <<\h327, \h6B, \h137>>, <<\h327, \h6C, \h13C>>, <<\h327, \h6E, \h146>>, <<\h327, \h72, \h157>>,
    <<\h327, \h73, \h15F>>, <<\h327, \h74, \h163>>, <<\h328, \h41, \h104>>, <<\h328, \h45, \h118>>,
    <<\h328, \h49, \h12E>>, <<\h328, \h4F, \h1EA>>, <<\h328, \h55, \h172>>, <<\h328, \h61, \h105>>,
    <<\h328, \h65, \h119>>, <<\h328, \h69, \h12F>>, <<\h328, \h6F, \h1EB>>, <<\h328, \h75, \h173>>,
    <<\h32D, \h44, \h1E12>>, <<\h32D, \h45, \h1E18>>, <<\h32D, \h4C, \h1E3C>>, <<\h32D, \h4E, \h1E4A>>,
    <<\h32D, \h54, \h1E70>>, <<\h32D, \h55, \h1E76>>, <<\h32D, \h64, \h1E13>>, <<\h32D, \h65, \h1E19>>,
    <<\h32D, \h6C, \h1E3D>>, <<\h32D, \h6E, \h1E4B>>, <<\h32D, \h74, \h1E71>>, <<\h32D, \h75, \h1E77>>,
    <<\h32E, \h48, \h1E2A>>, <<\h32E, \h68, \h1E2B>>, <<\h330, \h45, \h1E1A>>, <<\h330, \h49, \h1E2C>>,
    <<\h330, \h55, \h1E74>>, <<\h330, \h65, \h1E1B>>, <<\h330, \h69, \h1E2D>>, <<\h330, \h75, \h1E75>>,
    <<\h331, \h42, \h1E06>>, <<\h331, \h44, \h1E0E>>, <<\h331, \h4B, \h1E34>>, <<\h331, \h4C, \h1E3A>>,
    <<\h331, \h4E, \h1E48>>, <<\h331, \h52, \h1E5E>>, <<\h331, \h54, \h1E6E>>, <<\h331, \h5A, \h1E94>>,
    <<\h331, \h62, \h1E07>>, <<\h331, \h64, \h1E0F>>, <<\h331, \h68, \h1E96>>, <<\h331, \h6B, \h1E35>>,
    <<\h331, \h6C, \h1E3B>>, <<\h331, \h6E, \h1E49>>, <<\h331, \h72, \h1E5F>>, <<\h331, \h74, \h1E6F>>,
    <<\h331, \h7A, \h1E95>>, <<\h338, \h3C, \h226E>>, <<\h338, \h3D, \h2260>>, <<\h338, \h3E, \h226F>>,
    <<\h338, \h2190, \h219A>>, <<\h338, \h2192, \h219B>>, <<\h338, \h2194, \h21AE>>, <<\h338, \h21D0, \h21CD>>,
    <<\h338, \h21D2, \h21CF>>, <<\h338, \h21D4, \h21CE>>, <<\h338, \h2203, \h2204>>, <<\h338, \h2208, \h2209>>,
    <<\h338, \h220B, \h220C>>, <<\h338, \h2223, \h2224>>, <<\h338, \h2225, \h2226>>, <<\h338, \h223C, \h2241>>,
    <<\h338, \h2243, \h2244>>, <<\h338, \h2245, \h2247>>, <<\h338, \h2248, \h2249>>, <<\h338, \h224D, \h226D>>,
    <<\h338, \h2261, \h2262>>, <<\h338, \h2264, \h2270>>, <<\h338, \h2265, \h2271>>, <<\h338, \h2272, \h2274>>,
    <<\h338, \h2273, \h2275>>, <<\h338, \h2276, \h2278>>, <<\h338, \h2277, \h2279>>, <<\h338, \h227A, \h2280>>,
    <<\h338, \h227B, \h2281>>, <<\h338, \h227C, \h22E0>>, <<\h338, \h227D, \h22E1>>, <<\h338, \h2282, \h2284>>,
    <<\h338, \h2283, \h2285>>, <<\h338, \h2286, \h2288>>, <<\h338, \h2287, \h2289>>, <<\h338, \h2291, \h22E2>>,
    <<\h338, \h2292, \h22E3>>, <<\h338, \h22A2, \h22AC>>, <<\h338, \h22A8, \h22AD>>, <<\h338, \h22A9, \h22AE>>,
    <<\h338, \h22AB, \h22AF>>, <<\h338, \h22B2, \h22EA>>, <<\h338, \h22B3, \h22EB>>, <<\h338, \h22B4, \h22EC>>,
    <<\h338, \h22B5, \h22ED>>, <<\h342, \hA8, \h1FC1>>, <<\h342, \h3B1, \h1FB6>>, <<\h342, \h3B7, \h1FC6>>,
    <<\h342, \h3B9, \h1FD6>>, <<\h342, \h3C5, \h1FE6>>, <<\h342, \h3C9, \h1FF6>>, <<\h342, \h3CA, \h1FD7>>,
    <<\h342, \h3CB, \h1FE7>>, <<\h342, \h1F00, \h1F06>>, <<\h342, \h1F01, \h1F07>>, <<\h342, \h1F08, \h1F0E>>,
    <<\h342, \h1F09, \h1F0F>>, <<\h342, \h1F20, \h1F26>>, <<\h342, \h1F21, \h1F27>>, <<\h342, \h1F28, \h1F2E>>,
    <<\h342, \h1F29, \h1F2F>>, <<\h342, \h1F30, \h1F36>>, <<\h342, \h1F31, \h1F37>>, <<\h342, \h1F38, \h1F3E>>,
    <<\h342, \h1F39, \h1F3F>>, <<\h342, \h1F50, \h1F56>>, <<\h342, \h1F51, \h1F57>>, <<\h342, \h1F59, \h1F5F>>,
    <<\h342, \h1F60, \h1F66>>, <<\h342, \h1F61, \h1F67>>, <<\h342, \h1F68, \h1F6E>>, <<\h342, \h1F69, \h1F6F>>,
    <<\h342, \h1FBF, \h1FCF>>, <<\h342, \h1FFE, \h1FDF>>, <<\h345, \h391, \h1FBC>>, <<\h345, \h397, \h1FCC>>,
    <<\h345, \h3A9, \h1FFC>>, <<\h345, \h3AC, \h1FB4>>, <<\h345, \h3AE, \h1FC4>>, <<\h345, \h3B1, \h1FB3>>,
    <<\h345, \h3B7, \h1FC3>>, <<\h345, \h3C9, \h1FF3>>, <<\h345, \h3CE, \h1FF4>>, <<\h345, \h1F00, \h1F80>>,
    <<\h345, \h1F01, \h1F81>>, <<\h345, \h1F02, \h1F82>>, <<\h345, \h1F03, \h1F83>>, <<\h345, \h1F04, \h1F84>>,
    <<\h345, \h1F05, \h1F85>>, <<\h345, \h1F06, \h1F86>>, <<\h345, \h1F07, \h1F87>>, <<\h345, \h1F08, \h1F88>>,
    <<\h345, \h1F09, \h1F89>>, <<\h345, \h1F0A, \h1F8A>>, <<\h345, \h1F0B, \h1F8B>>, <<\h345, \h1F0C, \h1F8C>>,
    <<\h345, \h1F0D, \h1F8D>>, <<\h345, \h1F0E, \h1F8E>>, <<\h345, \h1F0F, \h1F8F>>, <<\h345, \h1F20, \h1F90>>,
    <<\h345, \h1F21, \h1F91>>, <<\h345, \h1F22, \h1F92>>, <<\h345, \h1F23, \h1F93>>, <<\h345, \h1F24, \h1F94>>,
    <<\h345, \h1F25, \h1F95>>, <<\h345, \h1F26, \h1F96>>, <<\h345, \h1F27, \h1F97>>, <<\h345, \h1F28, \h1F98>>,
    <<\h345, \h1F29, \h1F99>>, <<\h345, \h1F2A, \h1F9A>>, <<\h345, \h1F2B, \h1F9B>>, <<\h345, \h1F2C, \h1F9C>>,
    <<\h345, \h1F2D, \h1F9D>>, <<\h345, \h1F2E, \h1F9E>>, <<\h345, \h1F2F, \h1F9F>>, <<\h345, \h1F60, \h1FA0>>,
    <<\h345, \h1F61, \h1FA1>>, <<\h345, \h1F62, \h1FA2>>, <<\h345, \h1F63, \h1FA3>>, <<\h345, \h1F64, \h1FA4>>,
    <<\h345, \h1F65, \h1FA5>>, <<\h345, \h1F66, \h1FA6>>, <<\h345, \h1F67, \h1FA7>>, <<\h345, \h1F68, \h1FA8>>,
    <<\h345, \h1F69, \h1FA9>>, <<\h345, \h1F6A, \h1FAA>>, <<\h345, \h1F6B, \h1FAB>>, <<\h345, \h1F6C, \h1FAC>>,
    <<\h345, \h1F6D, \h1FAD>>, <<\h345, \h1F6E, \h1FAE>>, <<\h345, \h1F6F, \h1FAF>>, <<\h345, \h1F70, \h1FB2>>,
    <<\h345, \h1F74, \h1FC2>>, <<\h345, \h1F7C, \h1FF2>>, <<\h345, \h1FB6, \h1FB7>>, <<\h345, \h1FC6, \h1FC7>>,
    <<\h345, \h1FF6, \h1FF7>>, <<\h653, \h627, \h622>>, <<\h654, \h627, \h623>>, <<\h654, \h648, \h624>>,
    <<\h654, \h64A, \h626>>, <<\h654, \h6C1, \h6C2>>, <<\h654, \h6D2, \h6D3>>, <<\h654, \h6D5, \h6C0>>,
    <<\h655, \h627, \h625>>, <<\h93C, \h928, \h929>>, <<\h93C, \h930, \h931>>, <<\h93C, \h933, \h934>>,
    <<\h9BE, \h9C7, \h9CB>>, <<\h9D7, \h9C7, \h9CC>>, <<\hB3E, \hB47, \hB4B>>, <<\hB56, \hB47, \hB48>>,
    <<\hB57, \hB47, \hB4C>>, <<\hBBE, \hBC6, \hBCA>>, <<\hBBE, \hBC7, \hBCB>>, <<\hBD7, \hB92, \hB94>>,
    <<\hBD7, \hBC6, \hBCC>>, <<\hC56, \hC46, \hC48>>, <<\hCC2, \hCC6, \hCCA>>, <<\hCD5, \hCBF, \hCC0>>,
    <<\hCD5, \hCC6, \hCC7>>, <<\hCD5, \hCCA, \hCCB>>, <<\hCD6, \hCC6, \hCC8>>, <<\hD3E, \hD46, \hD4A>>,
    <<\hD3E, \hD47, \hD4B>>, <<\hD57, \hD46, \hD4C>>, <<\hDCA, \hDD9, \hDDA>>, <<\hDCA, \hDDC, \hDDD>>,
    <<\hDCF, \hDD9, \hDDC>>, <<\hDDF, \hDD9, \hDDE>>, <<\h102E, \h1025, \h1026>>, <<\h1B35, \h1B05, \h1B06>>,
    <<\h1B35, \h1B07, \h1B08>>, <<\h1B35, \h1B09, \h1B0A>>, <<\h1B35, \h1B0B, \h1B0C>>, <<\h1B35, \h1B0D, \h1B0E>>,
    <<\h1B35, \h1B11, \h1B12>>, <<\h1B35, \h1B3A, \h1B3B>>, <<\h1B35, \h1B3C, \h1B3D>>, <<\h1B35, \h1B3E, \h1B40>>,
    <<\h1B35, \h1B3F, \h1B41>>, <<\h1B35, \h1B42, \h1B43>>, <<\h3099, \h3046, \h3094>>, <<\h3099, \h304B, \h304C>>,
    <<\h3099, \h304D, \h304E>>, <<\h3099, \h304F, \h3050>>, <<\h3099, \h3051, \h3052>>, <<\h3099, \h3053, \h3054>>,
    <<\h3099, \h3055, \h3056>>, <<\h3099, \h3057, \h3058>>, <<\h3099, \h3059, \h305A>>, <<\h3099, \h305B, \h305C>>,
    <<\h3099, \h305D, \h305E>>, <<\h3099, \h305F, \h3060>>, <<\h3099, \h3061, \h3062>>, <<\h3099, \h3064, \h3065>>,
    <<\h3099, \h3066, \h3067>>, <<\h3099, \h3068, \h3069>>, <<\h3099, \h306F, \h3070>>, <<\h3099, \h3072, \h3073>>,
    <<\h3099, \h3075, \h3076>>, <<\h3099, \h3078, \h3079>>, <<\h3099, \h307B, \h307C>>, <<\h3099, \h309D, \h309E>>,
    <<\h3099, \h30A6, \h30F4>>, <<\h3099, \h30AB, \h30AC>>, <<\h3099, \h30AD, \h30AE>>, <<\h3099, \h30AF, \h30B0>>,
    <<\h3099, \h30B1, \h30B2>>, <<\h3099, \h30B3, \h30B4>>, <<\h3099, \h30B5, \h30B6>>, <<\h3099, \h30B7, \h30B8>>,
    <<\h3099, \h30B9, \h30BA>>, <<\h3099, \h30BB, \h30BC>>, <<\h3099, \h30BD, \h30BE>>, <<\h3099, \h30BF, \h30C0>>,
    <<\h3099, \h30C1, \h30C2>>, <<\h3099, \h30C4, \h30C5>>, <<\h3099, \h30C6, \h30C7>>, <<\h3099, \h30C8, \h30C9>>,
    <<\h3099, \h30CF, \h30D0>>, <<\h3099, \h30D2, \h30D3>>, <<\h3099, \h30D5, \h30D6>>, <<\h3099, \h30D8, \h30D9>>,
    <<\h3099, \h30DB, \h30DC>>, <<\h3099, \h30EF, \h30F7>>, <<\h3099, \h30F0, \h30F8>>, <<\h3099, \h30F1, \h30F9>>,
    <<\h3099, \h30F2, \h30FA>>, <<\h3099, \h30FD, \h30FE>>, <<\h309A, \h306F, \h3071>>, <<\h309A, \h3072, \h3074>>,
    <<\h309A, \h3075, \h3077>>, <<\h309A, \h3078, \h307A>>, <<\h309A, \h307B, \h307D>>, <<\h309A, \h30CF, \h30D1>>,
    <<\h309A, \h30D2, \h30D4>>, <<\h309A, \h30D5, \h30D7>>, <<\h309A, \h30D8, \h30DA>>, <<\h309A, \h30DB, \h30DD>>,
    <<\h110BA, \h11099, \h1109A>>, <<\h110BA, \h1109B, \h1109C>>, <<\h110BA, \h110A5, \h110AB>>, <<\h11127, \h11131, \h1112E>>,
    <<\h11127, \h11132, \h1112F>>, <<\h1133E, \h11347, \h1134B>>, <<\h11357, \h11347, \h1134C>>, <<\h114B0, \h114B9, \h114BC>>,
    <<\h114BA, \h114B9, \h114BB>>, <<\h114BD, \h114B9, \h114BE>>, <<\h115AF, \h115B8, \h115BA>>, <<\h115AF, \h115B9, \h115BB>>
    >>

\* combine_dead_keys(c1, c2) (lines 2480-2501): a linear scan, in either
\* order of the pair; the first matching rule's result.
CombineDeadKeys(c1, c2) ==
    LET hits == {i \in DOMAIN peculiar_combinations1 :
                    LET p == peculiar_combinations1[i]
                    IN (p[1] = c1 /\ p[2] = c2) \/ (p[1] = c2 /\ p[2] = c1)}
    IN IF hits = {} THEN NotFound ELSE peculiar_combinations1[Min(hits)][3]

\* combine_peculiar_non_combiners and combine_unicode (lines 2516-2532).
CombinePeculiar(c, b) == Combine(peculiar_combinations2, c, b)
CombineUnicode(c, b) == Combine(unicode_combinations, c, b)

\* lower_combining_class (lines 2534-2541).
LowerCombiningClass(c1, c2) == UC!CombiningClass(c1) < UC!CombiningClass(c2)

\* The held dead keys left in typing order.
StableSortByClassOmitted(s) == s

\* std::stable_sort(dead_keys, lower_combining_class) (line 2572), as an
\* insertion sort that puts each key after every key not of a higher
\* class.
RECURSIVE StableSortByClass(_)
StableSortByClass(s) ==
    IF s = <<>> THEN <<>>
    ELSE LET sorted == StableSortByClass(Front(s))
             x == Last(s)
             k == Cardinality({i \in DOMAIN sorted : ~LowerCombiningClass(x, sorted[i])})
         IN InsertAt(sorted, k + 1, x)

\* One of the erase-if loops (lines 2565-2569 and 2573-2577): each held
\* key, in order, that combines with the character so far is consumed and
\* the character becomes the result; the others are kept.
ComposePass(t, keys, c) ==
    FoldLeft(LAMBDA acc, d :
                LET r == Combine(t, d, acc.c)
                IN IF r = NotFound THEN [acc EXCEPT !.kept = Append(@, d)]
                   ELSE [acc EXCEPT !.c = r],
             [kept |-> <<>>, c |-> c], keys)

\* A key left over is written as its spacing form, its rule with the
\* space character, when there is one (lines 2581-2587).
SpacingForm(d) == IF CombinePeculiar(d, 32) = NotFound THEN d ELSE CombinePeculiar(d, 32)

\* Mutation of HandleCharacterInput, for the mutation runs: a negation
\* slip in the category test, so every character that is not an
\* enclosing mark is held as a dead key.
HandleCharacterInputNegatedTest(dead_keys, c) ==
    CASE ~UC!IsMarkEnclosing(c) \/ UC!IsMarkNonSpacing(c) ->
            IF dead_keys # <<>> /\ CombineDeadKeys(Last(dead_keys), c) # NotFound
            THEN [dead_keys |-> ReplaceAt(dead_keys, Len(dead_keys),
                                          CombineDeadKeys(Last(dead_keys), c)),
                  sent |-> <<>>]
            ELSE [dead_keys |-> Append(dead_keys, c), sent |-> <<>>]
      [] c = ZWNJ -> [dead_keys |-> <<>>, sent |-> dead_keys]
      [] dead_keys # <<>> ->
            LET peculiar == ComposePass(peculiar_combinations2, dead_keys, c)
                unicode == ComposePass(unicode_combinations,
                                  StableSortByClass(peculiar.kept), peculiar.c)
            IN [dead_keys |-> <<>>,
                sent |-> [i \in DOMAIN unicode.kept |-> SpacingForm(unicode.kept[i])]
                            \o <<unicode.c>>]
      [] OTHER -> [dead_keys |-> <<>>, sent |-> <<c>>]
\* Realizer::handle_character_input(c) (lines 2543-2597).
HandleCharacterInput(dead_keys, c) ==
    CASE UC!IsMarkEnclosing(c) \/ UC!IsMarkNonSpacing(c) ->
            IF dead_keys # <<>> /\ CombineDeadKeys(Last(dead_keys), c) # NotFound
            THEN [dead_keys |-> ReplaceAt(dead_keys, Len(dead_keys),
                                          CombineDeadKeys(Last(dead_keys), c)),
                  sent |-> <<>>]
            ELSE [dead_keys |-> Append(dead_keys, c), sent |-> <<>>]
      [] c = ZWNJ -> [dead_keys |-> <<>>, sent |-> dead_keys]
      [] dead_keys # <<>> ->
            LET peculiar == ComposePass(peculiar_combinations2, dead_keys, c)
                unicode == ComposePass(unicode_combinations,
                                  StableSortByClass(peculiar.kept), peculiar.c)
            IN [dead_keys |-> <<>>,
                sent |-> [i \in DOMAIN unicode.kept |-> SpacingForm(unicode.kept[i])]
                            \o <<unicode.c>>]
      [] OTHER -> [dead_keys |-> <<>>, sent |-> <<c>>]
=============================================================================
