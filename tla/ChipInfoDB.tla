----------------------------- MODULE ChipInfoDB -----------------------------
(***************************************************************************)
(* The chip database: the tables of ChipInfoDB.h, row by row.  A row of    *)
(* the C++ table is a row here, with the values its enumerators decode to; *)
(* None stands for kSubver_None ... kFuse_None and for an index that means *)
(* "nothing".  Left out are attributes the profile only copies: the clock  *)
(* control, the FLL flag, the segment sizes and banks of a layout, the     *)
(* type and the protectable flag of a block.                               *)
(*                                                                         *)
(* The long tables are runs of rows, each named for its first.             *)
(***************************************************************************)
EXTENDS Absent, Integers, Sequences, TLC

-----------------------------------------------------------------------------
(* Part names and families. *)

\* EnumSlau: the family guides, in order.
Slau == <<"kSLAU049", "kSLAU056", "kSLAU144", "kSLAU208", "kSLAU259", "kSLAU272",
          "kSLAU321", "kSLAU335", "kSLAU367", "kSLAU445", "kSLAU506">>

\* The families of msp430_part_name_prefix, by the prefix of the part name.
PartNamePrefix == <<
    "kSLAU335", "kSLAU144", "kSLAU144", "kSLAU208", "kSLAU445", "kSLAU506",
    "kSLAU321", "kSLAU056", "kSLAU272", "kSLAU056", "kSLAU321", "kSLAU144",
    "kSLAU367", "kSLAU367", "kSLAU445", "kSLAU208", "kSLAU056", "kSLAU208",
    "kSLAU208", "kSLAU208", "kSLAU208", "kSLAU208", "kSLAU056", "kSLAU144",
    "kSLAU506", "kSLAU208", "kSLAU208", "kSLAU056", "kSLAU144", "kSLAU049",
    "kSLAU259", "kSLAU259", "kSLAU144"
>>

\* MapToChipToSlau: the first character of a compressed name is its prefix.
MapToChipToSlau(prefix) ==
    (CHOOSE n \in DOMAIN Slau : Slau[n] = PartNamePrefix[prefix + 1]) - 1

\* Device: the prefix of the name stands for its family.
Device(name, prefix, ver, sub, rev, cfg, fuse, fuseMask, fab, self, eem, config, timers, clash, issue) ==
    [name |-> name, slau |-> MapToChipToSlau(prefix), ver |-> ver, sub |-> sub,
     rev |-> rev, cfg |-> cfg, fuse |-> fuse, fuseMask |-> fuseMask, fab |-> fab,
     self |-> self, eem |-> eem, config |-> config, timers |-> timers,
     tlvClash |-> clash, issue1377 |-> issue]

-----------------------------------------------------------------------------
(* msp430_mcus_set, seven records at a time. *)

McusFrom_F20x1_G2x0x_G2x1x == <<
    Device("F20x1_G2x0x_G2x1x", 2, \h01F2, None, None, 1, None, \h1F, None, None,
           "kEmexLow", "MCfg_41_108", None, TRUE, FALSE),
    Device("F20x2_G2x2x_G2x3x", 1, \h01F2, None, None, 2, None, \h1F, None, None,
           "kEmexLow", "MCfg_41_108", None, TRUE, FALSE),
    Device("MSP430AFE220", 11, \h5302, None, None, None, 15, 15, None, None,
           "kEmexLow", "MCfg_30_104", None, TRUE, FALSE),
    Device("MSP430AFE221", 11, \h5302, None, None, None, 11, 15, None, None,
           "kEmexLow", "MCfg_30_104", None, TRUE, FALSE),
    Device("MSP430AFE222", 11, \h5302, None, None, None, 7, 15, None, None,
           "kEmexLow", "MCfg_30_104", None, TRUE, FALSE),
    Device("MSP430AFE223", 11, \h5302, None, None, None, 3, 15, None, None,
           "kEmexLow", "MCfg_30_104", None, TRUE, FALSE),
    Device("MSP430AFE230", 11, \h5302, None, None, None, 14, 15, None, None,
           "kEmexLow", "MCfg_30_102", None, TRUE, FALSE)
>>

McusFrom_MSP430AFE231 == <<
    Device("MSP430AFE231", 11, \h5302, None, None, None, 10, 15, None, None,
           "kEmexLow", "MCfg_30_102", None, TRUE, FALSE),
    Device("MSP430AFE232", 11, \h5302, None, None, None, 6, 15, None, None,
           "kEmexLow", "MCfg_30_102", None, TRUE, FALSE),
    Device("MSP430AFE233", 11, \h5302, None, None, None, 2, 15, None, None,
           "kEmexLow", "MCfg_30_102", None, TRUE, FALSE),
    Device("MSP430AFE250", 11, \h5302, None, None, None, 12, 15, None, None,
           "kEmexLow", "MCfg_30_103", None, TRUE, FALSE),
    Device("MSP430AFE251", 11, \h5302, None, None, None, 8, 15, None, None,
           "kEmexLow", "MCfg_30_103", None, TRUE, FALSE),
    Device("MSP430AFE252", 11, \h5302, None, None, None, 4, 15, None, None,
           "kEmexLow", "MCfg_30_103", None, TRUE, FALSE),
    Device("MSP430AFE253", 11, \h5302, None, None, None, 0, 15, None, None,
           "kEmexLow", "MCfg_30_103", None, TRUE, FALSE)
>>

McusFrom_MSP430C092 == <<
    Device("MSP430C092", 10, \hC092, 0, None, None, None, \h1F, None, None,
           "kEmexExtraSmall5xx", "MCfg_52_0", None, FALSE, FALSE),
    Device("MSP430F11x1", 29, \h12F1, None, \h10, None, None, \h1F, \h40, 0,
           "kEmexLow", "MCfg_42_105", None, FALSE, FALSE),
    Device("MSP430F11x1A", 29, \h12F1, None, \h13, None, None, \h1F, None, 0,
           "kEmexLow", "MCfg_42_105", None, FALSE, FALSE),
    Device("MSP430F11x2", 29, \h3211, None, None, None, None, \h1F, None, None,
           "kEmexLow", "MCfg_42_104", None, FALSE, FALSE),
    Device("MSP430F12x", 29, \h23F1, None, None, None, None, \h1F, None, None,
           "kEmexLow", "MCfg_42_104", None, FALSE, FALSE),
    Device("MSP430F12x2_F11x2", 29, \h3212, None, None, None, None, \h1F, None, None,
           "kEmexLow", "MCfg_42_104", None, FALSE, FALSE),
    Device("MSP430F133", 29, \h49F1, 0, None, None, 5, 15, None, None,
           "kEmexMedium", "MCfg_42_104", None, FALSE, FALSE)
>>

McusFrom_MSP430F135 == <<
    Device("MSP430F135", 29, \h49F1, 0, None, None, 4, 15, None, None,
           "kEmexMedium", "MCfg_42_108", None, FALSE, FALSE),
    Device("MSP430F147", 29, \h49F1, 0, None, None, 2, 15, None, None,
           "kEmexMedium", "MCfg_42_106", None, FALSE, FALSE),
    Device("MSP430F148", 29, \h49F1, 0, None, None, 1, 15, None, None,
           "kEmexMedium", "MCfg_42_101", None, FALSE, FALSE),
    Device("MSP430F149", 29, \h49F1, 0, None, None, 0, 15, None, None,
           "kEmexMedium", "MCfg_42_0", None, FALSE, FALSE),
    Device("MSP430F155", 29, \h69F1, 0, None, None, 6, 15, None, None,
           "kEmexHigh", "MCfg_42_108", None, FALSE, FALSE),
    Device("MSP430F156", 29, \h69F1, 0, None, None, 5, 15, None, None,
           "kEmexHigh", "MCfg_42_107", None, FALSE, FALSE),
    Device("MSP430F157", 29, \h69F1, 0, None, None, 4, 15, None, None,
           "kEmexHigh", "MCfg_42_106", None, FALSE, FALSE)
>>

McusFrom_MSP430F1610 == <<
    Device("MSP430F1610", 29, \h6CF1, 0, None, None, 3, 7, None, None,
           "kEmexHigh", "MCfg_42_103", None, FALSE, FALSE),
    Device("MSP430F1611", 29, \h6CF1, 0, None, None, 0, 7, None, None,
           "kEmexHigh", "MCfg_42_100", None, FALSE, FALSE),
    Device("MSP430F1612", 29, \h6CF1, 0, None, None, 6, 7, None, None,
           "kEmexHigh", "MCfg_42_102", None, FALSE, FALSE),
    Device("MSP430F167", 29, \h69F1, 0, None, None, 2, 15, None, None,
           "kEmexHigh", "MCfg_42_106", None, FALSE, FALSE),
    Device("MSP430F168", 29, \h69F1, 0, None, None, 1, 15, None, None,
           "kEmexHigh", "MCfg_42_101", None, FALSE, FALSE),
    Device("MSP430F169_0", 29, \h69F1, 0, None, None, 0, 15, None, None,
           "kEmexHigh", "MCfg_42_0", None, FALSE, FALSE),
    Device("MSP430F169_1", 29, \h6CF1, 0, None, None, 7, 7, None, None,
           "kEmexHigh", "MCfg_42_0", None, FALSE, FALSE)
>>

McusFrom_MSP430F20x3 == <<
    Device("MSP430F20x3", 28, \h01F2, None, None, 3, None, \h1F, None, None,
           "kEmexLow", "MCfg_41_108", None, TRUE, FALSE),
    Device("MSP430F2112", 28, \h13F2, None, None, 2, 2, 3, None, None,
           "kEmexLow", "MCfg_41_108", None, TRUE, FALSE),
    Device("MSP430F2122", 28, \h13F2, None, None, 2, 1, 3, None, None,
           "kEmexLow", "MCfg_41_104", None, TRUE, FALSE),
    Device("MSP430F2132", 28, \h13F2, None, None, 2, 0, 3, None, None,
           "kEmexLow", "MCfg_41_102", None, TRUE, FALSE),
    Device("MSP430F21x1", 28, \h13F2, None, None, 1, None, \h1F, None, None,
           "kEmexLow", "MCfg_41_107", None, TRUE, FALSE),
    Device("MSP430F2232_G2444", 28, \h27F2, None, None, None, 6, 7, None, None,
           "kEmexLow", "MCfg_41_102", None, TRUE, FALSE),
    Device("MSP430F2234", 28, \h27F2, None, None, None, 2, 7, None, None,
           "kEmexLow", "MCfg_41_102", None, TRUE, FALSE)
>>

McusFrom_MSP430F2252_G2544 == <<
    Device("MSP430F2252_G2544", 28, \h27F2, None, None, None, 5, 7, None, None,
           "kEmexLow", "MCfg_41_103", None, TRUE, FALSE),
    Device("MSP430F2254", 28, \h27F2, None, None, None, 1, 7, None, None,
           "kEmexLow", "MCfg_41_103", None, TRUE, FALSE),
    Device("MSP430F2272_G2744", 28, \h27F2, None, None, None, 4, 7, None, None,
           "kEmexLow", "MCfg_41_106", None, TRUE, FALSE),
    Device("MSP430F2274", 28, \h27F2, None, None, None, 0, 7, None, None,
           "kEmexLow", "MCfg_41_106", None, TRUE, FALSE),
    Device("MSP430F233", 28, \h49F2, None, None, None, 7, 15, None, None,
           "kEmexMedium", "MCfg_41_105", None, TRUE, FALSE),
    Device("MSP430F2330", 28, \h37F2, None, None, None, 2, 3, None, None,
           "kEmexLow", "MCfg_41_105", None, TRUE, FALSE),
    Device("MSP430F235", 28, \h49F2, None, None, None, 3, 15, None, None,
           "kEmexMedium", "MCfg_41_206", None, TRUE, FALSE)
>>

McusFrom_MSP430F2350 == <<
    Device("MSP430F2350", 28, \h37F2, None, None, None, 1, 3, None, None,
           "kEmexLow", "MCfg_41_206", None, TRUE, FALSE),
    Device("MSP430F2370", 28, \h37F2, None, None, None, 0, 3, None, None,
           "kEmexLow", "MCfg_41_207", None, TRUE, FALSE),
    Device("MSP430F2410", 23, \h49F2, None, None, None, 8, 15, None, None,
           "kEmexMedium", "MCfg_41_200", None, TRUE, FALSE),
    Device("MSP430F247", 23, \h49F2, None, None, None, 2, 15, None, None,
           "kEmexMedium", "MCfg_41_100", None, TRUE, FALSE),
    Device("MSP430F2471", 23, \h49F2, None, None, None, 6, 15, None, None,
           "kEmexMedium", "MCfg_41_100", None, TRUE, FALSE),
    Device("MSP430F248", 23, \h49F2, None, None, None, 1, 15, None, None,
           "kEmexMedium", "MCfg_41_203", None, TRUE, FALSE),
    Device("MSP430F2481", 23, \h49F2, None, None, None, 5, 15, None, None,
           "kEmexMedium", "MCfg_41_203", None, TRUE, FALSE)
>>

McusFrom_MSP430F249 == <<
    Device("MSP430F249", 23, \h49F2, None, None, None, 0, 15, None, None,
           "kEmexMedium", "MCfg_41_101", None, TRUE, FALSE),
    Device("MSP430F2491", 23, \h49F2, None, None, None, 4, 15, None, None,
           "kEmexMedium", "MCfg_41_101", None, TRUE, FALSE),
    Device("MSP430F4132", 27, \h5241, None, None, None, 1, 1, None, None,
           "kEmexLow", "MCfg_30_209", None, FALSE, FALSE),
    Device("MSP430F4152", 27, \h5241, None, None, None, 0, 1, None, None,
           "kEmexLow", "MCfg_30_208", None, FALSE, FALSE),
    Device("MSP430F41x", 27, \h13F4, None, 2, None, None, \h1F, \h40, None,
           "kEmexLow", "MCfg_43_100", None, FALSE, FALSE),
    Device("MSP430F423", 27, \h27F4, None, None, \h45, 6, \h1F, None, None,
           "kEmexLow", "MCfg_43_0", None, FALSE, FALSE),
    Device("MSP430F4230", 27, \h27F4, None, None, \h47, 6, 7, None, None,
           "kEmexLow", "MCfg_43_104", None, FALSE, FALSE)
>>

McusFrom_MSP430F423A == <<
    Device("MSP430F423A", 27, \h7A42, None, None, \h45, 6, \h1F, None, None,
           "kEmexLow", "MCfg_43_0", None, FALSE, FALSE),
    Device("MSP430F425", 27, \h27F4, None, None, \h45, 5, \h1F, None, None,
           "kEmexLow", "MCfg_43_102", None, FALSE, FALSE),
    Device("MSP430F4250", 27, \h27F4, None, None, \h47, 5, 7, None, None,
           "kEmexLow", "MCfg_43_202", None, FALSE, FALSE),
    Device("MSP430F425A", 27, \h7A42, None, None, \h45, 5, \h1F, None, None,
           "kEmexLow", "MCfg_43_102", None, FALSE, FALSE),
    Device("MSP430F427", 27, \h27F4, None, None, \h45, 4, \h1F, None, None,
           "kEmexLow", "MCfg_43_101", None, FALSE, FALSE),
    Device("MSP430F427A", 27, \h7A42, None, None, \h45, 4, \h1F, None, None,
           "kEmexLow", "MCfg_43_101", None, FALSE, FALSE),
    Device("MSP430F42x0", 27, \h27F4, None, None, \h47, 4, 7, None, None,
           "kEmexLow", "MCfg_43_203", None, FALSE, FALSE)
>>

McusFrom_MSP430F43x_0 == <<
    Device("MSP430F43x_0", 27, \h37F4, None, None, None, None, \h1F, None, None,
           "kEmexHigh", "MCfg_43_101", None, FALSE, FALSE),
    Device("MSP430F43x_1", 27, \h49F4, None, None, None, 2, 15, None, None,
           "kEmexHigh", "MCfg_43_101", None, FALSE, FALSE),
    Device("MSP430F44x", 27, \h49F4, None, None, 0, 0, 15, None, None,
           "kEmexHigh", "MCfg_43_103", None, FALSE, FALSE),
    Device("MSP430F477", 22, \h79F4, None, None, \h47, 6, 7, None, None,
           "kEmexLow", "MCfg_30_101", None, TRUE, FALSE),
    Device("MSP430F478", 22, \h79F4, None, None, \h47, 5, 7, None, None,
           "kEmexLow", "MCfg_30_205", None, TRUE, FALSE),
    Device("MSP430F4783", 22, \h49F4, None, None, 2, 7, 7, None, None,
           "kEmexLow", "MCfg_30_204", None, TRUE, FALSE),
    Device("MSP430F4784", 22, \h49F4, None, None, 2, 3, 7, None, None,
           "kEmexLow", "MCfg_30_204", None, TRUE, FALSE)
>>

McusFrom_MSP430F479 == <<
    Device("MSP430F479", 22, \h79F4, None, None, \h47, 4, 7, None, None,
           "kEmexLow", "MCfg_30_206", None, TRUE, FALSE),
    Device("MSP430F4793", 22, \h49F4, None, None, 2, 4, 7, None, None,
           "kEmexLow", "MCfg_30_207", None, TRUE, FALSE),
    Device("MSP430F4794", 22, \h49F4, None, None, 2, 0, 7, None, None,
           "kEmexLow", "MCfg_30_207", None, TRUE, FALSE),
    Device("MSP430FE423", 9, \h27F4, None, None, \h45, 2, \h1F, None, None,
           "kEmexLow", "MCfg_43_0", None, FALSE, FALSE),
    Device("MSP430FE4232", 9, \h5242, None, None, \h45, \h12, \h1F, None, None,
           "kEmexLow", "MCfg_43_0", None, FALSE, FALSE),
    Device("MSP430FE423A", 9, \h7A42, None, None, \h45, 2, \h1F, None, None,
           "kEmexLow", "MCfg_43_0", None, FALSE, FALSE),
    Device("MSP430FE425", 9, \h27F4, None, None, \h45, 1, \h1F, None, None,
           "kEmexLow", "MCfg_43_102", None, FALSE, FALSE)
>>

McusFrom_MSP430FE425A == <<
    Device("MSP430FE425A", 9, \h7A42, None, None, \h45, 1, \h1F, None, None,
           "kEmexLow", "MCfg_43_102", None, FALSE, FALSE),
    Device("MSP430FE427", 9, \h27F4, None, None, \h45, 0, \h1F, None, None,
           "kEmexLow", "MCfg_43_101", None, FALSE, FALSE),
    Device("MSP430FE4272", 9, \h5242, None, None, \h45, \h10, \h1F, None, None,
           "kEmexLow", "MCfg_43_101", None, FALSE, FALSE),
    Device("MSP430FE427A", 9, \h7A42, None, None, \h45, 0, \h1F, None, None,
           "kEmexLow", "MCfg_43_101", None, FALSE, FALSE),
    Device("MSP430FE42x2", 9, \h5242, None, None, \h45, \h11, \h1F, None, None,
           "kEmexLow", "MCfg_43_102", None, FALSE, FALSE),
    Device("MSP430FG4250", 16, \h27F4, None, None, \h47, 1, 7, None, None,
           "kEmexLow", "MCfg_43_202", None, FALSE, FALSE),
    Device("MSP430FG42x0", 16, \h27F4, None, None, \h47, 0, 7, None, None,
           "kEmexLow", "MCfg_43_203", None, FALSE, FALSE)
>>

McusFrom_MSP430FG43x_F43x == <<
    Device("MSP430FG43x_F43x", 16, \h39F4, None, None, \h47, None, \h1F, None, None,
           "kEmexLow", "MCfg_43_201", None, FALSE, FALSE),
    Device("MSP430FG477", 16, \h79F4, None, None, \h47, 2, 7, None, None,
           "kEmexLow", "MCfg_30_101", None, TRUE, FALSE),
    Device("MSP430FG478", 16, \h79F4, None, None, \h47, 1, 7, None, None,
           "kEmexLow", "MCfg_30_205", None, TRUE, FALSE),
    Device("MSP430FG479", 16, \h79F4, None, None, \h47, 0, 7, None, None,
           "kEmexLow", "MCfg_30_206", None, TRUE, FALSE),
    Device("MSP430FW429", 7, \h29F4, None, None, \h57, None, \h1F, None, None,
           "kEmexLow", "MCfg_43_103", None, FALSE, FALSE),
    Device("MSP430FW42x_F41x", 7, \h27F4, None, None, \h57, None, \h1F, None, None,
           "kEmexLow", "MCfg_43_200", None, FALSE, FALSE),
    Device("MSP430G2x55", 32, \h5529, None, None, None, None, \h1F, None, None,
           "kEmexLow", "MCfg_41_200", None, TRUE, FALSE)
>>

McusFrom_MSP430G2xx2 == <<
    Device("MSP430G2xx2", 32, \h5224, None, None, None, None, \h1F, None, None,
           "kEmexLow", "MCfg_41_107", None, TRUE, FALSE),
    Device("MSP430G2xx3", 32, \h5325, None, None, None, None, \h1F, None, None,
           "kEmexLow", "MCfg_41_103", None, TRUE, FALSE),
    Device("MSP430I204x_I203x_I202x", 0, \h2040, None, None, None, None, \h1F, None, None,
           "kEmexLow", "MCfg_60_0", None, TRUE, FALSE),
    Device("MSP430L092", 6, \hC092, 0, None, None, None, \h1F, None, None,
           "kEmexExtraSmall5xx", "MCfg_53_0", None, FALSE, FALSE),
    Device("MSP430TCH5E", 32, \h5C25, None, None, None, None, \h1F, None, None,
           "kEmexLow", "MCfg_41_103", None, TRUE, FALSE),
    Device("RF430FRL152H", 5, \h81E7, None, None, None, None, \h1F, None, None,
           "kEmexExtraSmall5xx", "MCfg_51_0", None, FALSE, FALSE),
    Device("RF430FRL153H", 5, \h81FB, None, None, None, None, \h1F, None, None,
           "kEmexExtraSmall5xx", "MCfg_51_0", None, FALSE, FALSE)
>>

McusFrom_RF430FRL154H == <<
    Device("RF430FRL154H", 5, \h81FC, None, None, None, None, \h1F, None, None,
           "kEmexExtraSmall5xx", "MCfg_51_0", None, FALSE, FALSE),
    Device("MSP430F2416", 23, \h6FF2, None, None, None, 7, 7, None, None,
           "kEmexHigh", "MCfg_41_201", None, TRUE, FALSE),
    Device("MSP430F2417", 23, \h6FF2, None, None, None, 6, 7, None, None,
           "kEmexHigh", "MCfg_41_204", None, TRUE, FALSE),
    Device("MSP430F2418", 23, \h6FF2, None, None, None, 5, 7, None, None,
           "kEmexHigh", "MCfg_41_205", None, TRUE, FALSE),
    Device("MSP430F2419", 23, \h6FF2, None, None, None, 4, 7, None, None,
           "kEmexHigh", "MCfg_41_202", None, TRUE, FALSE),
    Device("MSP430F2616", 28, \h6FF2, None, None, None, 3, 7, None, None,
           "kEmexHigh", "MCfg_41_201", None, TRUE, FALSE),
    Device("MSP430F2617", 28, \h6FF2, None, None, None, 2, 7, None, None,
           "kEmexHigh", "MCfg_41_204", None, TRUE, FALSE)
>>

McusFrom_MSP430F2618 == <<
    Device("MSP430F2618", 28, \h6FF2, None, None, None, 1, 7, None, None,
           "kEmexHigh", "MCfg_41_205", None, TRUE, FALSE),
    Device("MSP430F2619", 28, \h6FF2, None, None, None, 0, 7, None, None,
           "kEmexHigh", "MCfg_41_202", None, TRUE, FALSE),
    Device("MSP430F47126", 22, \h7FF4, None, None, None, 13, 15, None, None,
           "kEmexHigh", "MCfg_30_201", None, TRUE, FALSE),
    Device("MSP430F47127", 22, \h7FF4, None, None, None, 12, 15, None, None,
           "kEmexHigh", "MCfg_30_201", None, TRUE, FALSE),
    Device("MSP430F47163", 22, \h7FF4, None, None, None, 11, 15, None, None,
           "kEmexHigh", "MCfg_30_100", None, TRUE, FALSE),
    Device("MSP430F47166", 22, \h7FF4, None, None, None, 7, 15, None, None,
           "kEmexHigh", "MCfg_30_100", None, TRUE, FALSE),
    Device("MSP430F47167", 22, \h7FF4, None, None, None, 3, 15, None, None,
           "kEmexHigh", "MCfg_30_100", None, TRUE, FALSE)
>>

McusFrom_MSP430F47173 == <<
    Device("MSP430F47173", 22, \h7FF4, None, None, None, 10, 15, None, None,
           "kEmexHigh", "MCfg_30_202", None, TRUE, FALSE),
    Device("MSP430F47176", 22, \h7FF4, None, None, None, 6, 15, None, None,
           "kEmexHigh", "MCfg_30_202", None, TRUE, FALSE),
    Device("MSP430F47177", 22, \h7FF4, None, None, None, 2, 15, None, None,
           "kEmexHigh", "MCfg_30_202", None, TRUE, FALSE),
    Device("MSP430F47183", 22, \h7FF4, None, None, None, 9, 15, None, None,
           "kEmexHigh", "MCfg_30_203", None, TRUE, FALSE),
    Device("MSP430F47186", 22, \h7FF4, None, None, None, 5, 15, None, None,
           "kEmexHigh", "MCfg_30_203", None, TRUE, FALSE),
    Device("MSP430F47187", 22, \h7FF4, None, None, None, 1, 15, None, None,
           "kEmexHigh", "MCfg_30_203", None, TRUE, FALSE),
    Device("MSP430F47193", 22, \h7FF4, None, None, None, 8, 15, None, None,
           "kEmexHigh", "MCfg_30_200", None, TRUE, FALSE)
>>

McusFrom_MSP430F47196 == <<
    Device("MSP430F47196", 22, \h7FF4, None, None, None, 4, 15, None, None,
           "kEmexHigh", "MCfg_30_200", None, TRUE, FALSE),
    Device("MSP430F47197", 22, \h7FF4, None, None, None, 0, 15, None, None,
           "kEmexHigh", "MCfg_30_200", None, TRUE, FALSE),
    Device("MSP430FG4616", 16, \h6FF4, None, None, \h47, 3, 3, None, None,
           "kEmexHigh", "MCfg_43_301", None, FALSE, FALSE),
    Device("MSP430FG4617", 16, \h6FF4, None, None, \h47, 2, 3, None, None,
           "kEmexHigh", "MCfg_43_302", None, FALSE, FALSE),
    Device("MSP430FG4618", 16, \h6FF4, None, None, \h47, 1, 3, None, None,
           "kEmexHigh", "MCfg_43_303", None, FALSE, FALSE),
    Device("MSP430FG4619", 16, \h6FF4, None, None, \h47, 0, 3, None, None,
           "kEmexHigh", "MCfg_43_300", None, FALSE, FALSE),
    Device("CC430F5123", 31, \h813C, 0, None, None, None, \h1F, None, None,
           "kEmexSmall5xx", "MCfg_40_118", 3, FALSE, FALSE)
>>

McusFrom_CC430F5125 == <<
    Device("CC430F5125", 31, \h813B, 0, None, None, None, \h1F, None, None,
           "kEmexSmall5xx", "MCfg_40_222", 3, FALSE, FALSE),
    Device("CC430F5133", 31, \h3351, 0, None, None, None, \h1F, None, None,
           "kEmexSmall5xx", "MCfg_40_217", 2, FALSE, FALSE),
    Device("CC430F5135", 31, \h3551, 0, None, None, None, \h1F, None, None,
           "kEmexSmall5xx", "MCfg_40_214", 2, FALSE, FALSE),
    Device("CC430F5137", 31, \h3751, 0, None, None, None, \h1F, None, None,
           "kEmexSmall5xx", "MCfg_40_124", 2, FALSE, FALSE),
    Device("CC430F5143", 31, \h813A, 0, None, None, None, \h1F, None, None,
           "kEmexSmall5xx", "MCfg_40_118", 2, FALSE, FALSE),
    Device("CC430F5145", 31, \h8139, 0, None, None, None, \h1F, None, None,
           "kEmexSmall5xx", "MCfg_40_222", 2, FALSE, FALSE),
    Device("CC430F5147", 31, \h8138, 0, None, None, None, \h1F, None, None,
           "kEmexSmall5xx", "MCfg_40_117", 2, FALSE, FALSE)
>>

McusFrom_CC430F6125 == <<
    Device("CC430F6125", 30, \h2561, 0, None, None, None, \h1F, None, None,
           "kEmexSmall5xx", "MCfg_40_214", 0, FALSE, FALSE),
    Device("CC430F6126", 30, \h2661, 0, None, None, None, \h1F, None, None,
           "kEmexSmall5xx", "MCfg_40_216", 0, FALSE, FALSE),
    Device("CC430F6127", 30, \h2761, 0, None, None, None, \h1F, None, None,
           "kEmexSmall5xx", "MCfg_40_124", 1, FALSE, FALSE),
    Device("CC430F6135", 30, \h3561, 0, None, None, None, \h1F, None, None,
           "kEmexSmall5xx", "MCfg_40_214", 1, FALSE, FALSE),
    Device("CC430F6137", 30, \h3761, 0, None, None, None, \h1F, None, None,
           "kEmexSmall5xx", "MCfg_40_124", 1, FALSE, FALSE),
    Device("CC430F6143", 30, \h8137, 0, None, None, None, \h1F, None, None,
           "kEmexSmall5xx", "MCfg_40_118", 1, FALSE, FALSE),
    Device("CC430F6145", 30, \h8136, 0, None, None, None, \h1F, None, None,
           "kEmexSmall5xx", "MCfg_40_222", 1, FALSE, FALSE)
>>

McusFrom_CC430F6147 == <<
    Device("CC430F6147", 30, \h8135, 0, None, None, None, \h1F, None, None,
           "kEmexSmall5xx", "MCfg_40_117", 1, FALSE, FALSE),
    Device("MSP430F5131", 26, \h8026, 0, None, None, None, \h1F, None, None,
           "kEmexSmall5xx", "MCfg_40_221", 5, FALSE, TRUE),
    Device("MSP430F5132", 26, \h8028, 0, None, None, None, \h1F, None, None,
           "kEmexSmall5xx", "MCfg_40_221", 4, FALSE, TRUE),
    Device("MSP430F5151", 26, \h802A, 0, None, None, None, \h1F, None, None,
           "kEmexSmall5xx", "MCfg_40_215", 5, FALSE, TRUE),
    Device("MSP430F5152", 26, \h802C, 0, None, None, None, \h1F, None, None,
           "kEmexSmall5xx", "MCfg_40_215", 4, FALSE, TRUE),
    Device("MSP430F5171", 26, \h802E, 0, None, None, None, \h1F, None, None,
           "kEmexSmall5xx", "MCfg_40_110", 5, FALSE, TRUE),
    Device("MSP430F5172", 26, \h8030, 0, None, None, None, \h1F, None, None,
           "kEmexSmall5xx", "MCfg_40_110", 4, FALSE, TRUE)
>>

McusFrom_MSP430F5212 == <<
    Device("MSP430F5212", 21, \h8140, 0, None, None, None, \h1F, None, None,
           "kEmexSmall5xx", "MCfg_40_104", 6, FALSE, TRUE),
    Device("MSP430F5213", 21, \h8141, 0, None, None, None, \h1F, None, None,
           "kEmexSmall5xx", "MCfg_40_106", 6, FALSE, TRUE),
    Device("MSP430F5214", 21, \h8142, 0, None, None, None, \h1F, None, None,
           "kEmexSmall5xx", "MCfg_40_105", 6, FALSE, TRUE),
    Device("MSP430F5217", 21, \h8145, 0, None, None, None, \h1F, None, None,
           "kEmexSmall5xx", "MCfg_40_104", 6, FALSE, TRUE),
    Device("MSP430F5218", 21, \h8146, 0, None, None, None, \h1F, None, None,
           "kEmexSmall5xx", "MCfg_40_106", 6, FALSE, TRUE),
    Device("MSP430F5219", 21, \h8147, 0, None, None, None, \h1F, None, None,
           "kEmexSmall5xx", "MCfg_40_105", 6, FALSE, TRUE),
    Device("MSP430F5222", 21, \h814A, 0, None, None, None, \h1F, None, None,
           "kEmexSmall5xx", "MCfg_40_104", 7, FALSE, TRUE)
>>

McusFrom_MSP430F5223 == <<
    Device("MSP430F5223", 21, \h814B, 0, None, None, None, \h1F, None, None,
           "kEmexSmall5xx", "MCfg_40_106", 7, FALSE, TRUE),
    Device("MSP430F5224", 21, \h814C, 0, None, None, None, \h1F, None, None,
           "kEmexSmall5xx", "MCfg_40_105", 7, FALSE, TRUE),
    Device("MSP430F5227", 21, \h814F, 0, None, None, None, \h1F, None, None,
           "kEmexSmall5xx", "MCfg_40_104", 7, FALSE, TRUE),
    Device("MSP430F5228", 21, \h8150, 0, None, None, None, \h1F, None, None,
           "kEmexSmall5xx", "MCfg_40_106", 7, FALSE, TRUE),
    Device("MSP430F5229", 21, \h8151, 0, None, None, None, \h1F, None, None,
           "kEmexSmall5xx", "MCfg_40_105", 7, FALSE, TRUE),
    Device("MSP430F5232", 21, \h81FA, 0, None, None, None, \h1F, None, None,
           "kEmexSmall5xx", "MCfg_40_104", 6, FALSE, TRUE),
    Device("MSP430F5234", 21, \h81F9, 0, None, None, None, \h1F, None, None,
           "kEmexSmall5xx", "MCfg_40_105", 6, FALSE, TRUE)
>>

McusFrom_MSP430F5237 == <<
    Device("MSP430F5237", 21, \h81F8, 0, None, None, None, \h1F, None, None,
           "kEmexSmall5xx", "MCfg_40_104", 6, FALSE, TRUE),
    Device("MSP430F5239", 21, \h81F7, 0, None, None, None, \h1F, None, None,
           "kEmexSmall5xx", "MCfg_40_105", 6, FALSE, TRUE),
    Device("MSP430F5242", 21, \h81F6, 0, None, None, None, \h1F, None, None,
           "kEmexSmall5xx", "MCfg_40_104", 7, FALSE, TRUE),
    Device("MSP430F5244", 21, \h81F5, 0, None, None, None, \h1F, None, None,
           "kEmexSmall5xx", "MCfg_40_105", 7, FALSE, TRUE),
    Device("MSP430F5247", 21, \h81F4, 0, None, None, None, \h1F, None, None,
           "kEmexSmall5xx", "MCfg_40_104", 7, FALSE, TRUE),
    Device("MSP430F5249", 21, \h81F3, 0, None, None, None, \h1F, None, None,
           "kEmexSmall5xx", "MCfg_40_105", 7, FALSE, TRUE),
    Device("MSP430F5252", 21, \h8206, 0, None, None, None, \h1F, None, None,
           "kEmexSmall5xx", "MCfg_40_102", 6, FALSE, TRUE)
>>

McusFrom_MSP430F5253 == <<
    Device("MSP430F5253", 21, \h8205, 0, None, None, None, \h1F, None, None,
           "kEmexSmall5xx", "MCfg_40_102", 7, FALSE, TRUE),
    Device("MSP430F5254", 21, \h8204, 0, None, None, None, \h1F, None, None,
           "kEmexSmall5xx", "MCfg_40_122", 6, FALSE, TRUE),
    Device("MSP430F5255", 21, \h8203, 0, None, None, None, \h1F, None, None,
           "kEmexSmall5xx", "MCfg_40_122", 7, FALSE, TRUE),
    Device("MSP430F5256", 21, \h8202, 0, None, None, None, \h1F, None, None,
           "kEmexSmall5xx", "MCfg_40_102", 6, FALSE, TRUE),
    Device("MSP430F5257", 21, \h8201, 0, None, None, None, \h1F, None, None,
           "kEmexSmall5xx", "MCfg_40_102", 7, FALSE, TRUE),
    Device("MSP430F5258", 21, \h8200, 0, None, None, None, \h1F, None, None,
           "kEmexSmall5xx", "MCfg_40_122", 6, FALSE, TRUE),
    Device("MSP430F5259", 21, \h81FF, 0, None, None, None, \h1F, None, None,
           "kEmexSmall5xx", "MCfg_40_122", 7, FALSE, TRUE)
>>

McusFrom_MSP430F5304 == <<
    Device("MSP430F5304", 20, \h8112, 0, None, None, None, \h1F, None, None,
           "kEmexSmall5xx", "MCfg_40_123", 8, FALSE, TRUE),
    Device("MSP430F5308", 20, \h8113, 0, None, None, None, \h1F, None, None,
           "kEmexSmall5xx", "MCfg_40_226", 9, FALSE, TRUE),
    Device("MSP430F5309", 20, \h8114, 0, None, None, None, \h1F, None, None,
           "kEmexSmall5xx", "MCfg_40_227", 9, FALSE, TRUE),
    Device("MSP430F5310", 20, \h8115, 0, None, None, None, \h1F, None, None,
           "kEmexSmall5xx", "MCfg_40_225", 9, FALSE, TRUE),
    Device("MSP430F5324", 20, \h8116, 0, None, None, None, \h1F, None, None,
           "kEmexLarge5xx", "MCfg_40_206", 7, FALSE, TRUE),
    Device("MSP430F5325", 20, \h8117, 0, None, None, None, \h1F, None, None,
           "kEmexLarge5xx", "MCfg_40_206", 7, FALSE, TRUE),
    Device("MSP430F5326", 20, \h8118, 0, None, None, None, \h1F, None, None,
           "kEmexLarge5xx", "MCfg_40_120", 7, FALSE, TRUE)
>>

McusFrom_MSP430F5327 == <<
    Device("MSP430F5327", 20, \h8119, 0, None, None, None, \h1F, None, None,
           "kEmexLarge5xx", "MCfg_40_120", 7, FALSE, TRUE),
    Device("MSP430F5328", 20, \h811A, 0, None, None, None, \h1F, None, None,
           "kEmexLarge5xx", "MCfg_40_121", 7, FALSE, TRUE),
    Device("MSP430F5329", 20, \h811B, 0, None, None, None, \h1F, None, None,
           "kEmexLarge5xx", "MCfg_40_121", 7, FALSE, TRUE),
    Device("MSP430F5333", 20, \h8125, 0, None, None, None, \h1F, None, None,
           "kEmexLarge5xx", "MCfg_40_224", 7, FALSE, TRUE),
    Device("MSP430F5335", 20, \h8127, 0, None, None, None, \h1F, None, None,
           "kEmexLarge5xx", "MCfg_40_109", 7, FALSE, TRUE),
    Device("MSP430F5336", 20, \h8128, 0, None, None, None, \h1F, None, None,
           "kEmexLarge5xx", "MCfg_40_213", 10, FALSE, TRUE),
    Device("MSP430F5338", 20, \h812A, 0, None, None, None, \h1F, None, None,
           "kEmexLarge5xx", "MCfg_40_109", 10, FALSE, TRUE)
>>

McusFrom_MSP430F5340 == <<
    Device("MSP430F5340", 20, \h811C, 0, None, None, None, \h1F, None, None,
           "kEmexLarge5xx", "MCfg_40_206", 7, FALSE, TRUE),
    Device("MSP430F5341", 20, \h811D, 0, None, None, None, \h1F, None, None,
           "kEmexLarge5xx", "MCfg_40_120", 7, FALSE, TRUE),
    Device("MSP430F5342", 20, \h811E, 0, None, None, None, \h1F, None, None,
           "kEmexLarge5xx", "MCfg_40_121", 7, FALSE, TRUE),
    Device("MSP430F5358", 20, \h8133, 0, None, None, None, \h1F, None, None,
           "kEmexLarge5xx", "MCfg_40_211", 11, FALSE, TRUE),
    Device("MSP430F5359", 20, \h8132, 0, None, None, None, \h1F, None, None,
           "kEmexLarge5xx", "MCfg_40_212", 11, FALSE, TRUE),
    Device("MSP430F5418", 19, \h1854, 0, None, None, None, \h1F, None, None,
           "kEmexLarge5xx", "MCfg_40_112", 12, FALSE, TRUE),
    Device("MSP430F5418A", 19, \h8000, 0, None, None, None, \h1F, None, None,
           "kEmexLarge5xx", "MCfg_40_112", 12, FALSE, TRUE)
>>

McusFrom_MSP430F5419 == <<
    Device("MSP430F5419", 19, \h1954, 0, None, None, None, \h1F, None, None,
           "kEmexLarge5xx", "MCfg_40_112", 13, FALSE, TRUE),
    Device("MSP430F5419A", 19, \h8001, 0, None, None, None, \h1F, None, None,
           "kEmexLarge5xx", "MCfg_40_112", 13, FALSE, TRUE),
    Device("MSP430F5435", 19, \h3554, 0, None, None, None, \h1F, None, None,
           "kEmexLarge5xx", "MCfg_40_113", 12, FALSE, TRUE),
    Device("MSP430F5435A", 19, \h8002, 0, None, None, None, \h1F, None, None,
           "kEmexLarge5xx", "MCfg_40_113", 12, FALSE, TRUE),
    Device("MSP430F5436", 19, \h3654, 0, None, None, None, \h1F, None, None,
           "kEmexLarge5xx", "MCfg_40_113", 13, FALSE, TRUE),
    Device("MSP430F5436A", 19, \h8003, 0, None, None, None, \h1F, None, None,
           "kEmexLarge5xx", "MCfg_40_113", 13, FALSE, TRUE),
    Device("MSP430F5437", 19, \h3754, 0, None, None, None, \h1F, None, None,
           "kEmexLarge5xx", "MCfg_40_114", 12, FALSE, TRUE)
>>

McusFrom_MSP430F5437A == <<
    Device("MSP430F5437A", 19, \h8004, 0, None, None, None, \h1F, None, None,
           "kEmexLarge5xx", "MCfg_40_114", 12, FALSE, TRUE),
    Device("MSP430F5438", 19, \h3854, 0, None, None, None, \h1F, None, None,
           "kEmexLarge5xx", "MCfg_40_114", 13, FALSE, FALSE),
    Device("MSP430F5438A_0", 19, \h8005, 0, None, None, None, \h1F, None, None,
           "kEmexLarge5xx", "MCfg_40_114", 13, FALSE, TRUE),
    Device("MSP430F5438A_1", 19, \h8005, 1, None, None, None, \h1F, None, None,
           "kEmexLarge5xx", "MCfg_40_114", 13, FALSE, TRUE),
    Device("MSP430F5500", 18, \h803B, 0, None, None, None, \h1F, None, None,
           "kEmexSmall5xx", "MCfg_40_220", 17, FALSE, TRUE),
    Device("MSP430F5501", 18, \h8032, 0, None, None, None, \h1F, None, None,
           "kEmexSmall5xx", "MCfg_40_218", 17, FALSE, TRUE),
    Device("MSP430F5502", 18, \h8033, 0, None, None, None, \h1F, None, None,
           "kEmexSmall5xx", "MCfg_40_219", 17, FALSE, TRUE)
>>

McusFrom_MSP430F5503 == <<
    Device("MSP430F5503", 18, \h8034, 0, None, None, None, \h1F, None, None,
           "kEmexSmall5xx", "MCfg_40_115", 17, FALSE, TRUE),
    Device("MSP430F5504", 18, \h8035, 0, None, None, None, \h1F, None, None,
           "kEmexSmall5xx", "MCfg_40_220", 18, FALSE, TRUE),
    Device("MSP430F5505", 18, \h8036, 0, None, None, None, \h1F, None, None,
           "kEmexSmall5xx", "MCfg_40_218", 18, FALSE, TRUE),
    Device("MSP430F5506", 18, \h8037, 0, None, None, None, \h1F, None, None,
           "kEmexSmall5xx", "MCfg_40_219", 18, FALSE, TRUE),
    Device("MSP430F5507", 18, \h8038, 0, None, None, None, \h1F, None, None,
           "kEmexSmall5xx", "MCfg_40_115", 18, FALSE, TRUE),
    Device("MSP430F5508", 18, \h8039, 0, None, None, None, \h1F, None, None,
           "kEmexSmall5xx", "MCfg_40_218", 16, FALSE, TRUE),
    Device("MSP430F5509", 18, \h803A, 0, None, None, None, \h1F, None, None,
           "kEmexSmall5xx", "MCfg_40_219", 16, FALSE, TRUE)
>>

McusFrom_MSP430F5510 == <<
    Device("MSP430F5510", 18, \h8031, 0, None, None, None, \h1F, None, None,
           "kEmexSmall5xx", "MCfg_40_115", 16, FALSE, TRUE),
    Device("MSP430F5513", 18, \h1355, 0, None, None, None, \h1F, None, None,
           "kEmexLarge5xx", "MCfg_40_107", 15, FALSE, TRUE),
    Device("MSP430F5514", 18, \h1455, 0, None, None, None, \h1F, None, None,
           "kEmexLarge5xx", "MCfg_40_205", 15, FALSE, TRUE),
    Device("MSP430F5515", 18, \h1555, 0, None, None, None, \h1F, None, None,
           "kEmexLarge5xx", "MCfg_40_205", 15, FALSE, TRUE),
    Device("MSP430F5517", 18, \h1755, 0, None, None, None, \h1F, None, None,
           "kEmexLarge5xx", "MCfg_40_223", 15, FALSE, TRUE),
    Device("MSP430F5519", 18, \h1955, 0, None, None, None, \h1F, None, None,
           "kEmexLarge5xx", "MCfg_40_207", 15, FALSE, TRUE),
    Device("MSP430F5521", 18, \h2155, 0, None, None, None, \h1F, None, None,
           "kEmexLarge5xx", "MCfg_40_107", 14, FALSE, TRUE)
>>

McusFrom_MSP430F5522 == <<
    Device("MSP430F5522", 18, \h2255, 0, None, None, None, \h1F, None, None,
           "kEmexLarge5xx", "MCfg_40_107", 14, FALSE, TRUE),
    Device("MSP430F5524", 18, \h2455, 0, None, None, None, \h1F, None, None,
           "kEmexLarge5xx", "MCfg_40_205", 14, FALSE, TRUE),
    Device("MSP430F5525", 18, \h2555, 0, None, None, None, \h1F, None, None,
           "kEmexLarge5xx", "MCfg_40_205", 14, FALSE, TRUE),
    Device("MSP430F5526", 18, \h2655, 0, None, None, None, \h1F, None, None,
           "kEmexLarge5xx", "MCfg_40_223", 14, FALSE, TRUE),
    Device("MSP430F5527", 18, \h2755, 0, None, None, None, \h1F, None, None,
           "kEmexLarge5xx", "MCfg_40_223", 14, FALSE, TRUE),
    Device("MSP430F5528", 18, \h2855, 0, None, None, None, \h1F, None, None,
           "kEmexLarge5xx", "MCfg_40_207", 14, FALSE, TRUE),
    Device("MSP430F5529", 18, \h2955, 0, None, None, None, \h1F, None, None,
           "kEmexLarge5xx", "MCfg_40_207", 14, FALSE, TRUE)
>>

McusFrom_MSP430F5630 == <<
    Device("MSP430F5630", 26, \h803C, 0, None, None, None, \h1F, None, None,
           "kEmexLarge5xx", "MCfg_40_103", 26, FALSE, TRUE),
    Device("MSP430F5631", 26, \h803E, 0, None, None, None, \h1F, None, None,
           "kEmexLarge5xx", "MCfg_40_201", 26, FALSE, TRUE),
    Device("MSP430F5632", 26, \h8040, 0, None, None, None, \h1F, None, None,
           "kEmexLarge5xx", "MCfg_40_202", 26, FALSE, TRUE),
    Device("MSP430F5633", 26, \h8042, 0, None, None, None, \h1F, None, None,
           "kEmexLarge5xx", "MCfg_40_103", 24, FALSE, TRUE),
    Device("MSP430F5634", 26, \h8044, 0, None, None, None, \h1F, None, None,
           "kEmexLarge5xx", "MCfg_40_201", 24, FALSE, TRUE),
    Device("MSP430F5635", 26, \h800E, 0, None, None, None, \h1F, None, None,
           "kEmexLarge5xx", "MCfg_40_202", 24, FALSE, TRUE),
    Device("MSP430F5636", 26, \h8010, 0, None, None, None, \h1F, None, None,
           "kEmexLarge5xx", "MCfg_40_103", 23, FALSE, TRUE)
>>

McusFrom_MSP430F5637 == <<
    Device("MSP430F5637", 26, \h8012, 0, None, None, None, \h1F, None, None,
           "kEmexLarge5xx", "MCfg_40_201", 23, FALSE, TRUE),
    Device("MSP430F5638", 26, \h8014, 0, None, None, None, \h1F, None, None,
           "kEmexLarge5xx", "MCfg_40_202", 23, FALSE, TRUE),
    Device("MSP430F5658", 26, \h8131, 0, None, None, None, \h1F, None, None,
           "kEmexLarge5xx", "MCfg_40_211", 23, FALSE, TRUE),
    Device("MSP430F5659", 26, \h8130, 0, None, None, None, \h1F, None, None,
           "kEmexLarge5xx", "MCfg_40_212", 23, FALSE, TRUE),
    Device("MSP430F6433", 25, \h811F, 0, None, None, None, \h1F, None, None,
           "kEmexLarge5xx", "MCfg_40_224", 19, FALSE, TRUE),
    Device("MSP430F6435", 25, \h8121, 0, None, None, None, \h1F, None, None,
           "kEmexLarge5xx", "MCfg_40_109", 19, FALSE, TRUE),
    Device("MSP430F6436", 25, \h8122, 0, None, None, None, \h1F, None, None,
           "kEmexLarge5xx", "MCfg_40_213", 20, FALSE, TRUE)
>>

McusFrom_MSP430F6438 == <<
    Device("MSP430F6438", 25, \h8124, 0, None, None, None, \h1F, None, None,
           "kEmexLarge5xx", "MCfg_40_109", 20, FALSE, TRUE),
    Device("MSP430F6458", 25, \h812E, 0, None, None, None, \h1F, None, None,
           "kEmexLarge5xx", "MCfg_40_211", 21, FALSE, TRUE),
    Device("MSP430F6459", 25, \h812D, 0, None, None, None, \h1F, None, None,
           "kEmexLarge5xx", "MCfg_40_212", 21, FALSE, TRUE),
    Device("MSP430F6630", 25, \h8046, 0, None, None, None, \h1F, None, None,
           "kEmexLarge5xx", "MCfg_40_103", 27, FALSE, TRUE),
    Device("MSP430F6631", 25, \h8048, 0, None, None, None, \h1F, None, None,
           "kEmexLarge5xx", "MCfg_40_201", 27, FALSE, TRUE),
    Device("MSP430F6632", 25, \h804A, 0, None, None, None, \h1F, None, None,
           "kEmexLarge5xx", "MCfg_40_202", 27, FALSE, TRUE),
    Device("MSP430F6633", 25, \h804C, 0, None, None, None, \h1F, None, None,
           "kEmexLarge5xx", "MCfg_40_103", 25, FALSE, TRUE)
>>

McusFrom_MSP430F6634 == <<
    Device("MSP430F6634", 25, \h804E, 0, None, None, None, \h1F, None, None,
           "kEmexLarge5xx", "MCfg_40_201", 25, FALSE, TRUE),
    Device("MSP430F6635", 25, \h8016, 0, None, None, None, \h1F, None, None,
           "kEmexLarge5xx", "MCfg_40_202", 25, FALSE, TRUE),
    Device("MSP430F6636", 25, \h8018, 0, None, None, None, \h1F, None, None,
           "kEmexLarge5xx", "MCfg_40_103", 22, FALSE, TRUE),
    Device("MSP430F6637", 25, \h801A, 0, None, None, None, \h1F, None, None,
           "kEmexLarge5xx", "MCfg_40_201", 22, FALSE, TRUE),
    Device("MSP430F6638", 25, \h801C, 0, None, None, None, \h1F, None, None,
           "kEmexLarge5xx", "MCfg_40_202", 22, FALSE, TRUE),
    Device("MSP430F6658", 25, \h812C, 0, None, None, None, \h1F, None, None,
           "kEmexLarge5xx", "MCfg_40_211", 22, FALSE, TRUE),
    Device("MSP430F6659", 25, \h812B, 0, None, None, None, \h1F, None, None,
           "kEmexLarge5xx", "MCfg_40_212", 22, FALSE, TRUE)
>>

McusFrom_MSP430F6720 == <<
    Device("MSP430F6720", 17, \h8058, 0, None, None, None, \h1F, None, None,
           "kEmexSmall5xx", "MCfg_40_116", 28, FALSE, TRUE),
    Device("MSP430F6720A", 17, \h8276, 0, None, None, None, \h1F, None, None,
           "kEmexSmall5xx", "MCfg_40_116", 28, FALSE, TRUE),
    Device("MSP430F6721", 17, \h8059, 0, None, None, None, \h1F, None, None,
           "kEmexSmall5xx", "MCfg_40_110", 28, FALSE, TRUE),
    Device("MSP430F6721A", 17, \h8277, 0, None, None, None, \h1F, None, None,
           "kEmexSmall5xx", "MCfg_40_110", 28, FALSE, TRUE),
    Device("MSP430F6722", 17, \h8060, 0, None, None, None, \h1F, None, None,
           "kEmexSmall5xx", "MCfg_40_210", 28, FALSE, TRUE),
    Device("MSP430F6723", 17, \h8061, 0, None, None, None, \h1F, None, None,
           "kEmexSmall5xx", "MCfg_40_108", 28, FALSE, TRUE),
    Device("MSP430F6723A", 17, \h8279, 0, None, None, None, \h1F, None, None,
           "kEmexSmall5xx", "MCfg_40_108", 28, FALSE, TRUE)
>>

McusFrom_MSP430F6724 == <<
    Device("MSP430F6724", 17, \h816D, 0, None, None, None, \h1F, None, None,
           "kEmexSmall5xx", "MCfg_40_208", 28, FALSE, TRUE),
    Device("MSP430F6724A", 17, \h827A, 0, None, None, None, \h1F, None, None,
           "kEmexSmall5xx", "MCfg_40_208", 28, FALSE, TRUE),
    Device("MSP430F6725", 17, \h816E, 0, None, None, None, \h1F, None, None,
           "kEmexSmall5xx", "MCfg_40_209", 28, FALSE, TRUE),
    Device("MSP430F6725A", 17, \h827B, 0, None, None, None, \h1F, None, None,
           "kEmexSmall5xx", "MCfg_40_209", 28, FALSE, TRUE),
    Device("MSP430F6726", 17, \h816F, 0, None, None, None, \h1F, None, None,
           "kEmexSmall5xx", "MCfg_40_119", 28, FALSE, TRUE),
    Device("MSP430F6726A", 17, \h827C, 0, None, None, None, \h1F, None, None,
           "kEmexSmall5xx", "MCfg_40_119", 28, FALSE, TRUE),
    Device("MSP430F6730", 17, \h8062, 0, None, None, None, \h1F, None, None,
           "kEmexSmall5xx", "MCfg_40_116", 28, FALSE, TRUE)
>>

McusFrom_MSP430F6730A == <<
    Device("MSP430F6730A", 17, \h8280, 0, None, None, None, \h1F, None, None,
           "kEmexSmall5xx", "MCfg_40_116", 28, FALSE, TRUE),
    Device("MSP430F6731", 17, \h8063, 0, None, None, None, \h1F, None, None,
           "kEmexSmall5xx", "MCfg_40_110", 28, FALSE, TRUE),
    Device("MSP430F6731A", 17, \h8281, 0, None, None, None, \h1F, None, None,
           "kEmexSmall5xx", "MCfg_40_110", 28, FALSE, TRUE),
    Device("MSP430F6732", 17, \h8064, 0, None, None, None, \h1F, None, None,
           "kEmexSmall5xx", "MCfg_40_210", 28, FALSE, TRUE),
    Device("MSP430F6733", 17, \h8065, 0, None, None, None, \h1F, None, None,
           "kEmexSmall5xx", "MCfg_40_108", 28, FALSE, TRUE),
    Device("MSP430F6733A", 17, \h8283, 0, None, None, None, \h1F, None, None,
           "kEmexSmall5xx", "MCfg_40_108", 28, FALSE, TRUE),
    Device("MSP430F6734", 17, \h816A, 0, None, None, None, \h1F, None, None,
           "kEmexSmall5xx", "MCfg_40_208", 28, FALSE, TRUE)
>>

McusFrom_MSP430F6734A == <<
    Device("MSP430F6734A", 17, \h8284, 0, None, None, None, \h1F, None, None,
           "kEmexSmall5xx", "MCfg_40_208", 28, FALSE, TRUE),
    Device("MSP430F6735", 17, \h816B, 0, None, None, None, \h1F, None, None,
           "kEmexSmall5xx", "MCfg_40_209", 28, FALSE, TRUE),
    Device("MSP430F6735A", 17, \h8285, 0, None, None, None, \h1F, None, None,
           "kEmexSmall5xx", "MCfg_40_209", 28, FALSE, TRUE),
    Device("MSP430F6736", 17, \h816C, 0, None, None, None, \h1F, None, None,
           "kEmexSmall5xx", "MCfg_40_119", 28, FALSE, TRUE),
    Device("MSP430F6736A", 17, \h8286, 0, None, None, None, \h1F, None, None,
           "kEmexSmall5xx", "MCfg_40_119", 28, FALSE, TRUE),
    Device("MSP430F6745", 17, \h8188, 0, None, None, None, \h1F, None, None,
           "kEmexLarge5xx", "MCfg_40_111", 29, FALSE, TRUE),
    Device("MSP430F67451", 17, \h8197, 0, None, None, None, \h1F, None, None,
           "kEmexLarge5xx", "MCfg_40_111", 30, FALSE, TRUE)
>>

McusFrom_MSP430F67451A == <<
    Device("MSP430F67451A", 17, \h8225, 0, None, None, None, \h1F, None, None,
           "kEmexLarge5xx", "MCfg_40_111", 30, FALSE, TRUE),
    Device("MSP430F6745A", 17, \h8216, 0, None, None, None, \h1F, None, None,
           "kEmexLarge5xx", "MCfg_40_111", 29, FALSE, TRUE),
    Device("MSP430F6746", 17, \h8189, 0, None, None, None, \h1F, None, None,
           "kEmexLarge5xx", "MCfg_40_0", 29, FALSE, TRUE),
    Device("MSP430F67461", 17, \h8198, 0, None, None, None, \h1F, None, None,
           "kEmexLarge5xx", "MCfg_40_0", 30, FALSE, TRUE),
    Device("MSP430F67461A", 17, \h8226, 0, None, None, None, \h1F, None, None,
           "kEmexLarge5xx", "MCfg_40_0", 30, FALSE, TRUE),
    Device("MSP430F6746A", 17, \h8217, 0, None, None, None, \h1F, None, None,
           "kEmexLarge5xx", "MCfg_40_0", 29, FALSE, TRUE),
    Device("MSP430F6747", 17, \h818A, 0, None, None, None, \h1F, None, None,
           "kEmexLarge5xx", "MCfg_40_101", 29, FALSE, TRUE)
>>

McusFrom_MSP430F67471 == <<
    Device("MSP430F67471", 17, \h8199, 0, None, None, None, \h1F, None, None,
           "kEmexLarge5xx", "MCfg_40_101", 30, FALSE, TRUE),
    Device("MSP430F67471A", 17, \h8227, 0, None, None, None, \h1F, None, None,
           "kEmexLarge5xx", "MCfg_40_101", 30, FALSE, TRUE),
    Device("MSP430F6747A", 17, \h8218, 0, None, None, None, \h1F, None, None,
           "kEmexLarge5xx", "MCfg_40_101", 29, FALSE, TRUE),
    Device("MSP430F6748", 17, \h818B, 0, None, None, None, \h1F, None, None,
           "kEmexLarge5xx", "MCfg_40_100", 29, FALSE, TRUE),
    Device("MSP430F67481", 17, \h819A, 0, None, None, None, \h1F, None, None,
           "kEmexLarge5xx", "MCfg_40_100", 30, FALSE, TRUE),
    Device("MSP430F67481A", 17, \h8228, 0, None, None, None, \h1F, None, None,
           "kEmexLarge5xx", "MCfg_40_100", 30, FALSE, TRUE),
    Device("MSP430F6748A", 17, \h8219, 0, None, None, None, \h1F, None, None,
           "kEmexLarge5xx", "MCfg_40_100", 29, FALSE, TRUE)
>>

McusFrom_MSP430F6749 == <<
    Device("MSP430F6749", 17, \h818C, 0, None, None, None, \h1F, None, None,
           "kEmexLarge5xx", "MCfg_40_200", 29, FALSE, TRUE),
    Device("MSP430F67491", 17, \h819B, 0, None, None, None, \h1F, None, None,
           "kEmexLarge5xx", "MCfg_40_200", 30, FALSE, TRUE),
    Device("MSP430F67491A", 17, \h8229, 0, None, None, None, \h1F, None, None,
           "kEmexLarge5xx", "MCfg_40_200", 30, FALSE, TRUE),
    Device("MSP430F6749A", 17, \h821A, 0, None, None, None, \h1F, None, None,
           "kEmexLarge5xx", "MCfg_40_200", 29, FALSE, TRUE),
    Device("MSP430F67621", 17, \h8238, 0, None, None, None, \h1F, None, None,
           "kEmexSmall5xx", "MCfg_40_108", 28, FALSE, TRUE),
    Device("MSP430F67621A", 17, \h8287, 0, None, None, None, \h1F, None, None,
           "kEmexSmall5xx", "MCfg_40_108", 28, FALSE, TRUE),
    Device("MSP430F67641", 17, \h8239, 0, None, None, None, \h1F, None, None,
           "kEmexSmall5xx", "MCfg_40_119", 28, FALSE, TRUE)
>>

McusFrom_MSP430F67641A == <<
    Device("MSP430F67641A", 17, \h8288, 0, None, None, None, \h1F, None, None,
           "kEmexSmall5xx", "MCfg_40_119", 28, FALSE, TRUE),
    Device("MSP430F6765", 17, \h818D, 0, None, None, None, \h1F, None, None,
           "kEmexLarge5xx", "MCfg_40_111", 29, FALSE, TRUE),
    Device("MSP430F67651", 17, \h819C, 0, None, None, None, \h1F, None, None,
           "kEmexLarge5xx", "MCfg_40_111", 30, FALSE, TRUE),
    Device("MSP430F67651A", 17, \h822A, 0, None, None, None, \h1F, None, None,
           "kEmexLarge5xx", "MCfg_40_111", 30, FALSE, TRUE),
    Device("MSP430F6765A", 17, \h821B, 0, None, None, None, \h1F, None, None,
           "kEmexLarge5xx", "MCfg_40_111", 29, FALSE, TRUE),
    Device("MSP430F6766", 17, \h818E, 0, None, None, None, \h1F, None, None,
           "kEmexLarge5xx", "MCfg_40_0", 29, FALSE, TRUE),
    Device("MSP430F67661", 17, \h819D, 0, None, None, None, \h1F, None, None,
           "kEmexLarge5xx", "MCfg_40_0", 30, FALSE, TRUE)
>>

McusFrom_MSP430F67661A == <<
    Device("MSP430F67661A", 17, \h822B, 0, None, None, None, \h1F, None, None,
           "kEmexLarge5xx", "MCfg_40_0", 30, FALSE, TRUE),
    Device("MSP430F6766A", 17, \h821C, 0, None, None, None, \h1F, None, None,
           "kEmexLarge5xx", "MCfg_40_0", 29, FALSE, TRUE),
    Device("MSP430F6767", 17, \h818F, 0, None, None, None, \h1F, None, None,
           "kEmexLarge5xx", "MCfg_40_101", 29, FALSE, TRUE),
    Device("MSP430F67671", 17, \h819E, 0, None, None, None, \h1F, None, None,
           "kEmexLarge5xx", "MCfg_40_101", 30, FALSE, TRUE),
    Device("MSP430F67671A", 17, \h822C, 0, None, None, None, \h1F, None, None,
           "kEmexLarge5xx", "MCfg_40_101", 30, FALSE, TRUE),
    Device("MSP430F6767A", 17, \h821D, 0, None, None, None, \h1F, None, None,
           "kEmexLarge5xx", "MCfg_40_101", 29, FALSE, TRUE),
    Device("MSP430F6768", 17, \h8190, 0, None, None, None, \h1F, None, None,
           "kEmexLarge5xx", "MCfg_40_100", 29, FALSE, TRUE)
>>

McusFrom_MSP430F67681 == <<
    Device("MSP430F67681", 17, \h819F, 0, None, None, None, \h1F, None, None,
           "kEmexLarge5xx", "MCfg_40_100", 30, FALSE, TRUE),
    Device("MSP430F67681A", 17, \h822D, 0, None, None, None, \h1F, None, None,
           "kEmexLarge5xx", "MCfg_40_100", 30, FALSE, TRUE),
    Device("MSP430F6768A", 17, \h821E, 0, None, None, None, \h1F, None, None,
           "kEmexLarge5xx", "MCfg_40_100", 29, FALSE, TRUE),
    Device("MSP430F6769", 17, \h8191, 0, None, None, None, \h1F, None, None,
           "kEmexLarge5xx", "MCfg_40_200", 29, FALSE, TRUE),
    Device("MSP430F67691", 17, \h81A0, 0, None, None, None, \h1F, None, None,
           "kEmexLarge5xx", "MCfg_40_200", 30, FALSE, TRUE),
    Device("MSP430F67691A", 17, \h822E, 0, None, None, None, \h1F, None, None,
           "kEmexLarge5xx", "MCfg_40_200", 30, FALSE, TRUE),
    Device("MSP430F6769A", 17, \h821F, 0, None, None, None, \h1F, None, None,
           "kEmexLarge5xx", "MCfg_40_200", 29, FALSE, TRUE)
>>

McusFrom_MSP430F6775 == <<
    Device("MSP430F6775", 17, \h8192, 0, None, None, None, \h1F, None, None,
           "kEmexLarge5xx", "MCfg_40_111", 29, FALSE, TRUE),
    Device("MSP430F67751", 17, \h81A1, 0, None, None, None, \h1F, None, None,
           "kEmexLarge5xx", "MCfg_40_111", 30, FALSE, TRUE),
    Device("MSP430F67751A", 17, \h822F, 0, None, None, None, \h1F, None, None,
           "kEmexLarge5xx", "MCfg_40_111", 30, FALSE, TRUE),
    Device("MSP430F6775A", 17, \h8220, 0, None, None, None, \h1F, None, None,
           "kEmexLarge5xx", "MCfg_40_111", 29, FALSE, TRUE),
    Device("MSP430F6776", 17, \h8193, 0, None, None, None, \h1F, None, None,
           "kEmexLarge5xx", "MCfg_40_0", 29, FALSE, TRUE),
    Device("MSP430F67761", 17, \h81A2, 0, None, None, None, \h1F, None, None,
           "kEmexLarge5xx", "MCfg_40_0", 30, FALSE, TRUE),
    Device("MSP430F67761A", 17, \h8230, 0, None, None, None, \h1F, None, None,
           "kEmexLarge5xx", "MCfg_40_0", 30, FALSE, TRUE)
>>

McusFrom_MSP430F6776A == <<
    Device("MSP430F6776A", 17, \h8221, 0, None, None, None, \h1F, None, None,
           "kEmexLarge5xx", "MCfg_40_0", 29, FALSE, TRUE),
    Device("MSP430F6777", 17, \h8194, 0, None, None, None, \h1F, None, None,
           "kEmexLarge5xx", "MCfg_40_101", 29, FALSE, TRUE),
    Device("MSP430F67771", 17, \h81A3, 0, None, None, None, \h1F, None, None,
           "kEmexLarge5xx", "MCfg_40_101", 30, FALSE, TRUE),
    Device("MSP430F67771A", 17, \h8231, 0, None, None, None, \h1F, None, None,
           "kEmexLarge5xx", "MCfg_40_101", 30, FALSE, TRUE),
    Device("MSP430F6777A", 17, \h8222, 0, None, None, None, \h1F, None, None,
           "kEmexLarge5xx", "MCfg_40_101", 29, FALSE, TRUE),
    Device("MSP430F6778", 17, \h8195, 0, None, None, None, \h1F, None, None,
           "kEmexLarge5xx", "MCfg_40_100", 29, FALSE, TRUE),
    Device("MSP430F67781", 17, \h81A4, 0, None, None, None, \h1F, None, None,
           "kEmexLarge5xx", "MCfg_40_100", 30, FALSE, TRUE)
>>

McusFrom_MSP430F67781A == <<
    Device("MSP430F67781A", 17, \h8232, 0, None, None, None, \h1F, None, None,
           "kEmexLarge5xx", "MCfg_40_100", 30, FALSE, TRUE),
    Device("MSP430F6778A", 17, \h8223, 0, None, None, None, \h1F, None, None,
           "kEmexLarge5xx", "MCfg_40_100", 29, FALSE, TRUE),
    Device("MSP430F6779", 17, \h8196, 0, None, None, None, \h1F, None, None,
           "kEmexLarge5xx", "MCfg_40_200", 29, FALSE, TRUE),
    Device("MSP430F67791", 17, \h81A5, 0, None, None, None, \h1F, None, None,
           "kEmexLarge5xx", "MCfg_40_200", 30, FALSE, TRUE),
    Device("MSP430F67791A", 17, \h8233, 0, None, None, None, \h1F, None, None,
           "kEmexLarge5xx", "MCfg_40_200", 30, FALSE, TRUE),
    Device("MSP430F6779A", 17, \h8224, 0, None, None, None, \h1F, None, None,
           "kEmexLarge5xx", "MCfg_40_200", 29, FALSE, TRUE),
    Device("MSP430FG6425", 15, \h8237, 0, None, None, None, \h1F, None, None,
           "kEmexLarge5xx", "MCfg_40_204", 31, FALSE, TRUE)
>>

McusFrom_MSP430FG6426 == <<
    Device("MSP430FG6426", 15, \h8236, 0, None, None, None, \h1F, None, None,
           "kEmexLarge5xx", "MCfg_40_125", 31, FALSE, TRUE),
    Device("MSP430FG6625", 15, \h8235, 0, None, None, None, \h1F, None, None,
           "kEmexLarge5xx", "MCfg_40_203", 31, FALSE, TRUE),
    Device("MSP430FG6626", 15, \h8234, 0, None, None, None, \h1F, None, None,
           "kEmexLarge5xx", "MCfg_40_207", 31, FALSE, TRUE),
    Device("MSP430FR2000", 14, \h8321, None, None, None, None, \h1F, None, None,
           "kEmexSmall5xx", "MCfg_31_100", 33, FALSE, FALSE),
    Device("MSP430FR2032", 14, \h8278, 0, None, None, None, \h1F, None, None,
           "kEmexSmall5xx", "MCfg_44_100", 37, FALSE, FALSE),
    Device("MSP430FR2033", 14, \h8275, 0, None, None, None, \h1F, None, None,
           "kEmexSmall5xx", "MCfg_44_101", 37, FALSE, FALSE),
    Device("MSP430FR2100", 14, \h8320, None, None, None, None, \h1F, None, None,
           "kEmexSmall5xx", "MCfg_31_0", 33, FALSE, FALSE)
>>

McusFrom_MSP430FR2110 == <<
    Device("MSP430FR2110", 14, \h82FB, None, None, None, None, \h1F, None, None,
           "kEmexSmall5xx", "MCfg_31_101", 33, FALSE, FALSE),
    Device("MSP430FR2111", 14, \h82FA, None, None, None, None, \h1F, None, None,
           "kEmexSmall5xx", "MCfg_31_101", 33, FALSE, FALSE),
    Device("MSP430FR2153", 14, \h831D, 0, 0, None, None, \h1F, None, None,
           "kEmexSmall5xx", "MCfg_71_11", 47, FALSE, FALSE),
    Device("MSP430FR2155", 14, \h831E, 0, 0, None, None, \h1F, None, None,
           "kEmexSmall5xx", "MCfg_71_13", 47, FALSE, FALSE),
    Device("MSP430FR2310", 14, \h82F1, None, None, None, None, \h1F, None, None,
           "kEmexSmall5xx", "MCfg_54_0", 32, FALSE, FALSE),
    Device("MSP430FR2311", 14, \h82F0, None, None, None, None, \h1F, None, None,
           "kEmexSmall5xx", "MCfg_54_0", 32, FALSE, FALSE),
    Device("MSP430FR2353", 14, \h830D, 0, 0, None, None, \h1F, None, None,
           "kEmexSmall5xx", "MCfg_71_11", 47, FALSE, FALSE)
>>

McusFrom_MSP430FR2355 == <<
    Device("MSP430FR2355", 14, \h830C, 0, 0, None, None, \h1F, None, None,
           "kEmexSmall5xx", "MCfg_71_13", 47, FALSE, FALSE),
    Device("MSP430FR2422", 14, \h8311, 0, None, None, None, \h1F, None, None,
           "kEmexSmall5xx", "MCfg_73_0", 36, FALSE, FALSE),
    Device("MSP430FR2433", 14, \h8240, 0, None, None, None, \h1F, None, None,
           "kEmexSmall5xx", "MCfg_50_0", 35, FALSE, FALSE),
    Device("MSP430FR2475", 14, \h832B, 0, 0, None, None, \h1F, None, None,
           "kEmexSmall5xx", "MCfg_71_0", 48, FALSE, FALSE),
    Device("MSP430FR2476", 14, \h832A, 0, 0, None, None, \h1F, None, None,
           "kEmexSmall5xx", "MCfg_71_10", 48, FALSE, FALSE),
    Device("MSP430FR2512", 14, \h831C, 0, None, None, None, \h1F, None, None,
           "kEmexSmall5xx", "MCfg_73_0", 36, FALSE, FALSE),
    Device("MSP430FR2522", 14, \h8310, 0, None, None, None, \h1F, None, None,
           "kEmexSmall5xx", "MCfg_73_0", 36, FALSE, FALSE)
>>

McusFrom_MSP430FR2532 == <<
    Device("MSP430FR2532", 14, \h823F, 0, None, None, None, \h1F, None, None,
           "kEmexSmall5xx", "MCfg_50_11", 35, FALSE, FALSE),
    Device("MSP430FR2533", 14, \h823D, 0, None, None, None, \h1F, None, None,
           "kEmexSmall5xx", "MCfg_50_10", 35, FALSE, FALSE),
    Device("MSP430FR2632", 14, \h823E, 0, None, None, None, \h1F, None, None,
           "kEmexSmall5xx", "MCfg_50_12", 35, FALSE, FALSE),
    Device("MSP430FR2633", 14, \h823C, 0, None, None, None, \h1F, None, None,
           "kEmexSmall5xx", "MCfg_50_0", 35, FALSE, FALSE),
    Device("MSP430FR2672", 14, \h8339, 0, 0, None, None, \h1F, None, None,
           "kEmexSmall5xx", "MCfg_71_12", 48, FALSE, FALSE),
    Device("MSP430FR2673", 14, \h8338, 0, 0, None, None, \h1F, None, None,
           "kEmexSmall5xx", "MCfg_71_14", 48, FALSE, FALSE),
    Device("MSP430FR2675", 14, \h8329, 0, 0, None, None, \h1F, None, None,
           "kEmexSmall5xx", "MCfg_71_15", 48, FALSE, FALSE)
>>

McusFrom_MSP430FR2676 == <<
    Device("MSP430FR2676", 14, \h8328, 0, 0, None, None, \h1F, None, None,
           "kEmexSmall5xx", "MCfg_71_10", 48, FALSE, FALSE),
    Device("MSP430FR4131", 4, \h81F2, 0, None, None, None, \h1F, None, None,
           "kEmexSmall5xx", "MCfg_44_102", 34, FALSE, FALSE),
    Device("MSP430FR4132", 4, \h81F1, 0, None, None, None, \h1F, None, None,
           "kEmexSmall5xx", "MCfg_44_100", 34, FALSE, FALSE),
    Device("MSP430FR4133", 4, \h81F0, 0, None, None, None, \h1F, None, None,
           "kEmexSmall5xx", "MCfg_44_101", 34, FALSE, FALSE),
    Device("MSP430FR5041", 13, \h8318, 0, \h10, None, None, \h1F, None, None,
           "kEmexSmall5xx", "MCfg_A0_10", 42, FALSE, FALSE),
    Device("MSP430FR5043", 13, \h8317, 0, \h10, None, None, \h1F, None, None,
           "kEmexSmall5xx", "MCfg_A0_0", 42, FALSE, FALSE),
    Device("MSP430FR50431", 13, \h830F, 0, \h10, None, None, \h1F, None, None,
           "kEmexSmall5xx", "MCfg_A0_0", 42, FALSE, FALSE)
>>

McusFrom_MSP430FR5720 == <<
    Device("MSP430FR5720", 8, \h8170, 0, None, None, None, \h1F, None, None,
           "kEmexSmall5xx", "MCfg_72_11", 40, FALSE, FALSE),
    Device("MSP430FR5721", 8, \h8077, 0, None, None, None, \h1F, None, None,
           "kEmexSmall5xx", "MCfg_72_11", 38, FALSE, FALSE),
    Device("MSP430FR5722", 8, \h8171, 0, None, None, None, \h1F, None, None,
           "kEmexSmall5xx", "MCfg_72_0", 41, FALSE, FALSE),
    Device("MSP430FR5723", 8, \h8172, 0, None, None, None, \h1F, None, None,
           "kEmexSmall5xx", "MCfg_72_0", 39, FALSE, FALSE),
    Device("MSP430FR5724", 8, \h8173, 0, None, None, None, \h1F, None, None,
           "kEmexSmall5xx", "MCfg_72_0", 40, FALSE, FALSE),
    Device("MSP430FR5725", 8, \h8078, 0, None, None, None, \h1F, None, None,
           "kEmexSmall5xx", "MCfg_72_0", 38, FALSE, FALSE),
    Device("MSP430FR5726", 8, \h8174, 0, None, None, None, \h1F, None, None,
           "kEmexSmall5xx", "MCfg_72_10", 41, FALSE, FALSE)
>>

McusFrom_MSP430FR5727 == <<
    Device("MSP430FR5727", 8, \h8079, 0, None, None, None, \h1F, None, None,
           "kEmexSmall5xx", "MCfg_72_10", 39, FALSE, FALSE),
    Device("MSP430FR5728", 8, \h807A, 0, None, None, None, \h1F, None, None,
           "kEmexSmall5xx", "MCfg_72_10", 40, FALSE, FALSE),
    Device("MSP430FR5729", 8, \h807B, 0, None, None, None, \h1F, None, None,
           "kEmexSmall5xx", "MCfg_72_10", 38, FALSE, FALSE),
    Device("MSP430FR5730", 8, \h807C, 0, None, None, None, \h1F, None, None,
           "kEmexSmall5xx", "MCfg_72_11", 40, FALSE, FALSE),
    Device("MSP430FR5731", 8, \h807E, 0, None, None, None, \h1F, None, None,
           "kEmexSmall5xx", "MCfg_72_11", 38, FALSE, FALSE),
    Device("MSP430FR5732", 8, \h8175, 0, None, None, None, \h1F, None, None,
           "kEmexSmall5xx", "MCfg_72_0", 41, FALSE, FALSE),
    Device("MSP430FR5733", 8, \h807F, 0, None, None, None, \h1F, None, None,
           "kEmexSmall5xx", "MCfg_72_0", 39, FALSE, FALSE)
>>

McusFrom_MSP430FR5734 == <<
    Device("MSP430FR5734", 8, \h8100, 0, None, None, None, \h1F, None, None,
           "kEmexSmall5xx", "MCfg_72_0", 40, FALSE, FALSE),
    Device("MSP430FR5735", 8, \h8176, 0, None, None, None, \h1F, None, None,
           "kEmexSmall5xx", "MCfg_72_0", 38, FALSE, FALSE),
    Device("MSP430FR5736", 8, \h8177, 0, None, None, None, \h1F, None, None,
           "kEmexSmall5xx", "MCfg_72_10", 41, FALSE, FALSE),
    Device("MSP430FR5737", 8, \h8101, 0, None, None, None, \h1F, None, None,
           "kEmexSmall5xx", "MCfg_72_10", 39, FALSE, FALSE),
    Device("MSP430FR5738", 8, \h8102, 0, None, None, None, \h1F, None, None,
           "kEmexSmall5xx", "MCfg_72_10", 40, FALSE, FALSE),
    Device("MSP430FR5739", 8, \h8103, 0, None, None, None, \h1F, None, None,
           "kEmexSmall5xx", "MCfg_72_10", 38, FALSE, FALSE),
    Device("MSP430FR5847", 13, \h8153, 0, \h21, None, None, \h1F, None, None,
           "kEmexSmall5xx", "MCfg_61_10", 44, FALSE, FALSE)
>>

McusFrom_MSP430FR5848 == <<
    Device("MSP430FR5848", 13, \h8154, 0, \h21, None, None, \h1F, None, None,
           "kEmexSmall5xx", "MCfg_61_12", 44, FALSE, FALSE),
    Device("MSP430FR5849", 13, \h8155, 0, \h21, None, None, \h1F, None, None,
           "kEmexSmall5xx", "MCfg_61_0", 44, FALSE, FALSE),
    Device("MSP430FR5857", 13, \h8157, 0, \h21, None, None, \h1F, None, None,
           "kEmexSmall5xx", "MCfg_61_10", 44, FALSE, FALSE),
    Device("MSP430FR5858", 13, \h8158, 0, \h21, None, None, \h1F, None, None,
           "kEmexSmall5xx", "MCfg_61_12", 44, FALSE, FALSE),
    Device("MSP430FR5859", 13, \h8159, 0, \h21, None, None, \h1F, None, None,
           "kEmexSmall5xx", "MCfg_61_0", 44, FALSE, FALSE),
    Device("MSP430FR5867", 13, \h815B, 0, \h21, None, None, \h1F, None, None,
           "kEmexSmall5xx", "MCfg_61_10", 44, FALSE, FALSE),
    Device("MSP430FR5868", 13, \h815C, 0, \h21, None, None, \h1F, None, None,
           "kEmexSmall5xx", "MCfg_61_12", 44, FALSE, FALSE)
>>

McusFrom_MSP430FR5869 == <<
    Device("MSP430FR5869", 13, \h815D, 0, \h21, None, None, \h1F, None, None,
           "kEmexSmall5xx", "MCfg_61_0", 44, FALSE, FALSE),
    Device("MSP430FR5870", 13, \h825E, 0, None, None, None, \h1F, None, None,
           "kEmexSmall5xx", "MCfg_61_11", 46, FALSE, FALSE),
    Device("MSP430FR5872", 13, \h8260, 0, None, None, None, \h1F, None, None,
           "kEmexSmall5xx", "MCfg_61_0", 46, FALSE, FALSE),
    Device("MSP430FR5887", 13, \h81C1, 0, \h21, None, None, \h1F, None, None,
           "kEmexSmall5xx", "MCfg_61_0", 46, FALSE, FALSE),
    Device("MSP430FR5888", 13, \h81C2, 0, \h21, None, None, \h1F, None, None,
           "kEmexSmall5xx", "MCfg_61_14", 46, FALSE, FALSE),
    Device("MSP430FR5889", 13, \h81C3, 0, \h21, None, None, \h1F, None, None,
           "kEmexSmall5xx", "MCfg_61_13", 46, FALSE, FALSE),
    Device("MSP430FR5922_0", 13, \h8261, 0, None, None, None, \h1F, None, None,
           "kEmexSmall5xx", "MCfg_61_0", 46, FALSE, FALSE)
>>

McusFrom_MSP430FR5922_1 == <<
    Device("MSP430FR5922_1", 13, \h8262, 0, None, None, None, \h1F, None, None,
           "kEmexSmall5xx", "MCfg_61_0", 46, FALSE, FALSE),
    Device("MSP430FR5929", 13, \h8187, 0, \h21, None, None, \h1F, None, None,
           "kEmexSmall5xx", "MCfg_61_0", 44, FALSE, FALSE),
    Device("MSP430FR5947", 13, \h815F, 0, \h21, None, None, \h1F, None, None,
           "kEmexSmall5xx", "MCfg_61_10", 44, FALSE, FALSE),
    Device("MSP430FR5948", 13, \h8160, 0, \h21, None, None, \h1F, None, None,
           "kEmexSmall5xx", "MCfg_61_12", 44, FALSE, FALSE),
    Device("MSP430FR5949", 13, \h8161, 0, \h21, None, None, \h1F, None, None,
           "kEmexSmall5xx", "MCfg_61_0", 44, FALSE, FALSE),
    Device("MSP430FR5957", 13, \h8163, 0, \h21, None, None, \h1F, None, None,
           "kEmexSmall5xx", "MCfg_61_10", 44, FALSE, FALSE),
    Device("MSP430FR5958", 13, \h8164, 0, \h21, None, None, \h1F, None, None,
           "kEmexSmall5xx", "MCfg_61_12", 44, FALSE, FALSE)
>>

McusFrom_MSP430FR5959 == <<
    Device("MSP430FR5959", 13, \h8165, 0, \h21, None, None, \h1F, None, None,
           "kEmexSmall5xx", "MCfg_61_0", 44, FALSE, FALSE),
    Device("MSP430FR5962", 13, \h82A6, 0, \h10, None, None, \h1F, None, None,
           "kEmexSmall5xx", "MCfg_61_15", 43, FALSE, FALSE),
    Device("MSP430FR5964", 13, \h82A4, 0, \h10, None, None, \h1F, None, None,
           "kEmexSmall5xx", "MCfg_61_16", 43, FALSE, FALSE),
    Device("MSP430FR5967", 13, \h8167, 0, \h21, None, None, \h1F, None, None,
           "kEmexSmall5xx", "MCfg_61_10", 44, FALSE, FALSE),
    Device("MSP430FR5968", 13, \h8168, 0, \h21, None, None, \h1F, None, None,
           "kEmexSmall5xx", "MCfg_61_12", 44, FALSE, FALSE),
    Device("MSP430FR5969", 13, \h8169, 0, \h21, None, None, \h1F, None, None,
           "kEmexSmall5xx", "MCfg_61_0", 44, FALSE, FALSE),
    Device("MSP430FR5970", 13, \h825B, 0, None, None, None, \h1F, None, None,
           "kEmexSmall5xx", "MCfg_61_11", 46, FALSE, FALSE)
>>

McusFrom_MSP430FR5972 == <<
    Device("MSP430FR5972", 13, \h825D, 0, None, None, None, \h1F, None, None,
           "kEmexSmall5xx", "MCfg_61_0", 46, FALSE, FALSE),
    Device("MSP430FR5986", 13, \h81DF, 0, \h21, None, None, \h1F, None, None,
           "kEmexSmall5xx", "MCfg_61_12", 46, FALSE, FALSE),
    Device("MSP430FR5987", 13, \h81A9, 0, \h21, None, None, \h1F, None, None,
           "kEmexSmall5xx", "MCfg_61_0", 46, FALSE, FALSE),
    Device("MSP430FR5988", 13, \h81AA, 0, \h21, None, None, \h1F, None, None,
           "kEmexSmall5xx", "MCfg_61_14", 46, FALSE, FALSE),
    Device("MSP430FR5989", 13, \h81AB, 0, \h21, None, None, \h1F, None, None,
           "kEmexSmall5xx", "MCfg_61_13", 46, FALSE, FALSE),
    Device("MSP430FR5992", 13, \h82A3, 0, \h10, None, None, \h1F, None, None,
           "kEmexSmall5xx", "MCfg_70_21", 43, FALSE, FALSE),
    Device("MSP430FR5994", 13, \h82A1, 0, \h10, None, None, \h1F, None, None,
           "kEmexSmall5xx", "MCfg_70_11", 43, FALSE, FALSE)
>>

McusFrom_MSP430FR59941 == <<
    Device("MSP430FR59941", 13, \h82A2, 0, \h10, None, None, \h1F, None, None,
           "kEmexSmall5xx", "MCfg_70_11", 43, FALSE, FALSE),
    Device("MSP430FR6005", 12, \h832F, 0, 0, None, None, \h1F, None, None,
           "kEmexSmall5xx", "MCfg_70_20", 42, FALSE, FALSE),
    Device("MSP430FR6007", 12, \h832E, 0, 0, None, None, \h1F, None, None,
           "kEmexSmall5xx", "MCfg_70_10", 42, FALSE, FALSE),
    Device("MSP430FR6035_0", 12, \h82ED, 0, \h10, None, None, \h1F, None, None,
           "kEmexSmall5xx", "MCfg_70_22", 42, FALSE, FALSE),
    Device("MSP430FR6035_1", 12, \h82ED, 0, \h20, None, None, \h1F, None, None,
           "kEmexSmall5xx", "MCfg_70_22", 42, FALSE, FALSE),
    Device("MSP430FR6037_0", 12, \h82EC, 0, \h10, None, None, \h1F, None, None,
           "kEmexSmall5xx", "MCfg_70_0", 42, FALSE, FALSE),
    Device("MSP430FR6037_1", 12, \h82EC, 0, \h20, None, None, \h1F, None, None,
           "kEmexSmall5xx", "MCfg_70_0", 42, FALSE, FALSE)
>>

McusFrom_MSP430FR60371_0 == <<
    Device("MSP430FR60371_0", 12, \h82EF, 0, \h10, None, None, \h1F, None, None,
           "kEmexSmall5xx", "MCfg_70_0", 42, FALSE, FALSE),
    Device("MSP430FR60371_1", 12, \h82EF, 0, \h20, None, None, \h1F, None, None,
           "kEmexSmall5xx", "MCfg_70_0", 42, FALSE, FALSE),
    Device("MSP430FR6041", 12, \h8314, 0, \h10, None, None, \h1F, None, None,
           "kEmexSmall5xx", "MCfg_A0_10", 42, FALSE, FALSE),
    Device("MSP430FR6043", 12, \h8312, 0, \h10, None, None, \h1F, None, None,
           "kEmexSmall5xx", "MCfg_A0_0", 42, FALSE, FALSE),
    Device("MSP430FR60431", 12, \h831A, 0, \h10, None, None, \h1F, None, None,
           "kEmexSmall5xx", "MCfg_A0_0", 42, FALSE, FALSE),
    Device("MSP430FR6045_0", 12, \h82EB, 0, \h10, None, None, \h1F, None, None,
           "kEmexSmall5xx", "MCfg_70_20", 42, FALSE, FALSE),
    Device("MSP430FR6045_1", 12, \h82EB, 0, \h20, None, None, \h1F, None, None,
           "kEmexSmall5xx", "MCfg_70_20", 42, FALSE, FALSE)
>>

McusFrom_MSP430FR6047_0 == <<
    Device("MSP430FR6047_0", 12, \h82E9, 0, \h10, None, None, \h1F, None, None,
           "kEmexSmall5xx", "MCfg_70_10", 42, FALSE, FALSE),
    Device("MSP430FR6047_1", 12, \h82EA, 0, \h10, None, None, \h1F, None, None,
           "kEmexSmall5xx", "MCfg_70_10", 42, FALSE, FALSE),
    Device("MSP430FR6047_2", 12, \h82EA, 0, \h20, None, None, \h1F, None, None,
           "kEmexSmall5xx", "MCfg_70_10", 42, FALSE, FALSE),
    Device("MSP430FR60471_0", 12, \h82EE, 0, \h10, None, None, \h1F, None, None,
           "kEmexSmall5xx", "MCfg_70_10", 42, FALSE, FALSE),
    Device("MSP430FR60471_1", 12, \h82EE, 0, \h20, None, None, \h1F, None, None,
           "kEmexSmall5xx", "MCfg_70_10", 42, FALSE, FALSE),
    Device("MSP430FR6820_0", 12, \h8255, 0, None, None, None, \h1F, None, None,
           "kEmexSmall5xx", "MCfg_61_11", 45, FALSE, FALSE),
    Device("MSP430FR6820_1", 12, \h8256, 0, None, None, None, \h1F, None, None,
           "kEmexSmall5xx", "MCfg_61_11", 45, FALSE, FALSE)
>>

McusFrom_MSP430FR6822_0 == <<
    Device("MSP430FR6822_0", 12, \h8259, 0, None, None, None, \h1F, None, None,
           "kEmexSmall5xx", "MCfg_61_0", 45, FALSE, FALSE),
    Device("MSP430FR6822_1", 12, \h825A, 0, None, None, None, \h1F, None, None,
           "kEmexSmall5xx", "MCfg_61_0", 45, FALSE, FALSE),
    Device("MSP430FR6870", 12, \h824C, 0, None, None, None, \h1F, None, None,
           "kEmexSmall5xx", "MCfg_61_11", 45, FALSE, FALSE),
    Device("MSP430FR6872", 12, \h824E, 0, None, None, None, \h1F, None, None,
           "kEmexSmall5xx", "MCfg_61_0", 45, FALSE, FALSE),
    Device("MSP430FR6877", 12, \h81C4, 0, \h21, None, None, \h1F, None, None,
           "kEmexSmall5xx", "MCfg_61_0", 45, FALSE, FALSE),
    Device("MSP430FR6879", 12, \h81C6, 0, \h21, None, None, \h1F, None, None,
           "kEmexSmall5xx", "MCfg_61_13", 45, FALSE, FALSE),
    Device("MSP430FR6887", 12, \h81BE, 0, \h21, None, None, \h1F, None, None,
           "kEmexSmall5xx", "MCfg_61_0", 45, FALSE, FALSE)
>>

McusFrom_MSP430FR6888 == <<
    Device("MSP430FR6888", 12, \h81BF, 0, \h21, None, None, \h1F, None, None,
           "kEmexSmall5xx", "MCfg_61_14", 45, FALSE, FALSE),
    Device("MSP430FR6889", 12, \h81C0, 0, \h21, None, None, \h1F, None, None,
           "kEmexSmall5xx", "MCfg_61_13", 45, FALSE, FALSE),
    Device("MSP430FR6920_0", 12, \h824F, 0, None, None, None, \h1F, None, None,
           "kEmexSmall5xx", "MCfg_61_11", 45, FALSE, FALSE),
    Device("MSP430FR6920_1", 12, \h8250, 0, None, None, None, \h1F, None, None,
           "kEmexSmall5xx", "MCfg_61_11", 45, FALSE, FALSE),
    Device("MSP430FR6922_0", 12, \h8253, 0, None, None, None, \h1F, None, None,
           "kEmexSmall5xx", "MCfg_61_0", 45, FALSE, FALSE),
    Device("MSP430FR6922_1", 12, \h8254, 0, None, None, None, \h1F, None, None,
           "kEmexSmall5xx", "MCfg_61_0", 45, FALSE, FALSE),
    Device("MSP430FR6927", 12, \h81B2, 0, \h21, None, None, \h1F, None, None,
           "kEmexSmall5xx", "MCfg_61_0", 45, FALSE, FALSE)
>>

McusFrom_MSP430FR6928 == <<
    Device("MSP430FR6928", 12, \h81B3, 0, \h21, None, None, \h1F, None, None,
           "kEmexSmall5xx", "MCfg_61_14", 45, FALSE, FALSE),
    Device("MSP430FR6970", 12, \h8249, 0, None, None, None, \h1F, None, None,
           "kEmexSmall5xx", "MCfg_61_11", 45, FALSE, FALSE),
    Device("MSP430FR6972", 12, \h824B, 0, None, None, None, \h1F, None, None,
           "kEmexSmall5xx", "MCfg_61_0", 45, FALSE, FALSE),
    Device("MSP430FR6977", 12, \h81AC, 0, \h21, None, None, \h1F, None, None,
           "kEmexSmall5xx", "MCfg_61_0", 45, FALSE, FALSE),
    Device("MSP430FR6979", 12, \h81AE, 0, \h21, None, None, \h1F, None, None,
           "kEmexSmall5xx", "MCfg_61_13", 45, FALSE, FALSE),
    Device("MSP430FR6987", 12, \h81A6, 0, \h21, None, None, \h1F, None, None,
           "kEmexSmall5xx", "MCfg_61_0", 45, FALSE, FALSE),
    Device("MSP430FR6988", 12, \h81A7, 0, \h21, None, None, \h1F, None, None,
           "kEmexSmall5xx", "MCfg_61_14", 45, FALSE, FALSE)
>>

McusFrom_MSP430FR6989 == <<
    Device("MSP430FR6989", 12, \h81A8, 0, \h21, None, None, \h1F, None, None,
           "kEmexSmall5xx", "MCfg_61_13", 45, FALSE, FALSE),
    Device("MSP430SL5438A", 3, \h81EE, 1, None, None, None, \h1F, None, None,
           "kEmexLarge5xx", "MCfg_40_114", 13, FALSE, TRUE),
    Device("RF430F5144", 24, \h81E9, 0, None, None, None, \h1F, None, None,
           "kEmexSmall5xx", "MCfg_40_116", 5, FALSE, TRUE),
    Device("RF430F5155", 24, \h81EA, 0, None, None, None, \h1F, None, None,
           "kEmexSmall5xx", "MCfg_40_116", 5, FALSE, TRUE),
    Device("RF430F5175", 24, \h81EB, 0, None, None, None, \h1F, None, None,
           "kEmexSmall5xx", "MCfg_40_110", 5, FALSE, TRUE)
>>

msp430_mcus_set ==
       McusFrom_F20x1_G2x0x_G2x1x \o McusFrom_MSP430AFE231 \o McusFrom_MSP430C092
    \o McusFrom_MSP430F135 \o McusFrom_MSP430F1610 \o McusFrom_MSP430F20x3
    \o McusFrom_MSP430F2252_G2544 \o McusFrom_MSP430F2350 \o McusFrom_MSP430F249
    \o McusFrom_MSP430F423A \o McusFrom_MSP430F43x_0 \o McusFrom_MSP430F479
    \o McusFrom_MSP430FE425A \o McusFrom_MSP430FG43x_F43x \o McusFrom_MSP430G2xx2
    \o McusFrom_RF430FRL154H \o McusFrom_MSP430F2618 \o McusFrom_MSP430F47173
    \o McusFrom_MSP430F47196 \o McusFrom_CC430F5125 \o McusFrom_CC430F6125
    \o McusFrom_CC430F6147 \o McusFrom_MSP430F5212 \o McusFrom_MSP430F5223
    \o McusFrom_MSP430F5237 \o McusFrom_MSP430F5253 \o McusFrom_MSP430F5304
    \o McusFrom_MSP430F5327 \o McusFrom_MSP430F5340 \o McusFrom_MSP430F5419
    \o McusFrom_MSP430F5437A \o McusFrom_MSP430F5503 \o McusFrom_MSP430F5510
    \o McusFrom_MSP430F5522 \o McusFrom_MSP430F5630 \o McusFrom_MSP430F5637
    \o McusFrom_MSP430F6438 \o McusFrom_MSP430F6634 \o McusFrom_MSP430F6720
    \o McusFrom_MSP430F6724 \o McusFrom_MSP430F6730A \o McusFrom_MSP430F6734A
    \o McusFrom_MSP430F67451A \o McusFrom_MSP430F67471 \o McusFrom_MSP430F6749
    \o McusFrom_MSP430F67641A \o McusFrom_MSP430F67661A \o McusFrom_MSP430F67681
    \o McusFrom_MSP430F6775 \o McusFrom_MSP430F6776A \o McusFrom_MSP430F67781A
    \o McusFrom_MSP430FG6426 \o McusFrom_MSP430FR2110 \o McusFrom_MSP430FR2355
    \o McusFrom_MSP430FR2532 \o McusFrom_MSP430FR2676 \o McusFrom_MSP430FR5720
    \o McusFrom_MSP430FR5727 \o McusFrom_MSP430FR5734 \o McusFrom_MSP430FR5848
    \o McusFrom_MSP430FR5869 \o McusFrom_MSP430FR5922_1 \o McusFrom_MSP430FR5959
    \o McusFrom_MSP430FR5972 \o McusFrom_MSP430FR59941 \o McusFrom_MSP430FR60371_0
    \o McusFrom_MSP430FR6047_0 \o McusFrom_MSP430FR6822_0 \o McusFrom_MSP430FR6888
    \o McusFrom_MSP430FR6928 \o McusFrom_MSP430FR6989

\* The index of a part's record.
Mcu(name) == CHOOSE i \in DOMAIN msp430_mcus_set : msp430_mcus_set[i].name = name

\* The first record of the CPUX and of the CPUXv2.
kMcuX_ == Mcu("MSP430F2416")
kMcuXv2_ == Mcu("CC430F5123")

\* The versions of CPUX parts.
McuXs == {\h6FF2, \h6FF4, \h7FF4}

-----------------------------------------------------------------------------
(* Memory: layouts, blocks and configurations. *)

\* EnumMemoryKey.
EnumMemoryKey == <<
    "BootCode", "BootCode2", "Bsl", "Bsl2", "Cpu", "Eem", "Info", "IrVec", "Lcd",
    "LeaPeripheral", "LeaRam", "Lib", "Main", "MidRom", "Peripheral16bit",
    "Peripheral16bit1", "Peripheral16bit2", "Peripheral16bit3", "Peripheral8bit",
    "Ram", "Ram2", "TinyRam", "UsbRam", "UssPeripheral">>

kMaxMemConfigs == 13

\* MemoryLayout: mantissa and exponent of the start and of the size.
Layout(start, startShl, size, sizeShl) ==
    [start |-> start, startShl |-> startShl, size |-> size, sizeShl |-> sizeShl]

mem_layouts == [
    kBlk_00000_00006_001_1 |-> Layout(0, 0, 6, 0),
    kBlk_00000_00010_001_1 |-> Layout(0, 0, \h010, 0),
    kBlk_00000_00080_001_1 |-> Layout(0, 0, \h080, 0),
    kBlk_00000_00100_001_1 |-> Layout(0, 0, \h100, 0),
    kBlk_00000_01000_001_1 |-> Layout(0, 0, \h010, 2),
    kBlk_00006_0001a_001_1 |-> Layout(6, 0, \h01A, 0),
    kBlk_00020_00a60_001_1 |-> Layout(\h020, 0, \h0A6, 1),
    kBlk_00020_00fe0_001_1 |-> Layout(\h020, 0, \h0FE, 1),
    kBlk_00090_0000d_001_1 |-> Layout(\h090, 0, 13, 0),
    kBlk_00090_00015_001_1 |-> Layout(\h090, 0, \h015, 0),
    kBlk_00090_00020_001_1 |-> Layout(\h090, 0, \h020, 0),
    kBlk_00100_00100_001_1 |-> Layout(\h100, 0, \h100, 0),
    kBlk_00200_00080_001_1 |-> Layout(\h200, 0, \h080, 0),
    kBlk_00200_00100_001_1 |-> Layout(\h200, 0, \h100, 0),
    kBlk_00200_00200_001_1 |-> Layout(\h200, 0, 2, 2),
    kBlk_00200_00400_001_1 |-> Layout(\h200, 0, 4, 2),
    kBlk_00200_00800_001_1 |-> Layout(\h200, 0, 8, 2),
    kBlk_00200_00a00_001_1 |-> Layout(\h200, 0, 10, 2),
    kBlk_00a80_00080_001_1 |-> Layout(\hA80, 0, \h080, 0),
    kBlk_00b00_00300_001_1 |-> Layout(\hB00, 0, 3, 2),
    kBlk_00b00_00500_001_1 |-> Layout(\hB00, 0, 5, 2),
    kBlk_00c00_00400_200_1 |-> Layout(\hC00, 0, 4, 2),
    kBlk_00c00_00400_200_4 |-> Layout(\hC00, 0, 4, 2),
    kBlk_00e00_00100_001_1 |-> Layout(\hE00, 0, \h100, 0),
    kBlk_00f00_00100_001_1 |-> Layout(\hF00, 0, \h100, 0),
    kBlk_01000_00100_040_4 |-> Layout(\h010, 2, \h100, 0),
    kBlk_01000_00100_080_2 |-> Layout(\h010, 2, \h100, 0),
    kBlk_01000_00400_001_1 |-> Layout(\h010, 2, 4, 2),
    kBlk_01000_00400_400_1 |-> Layout(\h010, 2, 4, 2),
    kBlk_01000_00800_001_1 |-> Layout(\h010, 2, 8, 2),
    kBlk_01000_00800_200_4 |-> Layout(\h010, 2, 8, 2),
    kBlk_01100_01000_001_1 |-> Layout(\h011, 2, \h010, 2),
    kBlk_01100_01400_001_1 |-> Layout(\h011, 2, \h014, 2),
    kBlk_01100_02000_001_1 |-> Layout(\h011, 2, \h020, 2),
    kBlk_01100_02800_001_1 |-> Layout(\h011, 2, \h028, 2),
    kBlk_01100_0ef00_200_1 |-> Layout(\h011, 2, \h0EF, 2),
    kBlk_01800_00100_001_1 |-> Layout(\h018, 2, \h100, 0),
    kBlk_01800_00200_001_1 |-> Layout(\h018, 2, 2, 2),
    kBlk_01800_00200_080_4 |-> Layout(\h018, 2, 2, 2),
    kBlk_01900_00300_001_1 |-> Layout(\h019, 2, 3, 2),
    kBlk_01a00_00040_001_1 |-> Layout(\h01A, 2, \h040, 0),
    kBlk_01a00_00080_001_1 |-> Layout(\h01A, 2, \h080, 0),
    kBlk_01a00_00100_001_1 |-> Layout(\h01A, 2, \h100, 0),
    kBlk_01a00_00600_001_1 |-> Layout(\h01A, 2, 6, 2),
    kBlk_01c00_00060_001_1 |-> Layout(\h01C, 2, \h060, 0),
    kBlk_01c00_00080_001_1 |-> Layout(\h01C, 2, \h080, 0),
    kBlk_01c00_00400_001_1 |-> Layout(\h01C, 2, 4, 2),
    kBlk_01c00_00800_001_1 |-> Layout(\h01C, 2, 8, 2),
    kBlk_01c00_01000_001_1 |-> Layout(\h01C, 2, \h010, 2),
    kBlk_01c00_01000_001_2 |-> Layout(\h01C, 2, \h010, 2),
    kBlk_01c00_02000_001_1 |-> Layout(\h01C, 2, \h020, 2),
    kBlk_01c00_02800_001_1 |-> Layout(\h01C, 2, \h028, 2),
    kBlk_01c00_04000_001_1 |-> Layout(\h01C, 2, \h040, 2),
    kBlk_01c00_08000_001_1 |-> Layout(\h01C, 2, \h080, 2),
    kBlk_01c80_00780_001_1 |-> Layout(\h1C8, 1, \h078, 1),
    kBlk_01c80_00f80_001_2 |-> Layout(\h1C8, 1, \h0F8, 1),
    kBlk_02000_00200_001_1 |-> Layout(\h020, 2, 2, 2),
    kBlk_02000_00400_001_1 |-> Layout(\h020, 2, 4, 2),
    kBlk_02000_00800_001_1 |-> Layout(\h020, 2, 8, 2),
    kBlk_02000_01000_001_1 |-> Layout(\h020, 2, \h010, 2),
    kBlk_02000_01800_001_1 |-> Layout(\h020, 2, \h018, 2),
    kBlk_02000_02000_001_1 |-> Layout(\h020, 2, \h020, 2),
    kBlk_02000_0e000_200_1 |-> Layout(\h020, 2, \h0E0, 2),
    kBlk_02100_0df00_200_1 |-> Layout(\h021, 2, \h0DF, 2),
    kBlk_02100_16f00_200_1 |-> Layout(\h021, 2, \h16F, 2),
    kBlk_02100_1df00_200_1 |-> Layout(\h021, 2, \h1DF, 2),
    kBlk_02380_00080_001_1 |-> Layout(\h238, 1, \h080, 0),
    kBlk_02400_01000_001_1 |-> Layout(\h024, 2, \h010, 2),
    kBlk_02400_01000_001_2 |-> Layout(\h024, 2, \h010, 2),
    kBlk_02400_01800_001_1 |-> Layout(\h024, 2, \h018, 2),
    kBlk_02400_01800_001_3 |-> Layout(\h024, 2, \h018, 2),
    kBlk_02400_02000_001_1 |-> Layout(\h024, 2, \h020, 2),
    kBlk_02400_02000_001_4 |-> Layout(\h024, 2, \h020, 2),
    kBlk_02400_04000_001_1 |-> Layout(\h024, 2, \h040, 2),
    kBlk_02400_04000_001_4 |-> Layout(\h024, 2, \h040, 2),
    kBlk_02400_08000_001_4 |-> Layout(\h024, 2, \h080, 2),
    kBlk_02500_0db00_200_1 |-> Layout(\h025, 2, \h0DB, 2),
    kBlk_02c00_01000_001_1 |-> Layout(\h02C, 2, \h010, 2),
    kBlk_03100_16f00_200_1 |-> Layout(\h031, 2, \h16F, 2),
    kBlk_03100_1cf00_200_1 |-> Layout(\h031, 2, \h1CF, 2),
    kBlk_04000_02000_001_1 |-> Layout(\h040, 2, \h020, 2),
    kBlk_04000_03000_001_1 |-> Layout(\h040, 2, \h030, 2),
    kBlk_04000_0c000_200_1 |-> Layout(\h040, 2, \h0C0, 2),
    kBlk_04000_0c000_200_2 |-> Layout(\h040, 2, \h0C0, 2),
    kBlk_04000_10000_200_2 |-> Layout(\h040, 2, \h100, 2),
    kBlk_04000_18000_200_3 |-> Layout(\h040, 2, \h180, 2),
    kBlk_04000_20000_001_1 |-> Layout(\h040, 2, \h020, 3),
    kBlk_04000_20000_200_4 |-> Layout(\h040, 2, \h020, 3),
    kBlk_04000_40000_001_1 |-> Layout(\h040, 2, \h040, 3),
    kBlk_04400_01c00_001_1 |-> Layout(\h044, 2, \h01C, 2),
    kBlk_04400_0bc00_001_1 |-> Layout(\h044, 2, \h0BC, 2),
    kBlk_04400_0fc00_001_1 |-> Layout(\h044, 2, \h0FC, 2),
    kBlk_04400_10000_200_2 |-> Layout(\h044, 2, \h100, 2),
    kBlk_04400_17c00_001_1 |-> Layout(\h044, 2, \h17C, 2),
    kBlk_04400_18000_200_3 |-> Layout(\h044, 2, \h180, 2),
    kBlk_04400_1fc00_001_1 |-> Layout(\h044, 2, \h1FC, 2),
    kBlk_04400_20000_200_4 |-> Layout(\h044, 2, \h020, 3),
    kBlk_05c00_20000_200_4 |-> Layout(\h05C, 2, \h020, 3),
    kBlk_05c00_30000_200_4 |-> Layout(\h05C, 2, \h030, 3),
    kBlk_05c00_40000_200_4 |-> Layout(\h05C, 2, \h040, 3),
    kBlk_06000_10000_001_1 |-> Layout(\h060, 2, \h100, 2),
    kBlk_06c00_00400_001_1 |-> Layout(\h06C, 2, 4, 2),
    kBlk_08000_08000_001_1 |-> Layout(\h080, 2, \h080, 2),
    kBlk_08000_08000_200_1 |-> Layout(\h080, 2, \h080, 2),
    kBlk_08000_08000_200_2 |-> Layout(\h080, 2, \h080, 2),
    kBlk_08000_08000_400_1 |-> Layout(\h080, 2, \h080, 2),
    kBlk_08000_10000_001_1 |-> Layout(\h080, 2, \h100, 2),
    kBlk_08000_20000_200_2 |-> Layout(\h080, 2, \h020, 3),
    kBlk_08000_30000_200_3 |-> Layout(\h080, 2, \h030, 3),
    kBlk_08000_40000_200_4 |-> Layout(\h080, 2, \h040, 3),
    kBlk_08000_60000_200_3 |-> Layout(\h080, 2, \h060, 3),
    kBlk_08000_80000_200_4 |-> Layout(\h080, 2, \h080, 3),
    kBlk_0a000_06000_200_1 |-> Layout(\h0A0, 2, \h060, 2),
    kBlk_0a400_20000_200_4 |-> Layout(\h0A4, 2, \h020, 3),
    kBlk_0c000_04000_001_1 |-> Layout(\h0C0, 2, \h040, 2),
    kBlk_0c000_04000_200_1 |-> Layout(\h0C0, 2, \h040, 2),
    kBlk_0c000_04000_200_2 |-> Layout(\h0C0, 2, \h040, 2),
    kBlk_0c000_20000_200_1 |-> Layout(\h0C0, 2, \h020, 3),
    kBlk_0c000_40000_200_2 |-> Layout(\h0C0, 2, \h040, 3),
    kBlk_0c000_80000_200_4 |-> Layout(\h0C0, 2, \h080, 3),
    kBlk_0c200_03e00_001_1 |-> Layout(\h0C2, 2, \h03E, 2),
    kBlk_0c400_03c00_001_1 |-> Layout(\h0C4, 2, \h03C, 2),
    kBlk_0e000_02000_001_1 |-> Layout(\h0E0, 2, \h020, 2),
    kBlk_0e000_02000_200_1 |-> Layout(\h0E0, 2, \h020, 2),
    kBlk_0e000_02000_200_2 |-> Layout(\h0E0, 2, \h020, 2),
    kBlk_0e300_01d00_001_1 |-> Layout(\h0E3, 2, \h01D, 2),
    kBlk_0f000_01000_001_1 |-> Layout(\h0F0, 2, \h010, 2),
    kBlk_0f000_01000_200_1 |-> Layout(\h0F0, 2, \h010, 2),
    kBlk_0f100_00f00_001_1 |-> Layout(\h0F1, 2, 15, 2),
    kBlk_0f800_00080_001_1 |-> Layout(\h0F8, 2, \h080, 0),
    kBlk_0f800_007e0_001_1 |-> Layout(\h0F8, 2, \h07E, 1),
    kBlk_0f800_00800_001_1 |-> Layout(\h0F8, 2, 8, 2),
    kBlk_0f800_00800_200_1 |-> Layout(\h0F8, 2, 8, 2),
    kBlk_0f840_007c0_001_1 |-> Layout(\hF84, 1, \h07C, 1),
    kBlk_0f880_00760_001_1 |-> Layout(\hF88, 1, \h076, 1),
    kBlk_0fc00_00400_001_1 |-> Layout(\h0FC, 2, 4, 2),
    kBlk_0fe00_00200_001_1 |-> Layout(\h0FE, 2, 2, 2),
    kBlk_0ffe0_00020_001_1 |-> Layout(\hFFE, 1, \h020, 0),
    kBlk_c0000_04000_001_1 |-> Layout(\hC00, 2, \h040, 2),
    kBlk_f0000_10000_001_1 |-> Layout(\hF00, 2, \h100, 2),
    kBlk_f8000_08000_001_1 |-> Layout(\hF80, 2, \h080, 2),
    kBlk_fac00_05000_001_1 |-> Layout(\hFAC, 2, \h050, 2),
    kBlk_ffc00_00400_001_1 |-> Layout(\hFFC, 2, 4, 2)
]

\* MemoryBlock with its layout decoded (DecodeMemBlock).
Block(key, wrProt, access, layout) ==
    LET l == mem_layouts[layout]
    IN [key |-> key, wrProt |-> wrProt, access |-> access,
        start |-> l.start * 16 ^ l.startShl, size |-> l.size * 16 ^ l.sizeShl]

BlocksFrom_BootCode2_0 == [
    BootCode2_0 |-> Block("BootCode2", None, "kAccBootcodeRomAccess", "kBlk_04400_01c00_001_1"),
    BootCode_0 |-> Block("BootCode", None, "kAccBootcodeRomAccess", "kBlk_01a00_00040_001_1"),
    BootCode_1 |-> Block("BootCode", None, "kAccBootcodeRomAccess", "kBlk_0f800_00080_001_1"),
    BootCode_2 |-> Block("BootCode", None, "kAccBootcodeRomAccess", "kBlk_0f800_007e0_001_1"),
    BootCode_3 |-> Block("BootCode", None, "kAccBootcodeRomAccess", "kBlk_01900_00300_001_1"),
    BootCode_4 |-> Block("BootCode", None, "kAccBootcodeRomAccess", "kBlk_01a00_00080_001_1"),
    BootCode_5 |-> Block("BootCode", None, "kAccBootcodeRomAccess", "kBlk_01a00_00100_001_1"),
    BootCode_6 |-> Block("BootCode", None, "kAccBootcodeRomAccess", "kBlk_01a00_00600_001_1"),
    Bsl2_0 |-> Block("Bsl2", None, "kAccBslRomAccessGR", "kBlk_ffc00_00400_001_1"),
    Bsl_0 |-> Block("Bsl", None, "kAccBootcodeRomAccess", "kBlk_00c00_00400_200_1"),
    Bsl_1 |-> Block("Bsl", None, "kAccBootcodeRomAccess", "kBlk_00c00_00400_200_4"),
    Bsl_2 |-> Block("Bsl", None, "kAccBslFlashAccess", "kBlk_01000_00800_200_4"),
    Bsl_3 |-> Block("Bsl", None, "kAccBslRomAccess", "kBlk_01000_00800_001_1"),
    Bsl_4 |-> Block("Bsl", None, "kAccBslRomAccessGR", "kBlk_01000_00400_001_1"),
    Bsl_5 |-> Block("Bsl", None, "kAccBslRomAccessGR", "kBlk_01000_00800_001_1"),
    Cpu_0 |-> Block("Cpu", None, "kAccNone", "kBlk_00000_00010_001_1"),
    Eem_0 |-> Block("Eem", None, "kAccNone", "kBlk_00000_00080_001_1"),
    Info_0 |-> Block("Info", None, "kAccInformationFlashAccess", "kBlk_01000_00100_080_2"),
    Info_1 |-> Block("Info", None, "kAccInformationFlashAccess", "kBlk_01000_00100_040_4"),
    Info_2 |-> Block("Info", None, "kAccInformationFlashAccess", "kBlk_01000_00400_400_1"),
    Info_3 |-> Block("Info", None, "kAccInformationFlashAccess", "kBlk_01800_00200_080_4"),
    Info_4 |-> Block("Info", 5, "kAccFramMemoryAccessBase", "kBlk_01800_00100_001_1"),
    Info_5 |-> Block("Info", None, "kAccFramMemoryAccessBase", "kBlk_01800_00100_001_1"),
    Info_6 |-> Block("Info", 4, "kAccFramMemoryAccessBase", "kBlk_01800_00200_001_1"),
    Info_7 |-> Block("Info", 5, "kAccFramMemoryAccessBase", "kBlk_01800_00200_001_1"),
    Info_8 |-> Block("Info", None, "kAccFramMemoryAccessFRx9", "kBlk_01800_00200_001_1"),
    IrVec_0 |-> Block("IrVec", None, "kAccLockableRamMemoryAccess", "kBlk_0ffe0_00020_001_1"),
    IrVec_1 |-> Block("IrVec", None, "kAccBootcodeRomAccess", "kBlk_0ffe0_00020_001_1"),
    Lcd_0 |-> Block("Lcd", None, "kAccNone", "kBlk_00090_0000d_001_1"),
    Lcd_1 |-> Block("Lcd", None, "kAccNone", "kBlk_00090_00015_001_1"),
    Lcd_2 |-> Block("Lcd", None, "kAccNone", "kBlk_00090_00020_001_1"),
    LeaPeripheral_0 |-> Block("LeaPeripheral", None, "kAccRegisterAccess5xx", "kBlk_00a80_00080_001_1"),
    LeaRam_0 |-> Block("LeaRam", None, "kAccNone", "kBlk_02c00_01000_001_1"),
    LeaRam_1 |-> Block("LeaRam", None, "kAccNone", "kBlk_04000_02000_001_1"),
    Lib_0 |-> Block("Lib", None, "kAccBootcodeRomAccess", "kBlk_04000_03000_001_1"),
    Lib_1 |-> Block("Lib", None, "kAccBootcodeRomAccess", "kBlk_c0000_04000_001_1"),
    Lib_2 |-> Block("Lib", None, "kAccBootcodeRomAccess", "kBlk_fac00_05000_001_1"),
    Main_0 |-> Block("Main", None, "kAccFlashTimingGen1", "kBlk_01100_0ef00_200_1"),
    Main_1 |-> Block("Main", None, "kAccFlashTimingGen1", "kBlk_02500_0db00_200_1"),
    Main_10 |-> Block("Main", None, "kAccFlashTimingGen2a", "kBlk_02100_0df00_200_1"),
    Main_11 |-> Block("Main", None, "kAccFlashTimingGen2a", "kBlk_02100_16f00_200_1"),
    Main_12 |-> Block("Main", None, "kAccFlashTimingGen2a", "kBlk_02100_1df00_200_1"),
    Main_13 |-> Block("Main", None, "kAccFlashTimingGen2a", "kBlk_03100_16f00_200_1"),
    Main_14 |-> Block("Main", None, "kAccFlashTimingGen2a", "kBlk_03100_1cf00_200_1"),
    Main_15 |-> Block("Main", None, "kAccFlashTimingGen2a", "kBlk_04000_0c000_200_1"),
    Main_16 |-> Block("Main", None, "kAccFlashTimingGen2a", "kBlk_08000_08000_200_1"),
    Main_17 |-> Block("Main", None, "kAccFlashTimingGen2a", "kBlk_0c000_04000_200_1"),
    Main_18 |-> Block("Main", None, "kAccFlashTimingGen2a", "kBlk_0e000_02000_200_1"),
    Main_19 |-> Block("Main", None, "kAccFlashTimingGen2a", "kBlk_0f000_01000_200_1"),
    Main_2 |-> Block("Main", None, "kAccFlashTimingGen1", "kBlk_04000_0c000_200_1"),
    Main_20 |-> Block("Main", None, "kAccFlashTimingGen2a", "kBlk_0f800_00800_200_1"),
    Main_21 |-> Block("Main", None, "kAccFlashTimingGen2b", "kBlk_08000_08000_400_1"),
    Main_22 |-> Block("Main", None, "kAccNone", "kBlk_04000_0c000_200_2"),
    Main_23 |-> Block("Main", None, "kAccNone", "kBlk_04000_10000_200_2"),
    Main_24 |-> Block("Main", None, "kAccNone", "kBlk_04000_18000_200_3"),
    Main_25 |-> Block("Main", None, "kAccNone", "kBlk_04000_20000_200_4"),
    Main_26 |-> Block("Main", None, "kAccNone", "kBlk_04400_10000_200_2"),
    Main_27 |-> Block("Main", None, "kAccNone", "kBlk_04400_18000_200_3"),
    Main_28 |-> Block("Main", None, "kAccNone", "kBlk_04400_20000_200_4"),
    Main_29 |-> Block("Main", None, "kAccNone", "kBlk_05c00_20000_200_4"),
    Main_3 |-> Block("Main", None, "kAccFlashTimingGen1", "kBlk_08000_08000_200_1"),
    Main_30 |-> Block("Main", None, "kAccNone", "kBlk_05c00_30000_200_4"),
    Main_31 |-> Block("Main", None, "kAccNone", "kBlk_05c00_40000_200_4"),
    Main_32 |-> Block("Main", None, "kAccNone", "kBlk_08000_08000_200_1"),
    Main_33 |-> Block("Main", None, "kAccNone", "kBlk_08000_08000_200_2"),
    Main_34 |-> Block("Main", None, "kAccNone", "kBlk_08000_20000_200_2"),
    Main_35 |-> Block("Main", None, "kAccNone", "kBlk_08000_30000_200_3"),
    Main_36 |-> Block("Main", None, "kAccNone", "kBlk_08000_40000_200_4"),
    Main_37 |-> Block("Main", None, "kAccNone", "kBlk_08000_60000_200_3"),
    Main_38 |-> Block("Main", None, "kAccNone", "kBlk_08000_80000_200_4")
]

BlocksFrom_Main_39 == [
    Main_39 |-> Block("Main", None, "kAccNone", "kBlk_0a000_06000_200_1"),
    Main_4 |-> Block("Main", None, "kAccFlashTimingGen1", "kBlk_0a000_06000_200_1"),
    Main_40 |-> Block("Main", None, "kAccNone", "kBlk_0a400_20000_200_4"),
    Main_41 |-> Block("Main", None, "kAccNone", "kBlk_0c000_04000_200_1"),
    Main_42 |-> Block("Main", None, "kAccNone", "kBlk_0c000_04000_200_2"),
    Main_43 |-> Block("Main", None, "kAccNone", "kBlk_0c000_20000_200_1"),
    Main_44 |-> Block("Main", None, "kAccNone", "kBlk_0c000_40000_200_2"),
    Main_45 |-> Block("Main", None, "kAccNone", "kBlk_0c000_80000_200_4"),
    Main_46 |-> Block("Main", None, "kAccNone", "kBlk_0e000_02000_200_1"),
    Main_47 |-> Block("Main", None, "kAccNone", "kBlk_0e000_02000_200_2"),
    Main_48 |-> Block("Main", 3, "kAccFramMemoryAccessBase", "kBlk_08000_08000_001_1"),
    Main_49 |-> Block("Main", 3, "kAccFramMemoryAccessBase", "kBlk_08000_10000_001_1"),
    Main_5 |-> Block("Main", None, "kAccFlashTimingGen1", "kBlk_0c000_04000_200_1"),
    Main_50 |-> Block("Main", 3, "kAccFramMemoryAccessBase", "kBlk_0c000_04000_001_1"),
    Main_51 |-> Block("Main", None, "kAccFramMemoryAccessBase", "kBlk_0c200_03e00_001_1"),
    Main_52 |-> Block("Main", 2, "kAccFramMemoryAccessBase", "kBlk_0c400_03c00_001_1"),
    Main_53 |-> Block("Main", 3, "kAccFramMemoryAccessBase", "kBlk_0c400_03c00_001_1"),
    Main_54 |-> Block("Main", 2, "kAccFramMemoryAccessBase", "kBlk_0e000_02000_001_1"),
    Main_55 |-> Block("Main", 3, "kAccFramMemoryAccessBase", "kBlk_0e000_02000_001_1"),
    Main_56 |-> Block("Main", None, "kAccFramMemoryAccessBase", "kBlk_0e000_02000_001_1"),
    Main_57 |-> Block("Main", 3, "kAccFramMemoryAccessBase", "kBlk_0e300_01d00_001_1"),
    Main_58 |-> Block("Main", 2, "kAccFramMemoryAccessBase", "kBlk_0f000_01000_001_1"),
    Main_59 |-> Block("Main", None, "kAccFramMemoryAccessBase", "kBlk_0f000_01000_001_1"),
    Main_6 |-> Block("Main", None, "kAccFlashTimingGen1", "kBlk_0e000_02000_200_1"),
    Main_60 |-> Block("Main", 3, "kAccFramMemoryAccessBase", "kBlk_0f100_00f00_001_1"),
    Main_61 |-> Block("Main", 3, "kAccFramMemoryAccessBase", "kBlk_0f800_00800_001_1"),
    Main_62 |-> Block("Main", 6, "kAccFramMemoryAccessBase", "kBlk_0f840_007c0_001_1"),
    Main_63 |-> Block("Main", 3, "kAccFramMemoryAccessBase", "kBlk_0fc00_00400_001_1"),
    Main_64 |-> Block("Main", 3, "kAccFramMemoryAccessBase", "kBlk_0fe00_00200_001_1"),
    Main_65 |-> Block("Main", 1, "kAccFramMemoryAccessFRx9", "kBlk_04000_20000_001_1"),
    Main_66 |-> Block("Main", 1, "kAccFramMemoryAccessFRx9", "kBlk_04000_40000_001_1"),
    Main_67 |-> Block("Main", None, "kAccFramMemoryAccessFRx9", "kBlk_04400_0bc00_001_1"),
    Main_68 |-> Block("Main", None, "kAccFramMemoryAccessFRx9", "kBlk_04400_0fc00_001_1"),
    Main_69 |-> Block("Main", None, "kAccFramMemoryAccessFRx9", "kBlk_04400_17c00_001_1"),
    Main_7 |-> Block("Main", None, "kAccFlashTimingGen1", "kBlk_0f000_01000_200_1"),
    Main_70 |-> Block("Main", None, "kAccFramMemoryAccessFRx9", "kBlk_04400_1fc00_001_1"),
    Main_71 |-> Block("Main", 1, "kAccFramMemoryAccessFRx9", "kBlk_06000_10000_001_1"),
    Main_72 |-> Block("Main", None, "kAccFramMemoryAccessFRx9", "kBlk_08000_08000_001_1"),
    Main_73 |-> Block("Main", 1, "kAccFramMemoryAccessFRx9", "kBlk_08000_08000_001_1"),
    Main_74 |-> Block("Main", None, "kAccLockableRamMemoryAccess", "kBlk_01c00_00060_001_1"),
    Main_75 |-> Block("Main", None, "kAccLockableRamMemoryAccess", "kBlk_0f880_00760_001_1"),
    Main_8 |-> Block("Main", None, "kAccFlashTimingGen2a", "kBlk_01100_0ef00_200_1"),
    Main_9 |-> Block("Main", None, "kAccFlashTimingGen2a", "kBlk_02000_0e000_200_1"),
    MidRom_0 |-> Block("MidRom", None, "kAccUsbRamAccess", "kBlk_06c00_00400_001_1"),
    Peripheral16bit1_0 |-> Block("Peripheral16bit1", None, "kAccRegisterAccess5xx", "kBlk_00020_00a60_001_1"),
    Peripheral16bit1_1 |-> Block("Peripheral16bit1", None, "kAccRegisterAccess5xx", "kBlk_00020_00fe0_001_1"),
    Peripheral16bit2_0 |-> Block("Peripheral16bit2", None, "kAccRegisterAccess5xx", "kBlk_00020_00fe0_001_1"),
    Peripheral16bit2_1 |-> Block("Peripheral16bit2", None, "kAccRegisterAccess5xx", "kBlk_00b00_00300_001_1"),
    Peripheral16bit2_2 |-> Block("Peripheral16bit2", None, "kAccRegisterAccess5xx", "kBlk_00b00_00500_001_1"),
    Peripheral16bit3_0 |-> Block("Peripheral16bit3", None, "kAccRegisterAccess5xx", "kBlk_00f00_00100_001_1"),
    Peripheral16bit_0 |-> Block("Peripheral16bit", None, "kAccNone", "kBlk_00100_00100_001_1"),
    Peripheral16bit_1 |-> Block("Peripheral16bit", None, "kAccRegisterAccess5xx", "kBlk_00000_00006_001_1"),
    Peripheral16bit_2 |-> Block("Peripheral16bit", None, "kAccRegisterAccess5xx", "kBlk_00000_01000_001_1"),
    Peripheral8bit_0 |-> Block("Peripheral8bit", None, "kAccNone", "kBlk_00000_00100_001_1"),
    Ram2_0 |-> Block("Ram2", None, "kAccNone", "kBlk_01100_01000_001_1"),
    Ram2_1 |-> Block("Ram2", None, "kAccNone", "kBlk_01100_01400_001_1"),
    Ram2_2 |-> Block("Ram2", None, "kAccNone", "kBlk_01100_02000_001_1"),
    Ram2_3 |-> Block("Ram2", None, "kAccNone", "kBlk_01100_02800_001_1"),
    Ram2_4 |-> Block("Ram2", None, "kAccNone", "kBlk_01c00_00080_001_1"),
    Ram2_5 |-> Block("Ram2", None, "kAccNone", "kBlk_f0000_10000_001_1"),
    Ram2_6 |-> Block("Ram2", None, "kAccNone", "kBlk_f8000_08000_001_1"),
    Ram_0 |-> Block("Ram", None, "kAccNone", "kBlk_00200_00080_001_1"),
    Ram_1 |-> Block("Ram", None, "kAccNone", "kBlk_00200_00100_001_1"),
    Ram_10 |-> Block("Ram", None, "kAccNone", "kBlk_01c00_02000_001_1"),
    Ram_11 |-> Block("Ram", None, "kAccNone", "kBlk_01c00_02800_001_1"),
    Ram_12 |-> Block("Ram", None, "kAccNone", "kBlk_01c00_04000_001_1"),
    Ram_13 |-> Block("Ram", None, "kAccNone", "kBlk_01c00_08000_001_1"),
    Ram_14 |-> Block("Ram", None, "kAccNone", "kBlk_01c80_00780_001_1"),
    Ram_15 |-> Block("Ram", None, "kAccNone", "kBlk_01c80_00f80_001_2"),
    Ram_16 |-> Block("Ram", None, "kAccNone", "kBlk_02000_00200_001_1")
]

BlocksFrom_Ram_17 == [
    Ram_17 |-> Block("Ram", None, "kAccNone", "kBlk_02000_00400_001_1"),
    Ram_18 |-> Block("Ram", None, "kAccNone", "kBlk_02000_00800_001_1"),
    Ram_19 |-> Block("Ram", None, "kAccNone", "kBlk_02000_01000_001_1"),
    Ram_2 |-> Block("Ram", None, "kAccNone", "kBlk_00200_00200_001_1"),
    Ram_20 |-> Block("Ram", None, "kAccNone", "kBlk_02000_01800_001_1"),
    Ram_21 |-> Block("Ram", None, "kAccNone", "kBlk_02000_02000_001_1"),
    Ram_22 |-> Block("Ram", None, "kAccNone", "kBlk_02380_00080_001_1"),
    Ram_23 |-> Block("Ram", None, "kAccNone", "kBlk_02400_01000_001_1"),
    Ram_24 |-> Block("Ram", None, "kAccNone", "kBlk_02400_01000_001_2"),
    Ram_25 |-> Block("Ram", None, "kAccNone", "kBlk_02400_01800_001_1"),
    Ram_26 |-> Block("Ram", None, "kAccNone", "kBlk_02400_01800_001_3"),
    Ram_27 |-> Block("Ram", None, "kAccNone", "kBlk_02400_02000_001_1"),
    Ram_28 |-> Block("Ram", None, "kAccNone", "kBlk_02400_02000_001_4"),
    Ram_29 |-> Block("Ram", None, "kAccNone", "kBlk_02400_04000_001_1"),
    Ram_3 |-> Block("Ram", None, "kAccNone", "kBlk_00200_00400_001_1"),
    Ram_30 |-> Block("Ram", None, "kAccNone", "kBlk_02400_04000_001_4"),
    Ram_31 |-> Block("Ram", None, "kAccNone", "kBlk_02400_08000_001_4"),
    Ram_4 |-> Block("Ram", None, "kAccNone", "kBlk_00200_00800_001_1"),
    Ram_5 |-> Block("Ram", None, "kAccNone", "kBlk_00200_00a00_001_1"),
    Ram_6 |-> Block("Ram", None, "kAccNone", "kBlk_01c00_00400_001_1"),
    Ram_7 |-> Block("Ram", None, "kAccNone", "kBlk_01c00_00800_001_1"),
    Ram_8 |-> Block("Ram", None, "kAccNone", "kBlk_01c00_01000_001_1"),
    Ram_9 |-> Block("Ram", None, "kAccNone", "kBlk_01c00_01000_001_2"),
    TinyRam_0 |-> Block("TinyRam", None, "kAccTinyRandomMemoryAccess", "kBlk_00006_0001a_001_1"),
    UsbRam_0 |-> Block("UsbRam", None, "kAccUsbRamAccess", "kBlk_01c00_00800_001_1"),
    UssPeripheral_0 |-> Block("UssPeripheral", None, "kAccRegisterAccess5xx", "kBlk_00e00_00100_001_1")
]

\* Write protections by their index in mem_wr_prot, None for the first, empty one.
all_mem_blocks == BlocksFrom_BootCode2_0 @@ BlocksFrom_Main_39 @@ BlocksFrom_Ram_17

Config(base, blocks) == [base |-> base, blocks |-> blocks]

ConfigsFrom_MCfg_30_0 == [
    MCfg_30_0 |-> Config(None, <<"Info_1", "Main_11", "Peripheral16bit_0", "Peripheral8bit_0",
        "Ram_4">>),
    MCfg_30_100 |-> Config("MCfg_30_0", <<"Bsl_0", "Lcd_1", "Ram2_0">>),
    MCfg_30_101 |-> Config("MCfg_30_0", <<"Bsl_0", "Lcd_2", "Main_3">>),
    MCfg_30_102 |-> Config("MCfg_30_0", <<"Main_18", "Ram_2">>),
    MCfg_30_103 |-> Config("MCfg_30_0", <<"Main_17", "Ram_2">>),
    MCfg_30_104 |-> Config("MCfg_30_0", <<"Main_19", "Ram_1">>),
    MCfg_30_200 |-> Config("MCfg_30_100", <<"Main_12">>),
    MCfg_30_201 |-> Config("MCfg_30_100", <<"Main_9">>),
    MCfg_30_202 |-> Config("MCfg_30_100", <<"Main_13", "Ram2_2">>),
    MCfg_30_203 |-> Config("MCfg_30_100", <<"Main_14", "Ram2_2">>),
    MCfg_30_204 |-> Config("MCfg_30_101", <<"Main_15">>),
    MCfg_30_205 |-> Config("MCfg_30_101", <<"Main_2">>),
    MCfg_30_206 |-> Config("MCfg_30_101", <<"Main_0">>),
    MCfg_30_207 |-> Config("MCfg_30_101", <<"Main_8", "Ram_5">>),
    MCfg_30_208 |-> Config("MCfg_30_101", <<"Main_5", "Ram_2">>),
    MCfg_30_209 |-> Config("MCfg_30_101", <<"Main_6", "Ram_2">>),
    MCfg_31_0 |-> Config(None, <<"BootCode_4", "Bsl_4", "Main_63", "Peripheral16bit_2", "Ram_16">>),
    MCfg_31_100 |-> Config("MCfg_31_0", <<"Main_64">>),
    MCfg_31_101 |-> Config("MCfg_31_0", <<"Main_60", "Main_61", "Ram_17">>),
    MCfg_40_0 |-> Config(None, <<"BootCode_5", "Bsl_2", "Info_3", "Main_44", "Peripheral16bit_2",
        "Ram_12">>),
    MCfg_40_100 |-> Config("MCfg_40_0", <<"Main_45">>),
    MCfg_40_101 |-> Config("MCfg_40_0", <<"Ram_13">>),
    MCfg_40_102 |-> Config("MCfg_40_0", <<"Main_40", "Ram_30">>),
    MCfg_40_103 |-> Config("MCfg_40_0", <<"Main_34", "Ram_30", "UsbRam_0">>),
    MCfg_40_104 |-> Config("MCfg_40_0", <<"Main_26", "Ram_28">>),
    MCfg_40_105 |-> Config("MCfg_40_0", <<"Main_28", "Ram_28">>),
    MCfg_40_106 |-> Config("MCfg_40_0", <<"Main_27", "Ram_28">>),
    MCfg_40_107 |-> Config("MCfg_40_0", <<"Main_33", "Ram_28", "UsbRam_0">>),
    MCfg_40_108 |-> Config("MCfg_40_0", <<"Main_23", "Ram_8">>),
    MCfg_40_109 |-> Config("MCfg_40_0", <<"Main_36", "Ram_29", "UsbRam_0">>),
    MCfg_40_110 |-> Config("MCfg_40_0", <<"Main_32", "Ram_7">>),
    MCfg_40_111 |-> Config("MCfg_40_0", <<"Main_43">>),
    MCfg_40_112 |-> Config("MCfg_40_0", <<"Main_29">>),
    MCfg_40_113 |-> Config("MCfg_40_0", <<"Main_30">>),
    MCfg_40_114 |-> Config("MCfg_40_0", <<"Main_31">>),
    MCfg_40_115 |-> Config("MCfg_40_0", <<"Main_32", "Ram_24", "UsbRam_0">>),
    MCfg_40_116 |-> Config("MCfg_40_0", <<"Main_41", "Ram_6">>),
    MCfg_40_117 |-> Config("MCfg_40_0", <<"Main_33", "Ram2_4", "Ram_15">>),
    MCfg_40_118 |-> Config("MCfg_40_0", <<"Main_47", "Ram2_4", "Ram_14">>),
    MCfg_40_119 |-> Config("MCfg_40_0", <<"Main_25", "Ram_10">>),
    MCfg_40_120 |-> Config("MCfg_40_0", <<"Main_27", "Ram_25", "UsbRam_0">>),
    MCfg_40_121 |-> Config("MCfg_40_0", <<"Main_28", "Ram_27", "UsbRam_0">>),
    MCfg_40_122 |-> Config("MCfg_40_0", <<"Main_40", "Ram_31">>),
    MCfg_40_123 |-> Config("MCfg_40_0", <<"Main_46", "Ram_23", "UsbRam_0">>),
    MCfg_40_124 |-> Config("MCfg_40_0", <<"Main_33", "Ram_9">>)
]

ConfigsFrom_MCfg_40_125 == [
    MCfg_40_125 |-> Config("MCfg_40_0", <<"Main_28", "Ram_11">>),
    MCfg_40_200 |-> Config("MCfg_40_100", <<"Ram_13">>),
    MCfg_40_201 |-> Config("MCfg_40_103", <<"Main_35">>),
    MCfg_40_202 |-> Config("MCfg_40_103", <<"Main_36">>),
    MCfg_40_203 |-> Config("MCfg_40_104", <<"UsbRam_0">>),
    MCfg_40_204 |-> Config("MCfg_40_104", <<"Ram_11">>),
    MCfg_40_205 |-> Config("MCfg_40_104", <<"Ram_24", "UsbRam_0">>),
    MCfg_40_206 |-> Config("MCfg_40_104", <<"Ram_23", "UsbRam_0">>),
    MCfg_40_207 |-> Config("MCfg_40_105", <<"UsbRam_0">>),
    MCfg_40_208 |-> Config("MCfg_40_108", <<"Main_24">>),
    MCfg_40_209 |-> Config("MCfg_40_108", <<"Main_25">>),
    MCfg_40_210 |-> Config("MCfg_40_108", <<"Main_22">>),
    MCfg_40_211 |-> Config("MCfg_40_109", <<"Main_37", "MidRom_0", "Ram2_6">>),
    MCfg_40_212 |-> Config("MCfg_40_109", <<"Main_38", "MidRom_0", "Ram2_5">>),
    MCfg_40_213 |-> Config("MCfg_40_109", <<"Main_34">>),
    MCfg_40_214 |-> Config("MCfg_40_110", <<"Main_42">>),
    MCfg_40_215 |-> Config("MCfg_40_110", <<"Main_41">>),
    MCfg_40_216 |-> Config("MCfg_40_110", <<"Main_33">>),
    MCfg_40_217 |-> Config("MCfg_40_110", <<"Main_47">>),
    MCfg_40_218 |-> Config("MCfg_40_115", <<"Main_41">>),
    MCfg_40_219 |-> Config("MCfg_40_115", <<"Main_39">>),
    MCfg_40_220 |-> Config("MCfg_40_115", <<"Main_46">>),
    MCfg_40_221 |-> Config("MCfg_40_116", <<"Main_46">>),
    MCfg_40_222 |-> Config("MCfg_40_118", <<"Main_42">>),
    MCfg_40_223 |-> Config("MCfg_40_120", <<"Ram_26">>),
    MCfg_40_224 |-> Config("MCfg_40_121", <<"Main_34">>),
    MCfg_40_225 |-> Config("MCfg_40_123", <<"Main_32">>),
    MCfg_40_226 |-> Config("MCfg_40_123", <<"Main_41">>),
    MCfg_40_227 |-> Config("MCfg_40_123", <<"Main_39">>),
    MCfg_41_0 |-> Config(None, <<"Bsl_1", "Info_1", "Main_18", "Peripheral16bit_0",
        "Peripheral8bit_0", "Ram_4">>),
    MCfg_41_100 |-> Config("MCfg_41_0", <<"Main_16", "Ram2_0">>),
    MCfg_41_101 |-> Config("MCfg_41_0", <<"Main_8">>),
    MCfg_41_102 |-> Config("MCfg_41_0", <<"Ram_2">>),
    MCfg_41_103 |-> Config("MCfg_41_0", <<"Main_17", "Ram_2">>),
    MCfg_41_104 |-> Config("MCfg_41_0", <<"Main_19", "Ram_2">>),
    MCfg_41_105 |-> Config("MCfg_41_0", <<"Ram_3">>),
    MCfg_41_106 |-> Config("MCfg_41_0", <<"Main_16", "Ram_3">>),
    MCfg_41_107 |-> Config("MCfg_41_0", <<"Ram_1">>),
    MCfg_41_108 |-> Config("MCfg_41_0", <<"Main_20", "Ram_0", "Ram_1">>),
    MCfg_41_200 |-> Config("MCfg_41_100", <<"Main_10">>),
    MCfg_41_201 |-> Config("MCfg_41_100", <<"Main_11">>),
    MCfg_41_202 |-> Config("MCfg_41_100", <<"Main_12">>),
    MCfg_41_203 |-> Config("MCfg_41_100", <<"Main_15">>),
    MCfg_41_204 |-> Config("MCfg_41_101", <<"Main_13", "Ram2_2">>),
    MCfg_41_205 |-> Config("MCfg_41_101", <<"Main_14", "Ram2_2">>)
]

ConfigsFrom_MCfg_41_206 == [
    MCfg_41_206 |-> Config("MCfg_41_101", <<"Main_17">>),
    MCfg_41_207 |-> Config("MCfg_41_101", <<"Main_16">>),
    MCfg_42_0 |-> Config(None, <<"Bsl_1", "Info_0", "Main_0", "Peripheral16bit_0",
        "Peripheral8bit_0", "Ram_4">>),
    MCfg_42_100 |-> Config("MCfg_42_0", <<"Main_2", "Ram2_3">>),
    MCfg_42_101 |-> Config("MCfg_42_0", <<"Main_2">>),
    MCfg_42_102 |-> Config("MCfg_42_0", <<"Main_1", "Ram2_1">>),
    MCfg_42_103 |-> Config("MCfg_42_0", <<"Main_3", "Ram2_1">>),
    MCfg_42_104 |-> Config("MCfg_42_0", <<"Main_6", "Ram_1">>),
    MCfg_42_105 |-> Config("MCfg_42_0", <<"Main_7", "Ram_1">>),
    MCfg_42_106 |-> Config("MCfg_42_0", <<"Main_3", "Ram_3">>),
    MCfg_42_107 |-> Config("MCfg_42_0", <<"Main_4", "Ram_3">>),
    MCfg_42_108 |-> Config("MCfg_42_0", <<"Main_5", "Ram_2">>),
    MCfg_43_0 |-> Config(None, <<"Bsl_0", "Info_0", "Lcd_1", "Main_6", "Peripheral16bit_0",
        "Peripheral8bit_0", "Ram_1">>),
    MCfg_43_100 |-> Config("MCfg_43_0", <<"Lcd_0">>),
    MCfg_43_101 |-> Config("MCfg_43_0", <<"Main_3", "Ram_3">>),
    MCfg_43_102 |-> Config("MCfg_43_0", <<"Main_5", "Ram_2">>),
    MCfg_43_103 |-> Config("MCfg_43_0", <<"Main_0", "Ram_4">>),
    MCfg_43_104 |-> Config("MCfg_43_0", <<"Lcd_2">>),
    MCfg_43_200 |-> Config("MCfg_43_100", <<"Main_3", "Ram_3">>),
    MCfg_43_201 |-> Config("MCfg_43_100", <<"Main_0", "Ram_4">>),
    MCfg_43_202 |-> Config("MCfg_43_104", <<"Main_5">>),
    MCfg_43_203 |-> Config("MCfg_43_104", <<"Main_3">>),
    MCfg_43_300 |-> Config("MCfg_43_201", <<"Main_12", "Ram2_0">>),
    MCfg_43_301 |-> Config("MCfg_43_201", <<"Main_11", "Ram2_0">>),
    MCfg_43_302 |-> Config("MCfg_43_201", <<"Main_13", "Ram2_2">>),
    MCfg_43_303 |-> Config("MCfg_43_201", <<"Main_14", "Ram2_2">>),
    MCfg_44_0 |-> Config(None, <<"BootCode_5", "Bsl_4", "Info_6", "Peripheral16bit_2">>),
    MCfg_44_100 |-> Config("MCfg_44_0", <<"Main_54", "Ram_17">>),
    MCfg_44_101 |-> Config("MCfg_44_0", <<"Main_52", "Ram_18">>),
    MCfg_44_102 |-> Config("MCfg_44_0", <<"Main_58", "Ram_16">>),
    MCfg_45_100 |-> Config("MCfg_54_0", <<"Main_61">>),
    MCfg_50_0 |-> Config(None, <<"BootCode_5", "Bsl_5", "Info_7", "Lib_0", "Main_53",
        "Peripheral16bit_2", "Ram_19">>),
    MCfg_50_10 |-> Config("MCfg_50_0", <<"Ram_18">>),
    MCfg_50_11 |-> Config("MCfg_50_0", <<"Main_55", "Ram_17">>),
    MCfg_50_12 |-> Config("MCfg_50_0", <<"Main_55", "Ram_18">>),
    MCfg_51_0 |-> Config(None, <<"BootCode2_0", "BootCode_0", "Main_62", "Peripheral16bit_2",
        "Ram_8">>),
    MCfg_52_0 |-> Config(None, <<"BootCode_2", "IrVec_1", "Main_74", "Peripheral16bit_2",
        "Ram_22">>),
    MCfg_53_0 |-> Config(None, <<"BootCode_1", "IrVec_0", "Main_75", "Peripheral16bit_2",
        "Ram_22">>),
    MCfg_54_0 |-> Config(None, <<"BootCode_4", "Bsl2_0", "Bsl_5", "Main_60", "Peripheral16bit_2",
        "Ram_17">>),
    MCfg_60_0 |-> Config(None, <<"Bsl_1", "Info_2", "Main_21", "Peripheral16bit_0",
        "Peripheral8bit_0", "Ram_4">>),
    MCfg_61_0 |-> Config(None, <<"BootCode_5", "Bsl_3", "Info_8", "Main_68", "Peripheral16bit1_1",
        "Peripheral16bit_1", "Ram_7", "TinyRam_0">>),
    MCfg_61_10 |-> Config("MCfg_61_0", <<"Main_72", "Ram_6">>),
    MCfg_61_11 |-> Config("MCfg_61_0", <<"Main_72">>),
    MCfg_61_12 |-> Config("MCfg_61_0", <<"Main_67">>),
    MCfg_61_13 |-> Config("MCfg_61_0", <<"Main_70">>)
]

ConfigsFrom_MCfg_61_14 == [
    MCfg_61_14 |-> Config("MCfg_61_0", <<"Main_69">>),
    MCfg_61_15 |-> Config("MCfg_61_0", <<"Main_65", "Ram_10">>),
    MCfg_61_16 |-> Config("MCfg_61_0", <<"Main_66", "Ram_10">>),
    MCfg_70_0 |-> Config(None, <<"BootCode_5", "Bsl_3", "LeaPeripheral_0", "LeaRam_0", "Main_66",
        "Peripheral16bit1_0", "Peripheral16bit2_2", "Ram_8", "TinyRam_0">>),
    MCfg_70_10 |-> Config("MCfg_70_0", <<"Peripheral16bit2_1", "Peripheral16bit3_0",
        "UssPeripheral_0">>),
    MCfg_70_11 |-> Config("MCfg_70_0", <<"Info_8", "Peripheral16bit_1">>),
    MCfg_70_20 |-> Config("MCfg_70_10", <<"Main_65">>),
    MCfg_70_21 |-> Config("MCfg_70_11", <<"Main_65">>),
    MCfg_70_22 |-> Config("MCfg_70_0", <<"Main_65">>),
    MCfg_71_0 |-> Config(None, <<"BootCode_6", "Bsl2_0", "Bsl_5", "Info_7", "Lib_1", "Main_48",
        "Peripheral16bit2_0", "Peripheral16bit_1", "Ram_19", "TinyRam_0">>),
    MCfg_71_10 |-> Config("MCfg_71_0", <<"Main_49", "Ram_21">>),
    MCfg_71_11 |-> Config("MCfg_71_0", <<"Lib_2", "Main_50", "Ram_18">>),
    MCfg_71_12 |-> Config("MCfg_71_0", <<"Main_55", "Ram_18">>),
    MCfg_71_13 |-> Config("MCfg_71_0", <<"Lib_2">>),
    MCfg_71_14 |-> Config("MCfg_71_0", <<"Main_50">>),
    MCfg_71_15 |-> Config("MCfg_71_0", <<"Ram_20">>),
    MCfg_72_0 |-> Config(None, <<"BootCode_5", "Bsl_3", "Info_5", "Main_56", "Peripheral16bit1_1",
        "Peripheral16bit_1", "Ram_6", "TinyRam_0">>),
    MCfg_72_10 |-> Config("MCfg_72_0", <<"Main_51">>),
    MCfg_72_11 |-> Config("MCfg_72_0", <<"Main_59">>),
    MCfg_73_0 |-> Config(None, <<"BootCode_5", "Bsl_5", "Info_4", "Lib_0", "Main_57",
        "Peripheral16bit_2", "Ram_18">>),
    MCfg_A0_0 |-> Config(None, <<"BootCode_3", "Bsl_3", "LeaPeripheral_0", "LeaRam_1", "Main_71",
        "Peripheral16bit1_0", "Peripheral16bit2_1", "Peripheral16bit3_0", "Ram_8", "TinyRam_0",
        "UssPeripheral_0">>),
    MCfg_A0_10 |-> Config("MCfg_A0_0", <<"Main_73">>)
]

mem_config_blob == ConfigsFrom_MCfg_30_0 @@ ConfigsFrom_MCfg_40_125 @@ ConfigsFrom_MCfg_41_206 @@ ConfigsFrom_MCfg_61_14

-----------------------------------------------------------------------------
(* all_eem_timers. *)

Timer(index, stop, first, value) ==
    [index |-> index, stop |-> stop, first |-> first, value |-> value]

TimersFrom_0 == <<
    \* kEemTimer_0
    Timer(0, TRUE, TRUE, 10), Timer(1, TRUE, FALSE, \h91), Timer(2, TRUE, FALSE, \h8E),
    Timer(5, FALSE, FALSE, \hB0), Timer(6, FALSE, FALSE, \h28), Timer(7, FALSE, FALSE, \h29),
    Timer(8, FALSE, FALSE, \h2A), Timer(9, FALSE, FALSE, \h2B), Timer(10, TRUE, FALSE, \h8A),
    Timer(12, FALSE, FALSE, \hA8), Timer(13, TRUE, FALSE, \h60),
    \* kEemTimer_1
    Timer(0, TRUE, TRUE, 10), Timer(1, TRUE, FALSE, \h91), Timer(2, TRUE, FALSE, \h8E),
    Timer(5, FALSE, FALSE, \hB0), Timer(6, FALSE, FALSE, \h28), Timer(7, FALSE, FALSE, \h29),
    Timer(8, FALSE, FALSE, \h2A), Timer(9, FALSE, FALSE, \h2B), Timer(10, TRUE, FALSE, \h8A),
    Timer(11, FALSE, FALSE, \hD8), Timer(12, FALSE, FALSE, \hA8), Timer(13, TRUE, FALSE, \h60),
    \* kEemTimer_2
    Timer(0, TRUE, TRUE, 10), Timer(1, TRUE, FALSE, \h91), Timer(2, TRUE, FALSE, \h8E),
    Timer(6, FALSE, FALSE, \h28), Timer(7, FALSE, FALSE, \h29), Timer(8, FALSE, FALSE, \h2A),
    Timer(9, FALSE, FALSE, \h2B), Timer(10, TRUE, FALSE, \h8A), Timer(11, FALSE, FALSE, \hD8),
    Timer(12, FALSE, FALSE, \hA8), Timer(13, TRUE, FALSE, \h60),
    \* kEemTimer_3
    Timer(0, TRUE, TRUE, 10), Timer(1, TRUE, FALSE, \h91), Timer(2, TRUE, FALSE, \h8E),
    Timer(6, FALSE, FALSE, \h28), Timer(7, FALSE, FALSE, \h29), Timer(8, FALSE, FALSE, \h2A),
    Timer(9, FALSE, FALSE, \h2B), Timer(10, TRUE, FALSE, \h8A), Timer(12, FALSE, FALSE, \hA8),
    Timer(13, TRUE, FALSE, \h60),
    \* kEemTimer_4
    Timer(0, TRUE, TRUE, 10), Timer(2, TRUE, FALSE, \h8E), Timer(3, TRUE, FALSE, \h74),
    Timer(4, TRUE, FALSE, \h75), Timer(6, FALSE, FALSE, \h28), Timer(7, FALSE, FALSE, \h29),
    Timer(10, TRUE, FALSE, \h8A), Timer(11, FALSE, FALSE, \hD6), Timer(12, FALSE, FALSE, \hA8),
    \* kEemTimer_5
    Timer(0, TRUE, TRUE, 10), Timer(2, TRUE, FALSE, \h8E), Timer(3, TRUE, FALSE, \h74),
    Timer(4, TRUE, FALSE, \h75), Timer(6, FALSE, FALSE, \h28), Timer(7, FALSE, FALSE, \h29),
    Timer(10, TRUE, FALSE, \h8A), Timer(12, FALSE, FALSE, \hA8),
    \* kEemTimer_6
    Timer(0, TRUE, TRUE, 10), Timer(1, TRUE, FALSE, \h91), Timer(2, TRUE, FALSE, \h8E),
    Timer(3, TRUE, FALSE, \h8F), Timer(4, TRUE, FALSE, \h9D), Timer(6, FALSE, FALSE, \h28),
    Timer(7, FALSE, FALSE, \h29), Timer(8, FALSE, FALSE, \h2A), Timer(9, FALSE, FALSE, \h2B),
    Timer(10, TRUE, FALSE, \h8A), Timer(12, FALSE, FALSE, \hA8),
    \* kEemTimer_7
    Timer(0, TRUE, TRUE, 10), Timer(1, TRUE, FALSE, \h91), Timer(2, TRUE, FALSE, \h8E),
    Timer(3, TRUE, FALSE, \h8F), Timer(4, TRUE, FALSE, \h9D), Timer(6, FALSE, FALSE, \h28),
    Timer(7, FALSE, FALSE, \h29), Timer(8, FALSE, FALSE, \h2A), Timer(9, FALSE, FALSE, \h2B),
    Timer(10, TRUE, FALSE, \h8A), Timer(11, FALSE, FALSE, \hD8), Timer(12, FALSE, FALSE, \hA8),
    \* kEemTimer_8
    Timer(0, TRUE, TRUE, 10), Timer(1, TRUE, FALSE, \h91), Timer(2, TRUE, FALSE, \h8E),
    Timer(3, TRUE, FALSE, \h8F), Timer(4, TRUE, FALSE, \h9D), Timer(6, FALSE, FALSE, \h28),
    Timer(7, FALSE, FALSE, \h29), Timer(10, TRUE, FALSE, \h8A), Timer(11, FALSE, FALSE, \hD6),
    \* kEemTimer_9
    Timer(0, TRUE, TRUE, 10), Timer(1, TRUE, FALSE, \h91), Timer(2, TRUE, FALSE, \h8E),
    Timer(3, TRUE, FALSE, \h8F), Timer(4, TRUE, FALSE, \h9D), Timer(6, FALSE, FALSE, \h28),
    Timer(7, FALSE, FALSE, \h29), Timer(8, FALSE, FALSE, \h2A), Timer(9, FALSE, FALSE, \h2B),
    Timer(10, TRUE, FALSE, \h8A), Timer(11, FALSE, FALSE, \hD6), Timer(12, FALSE, FALSE, \hA8),
    \* kEemTimer_10
    Timer(0, TRUE, TRUE, 10), Timer(1, TRUE, FALSE, \h91), Timer(2, TRUE, FALSE, \h8E),
    Timer(3, TRUE, FALSE, \h8F), Timer(4, TRUE, FALSE, \h9D), Timer(6, FALSE, FALSE, \h28),
    Timer(7, FALSE, FALSE, \h29), Timer(8, FALSE, FALSE, \h2A), Timer(9, FALSE, FALSE, \h2B),
    Timer(10, TRUE, FALSE, \h8A), Timer(11, FALSE, FALSE, \hD8), Timer(12, FALSE, FALSE, \hA8),
    Timer(13, FALSE, FALSE, \hC0),
    \* kEemTimer_11
    Timer(0, TRUE, TRUE, 10), Timer(1, TRUE, FALSE, \h91), Timer(2, TRUE, FALSE, \h8E),
    Timer(3, TRUE, FALSE, \h8F), Timer(4, TRUE, FALSE, \h9D), Timer(6, FALSE, FALSE, \h28),
    Timer(7, FALSE, FALSE, \h29), Timer(10, TRUE, FALSE, \h8A), Timer(11, FALSE, FALSE, \hD8),
    Timer(12, FALSE, FALSE, \hA8), Timer(13, FALSE, FALSE, \hC0)
>>

TimersFrom_12 == <<
    \* kEemTimer_12
    Timer(0, TRUE, TRUE, 10), Timer(1, TRUE, FALSE, \h91), Timer(2, TRUE, FALSE, \h8E),
    Timer(3, TRUE, FALSE, \h9D), Timer(6, FALSE, FALSE, \h28), Timer(7, FALSE, FALSE, \h29),
    Timer(10, TRUE, FALSE, \h8A), Timer(11, FALSE, FALSE, \hD8),
    \* kEemTimer_13
    Timer(0, TRUE, TRUE, 10), Timer(1, TRUE, FALSE, \h91), Timer(2, TRUE, FALSE, \h8E),
    Timer(3, TRUE, FALSE, \h9D), Timer(6, FALSE, FALSE, \h28), Timer(7, FALSE, FALSE, \h29),
    Timer(8, FALSE, FALSE, \h2A), Timer(9, FALSE, FALSE, \h2B), Timer(10, TRUE, FALSE, \h8A),
    Timer(11, FALSE, FALSE, \hD8),
    \* kEemTimer_14
    Timer(0, TRUE, TRUE, 10), Timer(1, TRUE, FALSE, \h91), Timer(2, TRUE, FALSE, \h8E),
    Timer(3, TRUE, FALSE, \h8F), Timer(4, TRUE, FALSE, \h9D), Timer(5, FALSE, FALSE, \h40),
    Timer(6, FALSE, FALSE, \h28), Timer(7, FALSE, FALSE, \h29), Timer(8, FALSE, FALSE, \h2A),
    Timer(9, FALSE, FALSE, \h2B), Timer(10, TRUE, FALSE, \h8A), Timer(11, FALSE, FALSE, \hD8),
    Timer(12, FALSE, FALSE, \hA8),
    \* kEemTimer_15
    Timer(0, TRUE, TRUE, 10), Timer(1, TRUE, FALSE, \h91), Timer(2, TRUE, FALSE, \h8E),
    Timer(3, TRUE, FALSE, \h8F), Timer(4, TRUE, FALSE, \h9D), Timer(5, FALSE, FALSE, \h40),
    Timer(6, FALSE, FALSE, \h28), Timer(7, FALSE, FALSE, \h29), Timer(8, FALSE, FALSE, \h2A),
    Timer(9, FALSE, FALSE, \h2B), Timer(10, TRUE, FALSE, \h8A), Timer(12, FALSE, FALSE, \hA8),
    \* kEemTimer_16
    Timer(0, TRUE, TRUE, 10), Timer(1, TRUE, FALSE, \h91), Timer(2, TRUE, FALSE, \h8E),
    Timer(3, TRUE, FALSE, \h8F), Timer(4, TRUE, FALSE, \h9D), Timer(5, FALSE, FALSE, \h40),
    Timer(6, FALSE, FALSE, \h28), Timer(7, FALSE, FALSE, \h29), Timer(8, FALSE, FALSE, \h2A),
    Timer(9, FALSE, FALSE, \h2B), Timer(10, TRUE, FALSE, \h8A), Timer(11, FALSE, FALSE, \hD6),
    Timer(12, FALSE, FALSE, \hA8),
    \* kEemTimer_17
    Timer(0, TRUE, TRUE, 10), Timer(1, TRUE, FALSE, \h91), Timer(2, TRUE, FALSE, \h8E),
    Timer(3, TRUE, FALSE, \h8F), Timer(4, TRUE, FALSE, \h9D), Timer(5, FALSE, FALSE, \h40),
    Timer(6, FALSE, FALSE, \h28), Timer(7, FALSE, FALSE, \h29), Timer(10, TRUE, FALSE, \h8A),
    Timer(11, FALSE, FALSE, \hD6), Timer(12, FALSE, FALSE, \hA8),
    \* kEemTimer_18
    Timer(0, TRUE, TRUE, 10), Timer(1, TRUE, FALSE, \h91), Timer(2, TRUE, FALSE, \h8E),
    Timer(3, TRUE, FALSE, \h8F), Timer(4, TRUE, FALSE, \h9D), Timer(5, FALSE, FALSE, \h40),
    Timer(6, FALSE, FALSE, \h28), Timer(7, FALSE, FALSE, \h29), Timer(10, TRUE, FALSE, \h8A),
    Timer(11, FALSE, FALSE, \hD6),
    \* kEemTimer_19
    Timer(0, TRUE, TRUE, 10), Timer(1, TRUE, FALSE, \h91), Timer(2, TRUE, FALSE, \h8E),
    Timer(3, TRUE, FALSE, \h8F), Timer(4, TRUE, FALSE, \h9D), Timer(6, FALSE, FALSE, \h28),
    Timer(7, FALSE, FALSE, \h29), Timer(8, FALSE, FALSE, \h2A), Timer(9, FALSE, FALSE, \h2B),
    Timer(10, TRUE, FALSE, \h8A), Timer(11, FALSE, FALSE, \hD8), Timer(12, FALSE, FALSE, \hA8),
    Timer(14, FALSE, FALSE, \hB0),
    \* kEemTimer_20
    Timer(0, TRUE, TRUE, 10), Timer(1, TRUE, FALSE, \h91), Timer(2, TRUE, FALSE, \h8E),
    Timer(3, TRUE, FALSE, \h8F), Timer(4, TRUE, FALSE, \h9D), Timer(6, FALSE, FALSE, \h28),
    Timer(7, FALSE, FALSE, \h29), Timer(8, FALSE, FALSE, \h2A), Timer(9, FALSE, FALSE, \h2B),
    Timer(10, TRUE, FALSE, \h8A), Timer(11, FALSE, FALSE, \hD8), Timer(12, FALSE, FALSE, \hA8),
    Timer(13, FALSE, FALSE, \hC0), Timer(14, FALSE, FALSE, \hB0),
    \* kEemTimer_21
    Timer(0, TRUE, TRUE, 10), Timer(1, TRUE, FALSE, \h91), Timer(2, TRUE, FALSE, \h8E),
    Timer(3, TRUE, FALSE, \h8F), Timer(4, TRUE, FALSE, \h9D), Timer(6, FALSE, FALSE, \h28),
    Timer(7, FALSE, FALSE, \h29), Timer(10, TRUE, FALSE, \h8A), Timer(11, FALSE, FALSE, \hD8),
    Timer(12, FALSE, FALSE, \hA8), Timer(14, FALSE, FALSE, \hB0),
    \* kEemTimer_22
    Timer(0, TRUE, TRUE, 10), Timer(1, TRUE, FALSE, \h91), Timer(2, TRUE, FALSE, \h8E),
    Timer(3, TRUE, FALSE, \h8F), Timer(4, TRUE, FALSE, \h9D), Timer(5, FALSE, FALSE, \h40),
    Timer(6, FALSE, FALSE, \h28), Timer(7, FALSE, FALSE, \h29), Timer(10, TRUE, FALSE, \h8A),
    Timer(11, FALSE, FALSE, \hD8), Timer(12, FALSE, FALSE, \hA8), Timer(13, FALSE, FALSE, \hC0),
    Timer(14, FALSE, FALSE, \hB0)
>>

TimersFrom_23 == <<
    \* kEemTimer_23
    Timer(0, TRUE, TRUE, 10), Timer(1, TRUE, FALSE, \h91), Timer(2, TRUE, FALSE, \h8E),
    Timer(3, TRUE, FALSE, \h8F), Timer(4, TRUE, FALSE, \h9D), Timer(5, FALSE, FALSE, \h40),
    Timer(6, FALSE, FALSE, \h28), Timer(7, FALSE, FALSE, \h29), Timer(10, TRUE, FALSE, \h8A),
    Timer(11, FALSE, FALSE, \hD8), Timer(12, FALSE, FALSE, \hA8), Timer(13, FALSE, FALSE, \hC0),
    \* kEemTimer_24
    Timer(0, TRUE, TRUE, 10), Timer(1, TRUE, FALSE, \h91), Timer(2, TRUE, FALSE, \h8E),
    Timer(3, TRUE, FALSE, \h8F), Timer(4, TRUE, FALSE, \h9D), Timer(5, FALSE, FALSE, \h40),
    Timer(6, FALSE, FALSE, \h28), Timer(7, FALSE, FALSE, \h29), Timer(10, TRUE, FALSE, \h8A),
    Timer(11, FALSE, FALSE, \hD8), Timer(12, FALSE, FALSE, \hA8),
    \* kEemTimer_25
    Timer(0, TRUE, TRUE, 10), Timer(1, TRUE, FALSE, \h91), Timer(2, TRUE, FALSE, \h8E),
    Timer(3, TRUE, FALSE, \h8F), Timer(4, TRUE, FALSE, \h9D), Timer(5, FALSE, FALSE, \h40),
    Timer(6, FALSE, FALSE, \h28), Timer(7, FALSE, FALSE, \h29), Timer(10, TRUE, FALSE, \h8A),
    Timer(11, FALSE, FALSE, \hD8), Timer(12, FALSE, FALSE, \hA8), Timer(14, FALSE, FALSE, \hB0),
    \* kEemTimer_26
    Timer(0, TRUE, TRUE, 10), Timer(1, TRUE, FALSE, \h91), Timer(2, TRUE, FALSE, \h8E),
    Timer(3, TRUE, FALSE, \h8F), Timer(4, TRUE, FALSE, \h9D), Timer(5, FALSE, FALSE, \h40),
    Timer(6, FALSE, FALSE, \h28), Timer(7, FALSE, FALSE, \h29), Timer(10, TRUE, FALSE, \h8A),
    Timer(12, FALSE, FALSE, \hA8),
    \* kEemTimer_27
    Timer(0, TRUE, TRUE, 10), Timer(1, TRUE, FALSE, \h91), Timer(2, TRUE, FALSE, \h8E),
    Timer(3, TRUE, FALSE, \h8F), Timer(4, TRUE, FALSE, \h9D), Timer(5, FALSE, FALSE, \h40),
    Timer(6, FALSE, FALSE, \h28), Timer(7, FALSE, FALSE, \h29), Timer(10, TRUE, FALSE, \h8A),
    Timer(12, FALSE, FALSE, \hA8), Timer(14, FALSE, FALSE, \hB0),
    \* kEemTimer_28
    Timer(0, TRUE, TRUE, 10), Timer(1, TRUE, FALSE, \h8D), Timer(2, TRUE, FALSE, \h8C),
    Timer(3, TRUE, FALSE, \h8B), Timer(4, TRUE, FALSE, \h8E), Timer(7, FALSE, FALSE, \h2C),
    Timer(8, FALSE, FALSE, \h2D), Timer(9, FALSE, FALSE, \h30), Timer(10, TRUE, FALSE, \h8A),
    Timer(11, FALSE, FALSE, \hD6), Timer(12, FALSE, FALSE, \hD5),
    \* kEemTimer_29
    Timer(0, TRUE, TRUE, 10), Timer(1, TRUE, FALSE, \h8D), Timer(2, TRUE, FALSE, \h8C),
    Timer(3, TRUE, FALSE, \h8B), Timer(4, TRUE, FALSE, \h8E), Timer(5, FALSE, FALSE, \hA8),
    Timer(6, FALSE, FALSE, \h31), Timer(7, FALSE, FALSE, \h2C), Timer(8, FALSE, FALSE, \h2D),
    Timer(9, FALSE, FALSE, \h30), Timer(10, TRUE, FALSE, \h8A), Timer(11, FALSE, FALSE, \hD6),
    Timer(12, FALSE, FALSE, \hD5), Timer(13, FALSE, FALSE, \h2E), Timer(14, FALSE, FALSE, \h2F),
    Timer(15, TRUE, FALSE, \h60),
    \* kEemTimer_30
    Timer(0, TRUE, TRUE, 10), Timer(1, TRUE, FALSE, \h8D), Timer(2, TRUE, FALSE, \h8C),
    Timer(3, TRUE, FALSE, \h8B), Timer(4, TRUE, FALSE, \h8E), Timer(5, FALSE, FALSE, \hA8),
    Timer(6, FALSE, FALSE, \h31), Timer(7, FALSE, FALSE, \h2C), Timer(8, FALSE, FALSE, \h2D),
    Timer(9, FALSE, FALSE, \h30), Timer(10, TRUE, FALSE, \h8A), Timer(11, FALSE, FALSE, \hD6),
    Timer(12, FALSE, FALSE, \hD5), Timer(13, FALSE, FALSE, \h2E), Timer(14, FALSE, FALSE, \h2F),
    \* kEemTimer_31
    Timer(0, TRUE, TRUE, 10), Timer(1, TRUE, FALSE, \h91), Timer(2, TRUE, FALSE, \h8E),
    Timer(3, TRUE, FALSE, \h8F), Timer(4, TRUE, FALSE, \h9D), Timer(6, FALSE, FALSE, \h28),
    Timer(7, FALSE, FALSE, \h29), Timer(8, FALSE, FALSE, \h2A), Timer(9, FALSE, FALSE, \h2B),
    Timer(10, TRUE, FALSE, \h8A), Timer(12, FALSE, FALSE, \hA8), Timer(13, FALSE, FALSE, \hC0),
    Timer(14, FALSE, FALSE, \hB0),
    \* kEemTimer_32
    Timer(0, TRUE, TRUE, 10), Timer(1, TRUE, FALSE, \h98), Timer(2, TRUE, FALSE, \h97),
    Timer(3, FALSE, FALSE, \hA8), Timer(6, FALSE, FALSE, \h2C), Timer(8, FALSE, FALSE, \h30),
    Timer(10, TRUE, FALSE, \h8A), Timer(11, FALSE, FALSE, \hD6), Timer(15, FALSE, FALSE, \h50),
    \* kEemTimer_33
    Timer(0, TRUE, TRUE, 10), Timer(2, TRUE, FALSE, \h97), Timer(3, FALSE, FALSE, \hA8),
    Timer(6, FALSE, FALSE, \h2C), Timer(10, TRUE, FALSE, \h8A), Timer(11, FALSE, FALSE, \hD6),
    Timer(15, FALSE, FALSE, \h50),
    \* kEemTimer_34
    Timer(0, TRUE, TRUE, 10), Timer(1, TRUE, FALSE, \h8F), Timer(2, TRUE, FALSE, \h8E),
    Timer(6, FALSE, FALSE, \h2C), Timer(8, FALSE, FALSE, \h30), Timer(10, TRUE, FALSE, \h8A),
    Timer(11, FALSE, FALSE, \hD6), Timer(14, FALSE, FALSE, \hB0), Timer(15, FALSE, FALSE, \h50)
>>

TimersFrom_35 == <<
    \* kEemTimer_35
    Timer(0, TRUE, TRUE, 10), Timer(1, TRUE, FALSE, \h8F), Timer(2, TRUE, FALSE, \h8E),
    Timer(3, TRUE, FALSE, \h8C), Timer(4, TRUE, FALSE, \h8B), Timer(6, FALSE, FALSE, \h2C),
    Timer(7, FALSE, FALSE, \h2D), Timer(8, FALSE, FALSE, \h30), Timer(10, TRUE, FALSE, \h8A),
    Timer(11, FALSE, FALSE, \hD6), Timer(14, FALSE, FALSE, \hB7), Timer(15, FALSE, FALSE, \h50),
    \* kEemTimer_36
    Timer(0, TRUE, TRUE, 10), Timer(1, TRUE, FALSE, \h8F), Timer(2, TRUE, FALSE, \h8E),
    Timer(7, FALSE, FALSE, \h2C), Timer(8, FALSE, FALSE, \h30), Timer(10, TRUE, FALSE, \h8A),
    Timer(11, FALSE, FALSE, \hD6), Timer(14, FALSE, FALSE, \hB7), Timer(15, FALSE, FALSE, \h50),
    \* kEemTimer_37
    Timer(0, TRUE, TRUE, 10), Timer(1, TRUE, FALSE, \h8F), Timer(2, TRUE, FALSE, \h8E),
    Timer(6, FALSE, FALSE, \h2C), Timer(8, FALSE, FALSE, \h30), Timer(10, TRUE, FALSE, \h8A),
    Timer(11, FALSE, FALSE, \hD6), Timer(15, FALSE, FALSE, \h50),
    \* kEemTimer_38
    Timer(0, TRUE, TRUE, 10), Timer(1, TRUE, FALSE, \h8F), Timer(2, TRUE, FALSE, \h8E),
    Timer(3, TRUE, FALSE, \h99), Timer(4, TRUE, FALSE, \h98), Timer(5, TRUE, FALSE, \h97),
    Timer(6, FALSE, FALSE, \h2C), Timer(7, FALSE, FALSE, \h2D), Timer(8, FALSE, FALSE, \h30),
    Timer(10, TRUE, FALSE, \h8A), Timer(11, FALSE, FALSE, \hD6), Timer(12, FALSE, FALSE, \hA8),
    \* kEemTimer_39
    Timer(0, TRUE, TRUE, 10), Timer(1, TRUE, FALSE, \h8F), Timer(2, TRUE, FALSE, \h8E),
    Timer(3, TRUE, FALSE, \h99), Timer(4, TRUE, FALSE, \h98), Timer(5, TRUE, FALSE, \h97),
    Timer(6, FALSE, FALSE, \h2C), Timer(7, FALSE, FALSE, \h2D), Timer(8, FALSE, FALSE, \h30),
    Timer(10, TRUE, FALSE, \h8A), Timer(12, FALSE, FALSE, \hA8),
    \* kEemTimer_40
    Timer(0, TRUE, TRUE, 10), Timer(1, TRUE, FALSE, \h8F), Timer(2, TRUE, FALSE, \h8E),
    Timer(5, TRUE, FALSE, \h97), Timer(6, FALSE, FALSE, \h2C), Timer(8, FALSE, FALSE, \h30),
    Timer(10, TRUE, FALSE, \h8A), Timer(11, FALSE, FALSE, \hD6), Timer(12, FALSE, FALSE, \hA8),
    \* kEemTimer_41
    Timer(0, TRUE, TRUE, 10), Timer(1, TRUE, FALSE, \h8F), Timer(2, TRUE, FALSE, \h8E),
    Timer(5, TRUE, FALSE, \h97), Timer(6, FALSE, FALSE, \h2C), Timer(8, FALSE, FALSE, \h30),
    Timer(10, TRUE, FALSE, \h8A), Timer(12, FALSE, FALSE, \hA8),
    \* kEemTimer_42
    Timer(0, TRUE, TRUE, 10), Timer(1, TRUE, FALSE, \h8D), Timer(2, TRUE, FALSE, \h8C),
    Timer(3, TRUE, FALSE, \h8B), Timer(4, TRUE, FALSE, \h8F), Timer(5, TRUE, FALSE, \h8E),
    Timer(6, TRUE, FALSE, \h9D), Timer(7, FALSE, FALSE, \h2C), Timer(8, FALSE, FALSE, \h2E),
    Timer(9, FALSE, FALSE, \h2D), Timer(10, FALSE, FALSE, \h31), Timer(11, FALSE, FALSE, \h30),
    Timer(12, TRUE, FALSE, \h8A), Timer(13, FALSE, FALSE, \hA8), Timer(14, FALSE, FALSE, \hD8),
    Timer(15, FALSE, FALSE, \h50), Timer(28, TRUE, FALSE, \h60), Timer(31, FALSE, FALSE, \h2F),
    \* kEemTimer_43
    Timer(0, TRUE, TRUE, 10), Timer(1, TRUE, FALSE, \h8D), Timer(2, TRUE, FALSE, \h8C),
    Timer(3, TRUE, FALSE, \h8B), Timer(4, TRUE, FALSE, \h8F), Timer(5, TRUE, FALSE, \h8E),
    Timer(6, TRUE, FALSE, \h9D), Timer(7, FALSE, FALSE, \h2C), Timer(8, FALSE, FALSE, \h2E),
    Timer(9, FALSE, FALSE, \h2D), Timer(10, FALSE, FALSE, \h31), Timer(11, FALSE, FALSE, \h30),
    Timer(12, TRUE, FALSE, \h8A), Timer(13, FALSE, FALSE, \hA8), Timer(14, FALSE, FALSE, \hD8),
    Timer(15, FALSE, FALSE, \h50), Timer(28, TRUE, FALSE, \h60), Timer(29, FALSE, FALSE, \h33),
    Timer(30, FALSE, FALSE, \h32), Timer(31, FALSE, FALSE, \h2F),
    \* kEemTimer_44
    Timer(0, TRUE, TRUE, 10), Timer(1, TRUE, FALSE, \h8E), Timer(2, TRUE, FALSE, \h8F),
    Timer(3, TRUE, FALSE, \h8B), Timer(4, TRUE, FALSE, \h8C), Timer(5, TRUE, FALSE, \h9D),
    Timer(6, FALSE, FALSE, \h2C), Timer(7, FALSE, FALSE, \h2D), Timer(8, FALSE, FALSE, \h30),
    Timer(10, TRUE, FALSE, \h8A), Timer(11, FALSE, FALSE, \hD8), Timer(12, FALSE, FALSE, \hA8),
    \* kEemTimer_45
    Timer(0, TRUE, TRUE, 10), Timer(1, TRUE, FALSE, \h91), Timer(2, TRUE, FALSE, \h8B),
    Timer(3, TRUE, FALSE, \h8F), Timer(4, TRUE, FALSE, \h8C), Timer(4, TRUE, FALSE, \h8E),
    Timer(5, TRUE, FALSE, \h9D), Timer(6, FALSE, FALSE, \h2C), Timer(7, FALSE, FALSE, \h2D),
    Timer(8, FALSE, FALSE, \h30), Timer(9, FALSE, FALSE, \h31), Timer(10, TRUE, FALSE, \h8A),
    Timer(11, FALSE, FALSE, \hD8), Timer(12, FALSE, FALSE, \hA8), Timer(14, FALSE, FALSE, \hB0),
    Timer(15, FALSE, FALSE, \h50)
>>

TimersFrom_46 == <<
    \* kEemTimer_46
    Timer(0, TRUE, TRUE, 10), Timer(1, TRUE, FALSE, \h91), Timer(2, TRUE, FALSE, \h8B),
    Timer(3, TRUE, FALSE, \h8F), Timer(4, TRUE, FALSE, \h8C), Timer(4, TRUE, FALSE, \h8E),
    Timer(5, TRUE, FALSE, \h9D), Timer(6, FALSE, FALSE, \h2C), Timer(7, FALSE, FALSE, \h2D),
    Timer(8, FALSE, FALSE, \h30), Timer(9, FALSE, FALSE, \h31), Timer(10, TRUE, FALSE, \h8A),
    Timer(11, FALSE, FALSE, \hD8), Timer(12, FALSE, FALSE, \hA8), Timer(15, FALSE, FALSE, \h50),
    \* kEemTimer_47
    Timer(2, TRUE, TRUE, 10), Timer(3, TRUE, FALSE, \h9D), Timer(4, TRUE, FALSE, \h99),
    Timer(5, TRUE, FALSE, \h98), Timer(6, TRUE, FALSE, \h97), Timer(7, TRUE, FALSE, \h8A),
    Timer(8, FALSE, FALSE, \h31), Timer(9, FALSE, FALSE, \h30), Timer(10, FALSE, FALSE, \h2D),
    Timer(11, FALSE, FALSE, \h2C), Timer(12, FALSE, FALSE, \hAA), Timer(13, FALSE, FALSE, \hA9),
    Timer(14, FALSE, FALSE, \h50), Timer(15, FALSE, FALSE, \hD8),
    \* kEemTimer_48
    Timer(1, TRUE, TRUE, 10), Timer(2, TRUE, FALSE, \h9D), Timer(3, TRUE, FALSE, \h62),
    Timer(4, TRUE, FALSE, \h90), Timer(5, TRUE, FALSE, \h8F), Timer(6, TRUE, FALSE, \h8E),
    Timer(7, TRUE, FALSE, \h8A), Timer(8, FALSE, FALSE, \h31), Timer(9, FALSE, FALSE, \h30),
    Timer(10, FALSE, FALSE, \h2D), Timer(11, FALSE, FALSE, \h2C), Timer(12, FALSE, FALSE, \hA9),
    Timer(13, FALSE, FALSE, \h50), Timer(14, FALSE, FALSE, \hB7), Timer(15, FALSE, FALSE, \hD6),
    Timer(0, FALSE, TRUE, 0)
>>

\* The last record is a guard: the start of a group that is none.
all_eem_timers ==
       TimersFrom_0 \o TimersFrom_12 \o TimersFrom_23 \o TimersFrom_35
    \o TimersFrom_46
    \o <<Timer(0, FALSE, TRUE, 0)>>

-----------------------------------------------------------------------------
(* all_part_codes: what TestDB identifies each part by. *)

PartInfo(name, ver, sub, rev, fab, self, cfg, fuse) ==
    [part |-> name,
     code |-> [ver |-> ver, sub |-> sub, rev |-> rev, fab |-> fab, self |-> self,
               cfg |-> cfg, fuse |-> fuse]]

CodesFrom_CC430F5123 == <<
    PartInfo("CC430F5123", \h813C, 0, \hFF, \hFF, \hFFFF, \hFF, \h1F),
    PartInfo("CC430F5125", \h813B, 0, \hFF, \hFF, \hFFFF, \hFF, \h1F),
    PartInfo("CC430F5133", \h3351, 0, \hFF, \hFF, \hFFFF, \hFF, \h1F),
    PartInfo("CC430F5135", \h3551, 0, \hFF, \hFF, \hFFFF, \hFF, \h1F),
    PartInfo("CC430F5137", \h3751, 0, \hFF, \hFF, \hFFFF, \hFF, \h1F),
    PartInfo("CC430F5143", \h813A, 0, \hFF, \hFF, \hFFFF, \hFF, \h1F),
    PartInfo("CC430F5145", \h8139, 0, \hFF, \hFF, \hFFFF, \hFF, \h1F),
    PartInfo("CC430F5147", \h8138, 0, \hFF, \hFF, \hFFFF, \hFF, \h1F),
    PartInfo("CC430F6125", \h2561, 0, \hFF, \hFF, \hFFFF, \hFF, \h1F),
    PartInfo("CC430F6126", \h2661, 0, \hFF, \hFF, \hFFFF, \hFF, \h1F),
    PartInfo("CC430F6127", \h2761, 0, \hFF, \hFF, \hFFFF, \hFF, \h1F),
    PartInfo("CC430F6135", \h3561, 0, \hFF, \hFF, \hFFFF, \hFF, \h1F),
    PartInfo("CC430F6137", \h3761, 0, \hFF, \hFF, \hFFFF, \hFF, \h1F),
    PartInfo("CC430F6143", \h8137, 0, \hFF, \hFF, \hFFFF, \hFF, \h1F),
    PartInfo("CC430F6145", \h8136, 0, \hFF, \hFF, \hFFFF, \hFF, \h1F),
    PartInfo("CC430F6147", \h8135, 0, \hFF, \hFF, \hFFFF, \hFF, \h1F),
    PartInfo("F20x1_G2x0x_G2x1x", \h01F2, \hFFFF, \hFF, \hFF, \hFFFF, 1, \h1F),
    PartInfo("F20x2_G2x2x_G2x3x", \h01F2, \hFFFF, \hFF, \hFF, \hFFFF, 2, \h1F),
    PartInfo("MSP430AFE220", \h5302, \hFFFF, \hFF, \hFF, \hFFFF, \hFF, 15),
    PartInfo("MSP430AFE221", \h5302, \hFFFF, \hFF, \hFF, \hFFFF, \hFF, 11),
    PartInfo("MSP430AFE222", \h5302, \hFFFF, \hFF, \hFF, \hFFFF, \hFF, 7),
    PartInfo("MSP430AFE223", \h5302, \hFFFF, \hFF, \hFF, \hFFFF, \hFF, 3),
    PartInfo("MSP430AFE230", \h5302, \hFFFF, \hFF, \hFF, \hFFFF, \hFF, 14),
    PartInfo("MSP430AFE231", \h5302, \hFFFF, \hFF, \hFF, \hFFFF, \hFF, 10),
    PartInfo("MSP430AFE232", \h5302, \hFFFF, \hFF, \hFF, \hFFFF, \hFF, 6),
    PartInfo("MSP430AFE233", \h5302, \hFFFF, \hFF, \hFF, \hFFFF, \hFF, 2),
    PartInfo("MSP430AFE250", \h5302, \hFFFF, \hFF, \hFF, \hFFFF, \hFF, 12),
    PartInfo("MSP430AFE251", \h5302, \hFFFF, \hFF, \hFF, \hFFFF, \hFF, 8),
    PartInfo("MSP430AFE252", \h5302, \hFFFF, \hFF, \hFF, \hFFFF, \hFF, 4),
    PartInfo("MSP430AFE253", \h5302, \hFFFF, \hFF, \hFF, \hFFFF, \hFF, 0),
    PartInfo("MSP430C092", \hC092, 0, \hFF, \hFF, \hFFFF, \hFF, \h1F),
    PartInfo("MSP430F11x1", \h12F1, \hFFFF, \h10, \h40, 0, \hFF, \h1F),
    PartInfo("MSP430F11x1A", \h12F1, \hFFFF, \h13, \hFF, 0, \hFF, \h1F),
    PartInfo("MSP430F11x2", \h3211, \hFFFF, \hFF, \hFF, \hFFFF, \hFF, \h1F),
    PartInfo("MSP430F12x", \h23F1, \hFFFF, \hFF, \hFF, \hFFFF, \hFF, \h1F),
    PartInfo("MSP430F12x2_F11x2", \h3212, \hFFFF, \hFF, \hFF, \hFFFF, \hFF, \h1F),
    PartInfo("MSP430F133", \h49F1, 0, \hFF, \hFF, \hFFFF, \hFF, 5),
    PartInfo("MSP430F135", \h49F1, 0, \hFF, \hFF, \hFFFF, \hFF, 4),
    PartInfo("MSP430F147", \h49F1, 0, \hFF, \hFF, \hFFFF, \hFF, 2),
    PartInfo("MSP430F148", \h49F1, 0, \hFF, \hFF, \hFFFF, \hFF, 1),
    PartInfo("MSP430F149", \h49F1, 0, \hFF, \hFF, \hFFFF, \hFF, 0),
    PartInfo("MSP430F155", \h69F1, 0, \hFF, \hFF, \hFFFF, \hFF, 6),
    PartInfo("MSP430F156", \h69F1, 0, \hFF, \hFF, \hFFFF, \hFF, 5),
    PartInfo("MSP430F157", \h69F1, 0, \hFF, \hFF, \hFFFF, \hFF, 4),
    PartInfo("MSP430F1610", \h6CF1, 0, \hFF, \hFF, \hFFFF, \hFF, 3),
    PartInfo("MSP430F1611", \h6CF1, 0, \hFF, \hFF, \hFFFF, \hFF, 0),
    PartInfo("MSP430F1612", \h6CF1, 0, \hFF, \hFF, \hFFFF, \hFF, 6),
    PartInfo("MSP430F167", \h69F1, 0, \hFF, \hFF, \hFFFF, \hFF, 2),
    PartInfo("MSP430F168", \h69F1, 0, \hFF, \hFF, \hFFFF, \hFF, 1),
    PartInfo("MSP430F169_0", \h69F1, 0, \hFF, \hFF, \hFFFF, \hFF, 0),
    PartInfo("MSP430F169_1", \h6CF1, 0, \hFF, \hFF, \hFFFF, \hFF, 7),
    PartInfo("MSP430F20x3", \h01F2, \hFFFF, \hFF, \hFF, \hFFFF, 3, \h1F),
    PartInfo("MSP430F2112", \h13F2, \hFFFF, \hFF, \hFF, \hFFFF, 2, 2),
    PartInfo("MSP430F2122", \h13F2, \hFFFF, \hFF, \hFF, \hFFFF, 2, 1),
    PartInfo("MSP430F2132", \h13F2, \hFFFF, \hFF, \hFF, \hFFFF, 2, 0),
    PartInfo("MSP430F21x1", \h13F2, \hFFFF, \hFF, \hFF, \hFFFF, 1, \h1F),
    PartInfo("MSP430F2232_G2444", \h27F2, \hFFFF, \hFF, \hFF, \hFFFF, \hFF, 6),
    PartInfo("MSP430F2234", \h27F2, \hFFFF, \hFF, \hFF, \hFFFF, \hFF, 2),
    PartInfo("MSP430F2252_G2544", \h27F2, \hFFFF, \hFF, \hFF, \hFFFF, \hFF, 5),
    PartInfo("MSP430F2254", \h27F2, \hFFFF, \hFF, \hFF, \hFFFF, \hFF, 1),
    PartInfo("MSP430F2272_G2744", \h27F2, \hFFFF, \hFF, \hFF, \hFFFF, \hFF, 4),
    PartInfo("MSP430F2274", \h27F2, \hFFFF, \hFF, \hFF, \hFFFF, \hFF, 0),
    PartInfo("MSP430F233", \h49F2, \hFFFF, \hFF, \hFF, \hFFFF, \hFF, 7),
    PartInfo("MSP430F2330", \h37F2, \hFFFF, \hFF, \hFF, \hFFFF, \hFF, 2),
    PartInfo("MSP430F235", \h49F2, \hFFFF, \hFF, \hFF, \hFFFF, \hFF, 3),
    PartInfo("MSP430F2350", \h37F2, \hFFFF, \hFF, \hFF, \hFFFF, \hFF, 1),
    PartInfo("MSP430F2370", \h37F2, \hFFFF, \hFF, \hFF, \hFFFF, \hFF, 0),
    PartInfo("MSP430F2410", \h49F2, \hFFFF, \hFF, \hFF, \hFFFF, \hFF, 8),
    PartInfo("MSP430F2416", \h6FF2, \hFFFF, \hFF, \hFF, \hFFFF, \hFF, 7),
    PartInfo("MSP430F2417", \h6FF2, \hFFFF, \hFF, \hFF, \hFFFF, \hFF, 6),
    PartInfo("MSP430F2418", \h6FF2, \hFFFF, \hFF, \hFF, \hFFFF, \hFF, 5),
    PartInfo("MSP430F2419", \h6FF2, \hFFFF, \hFF, \hFF, \hFFFF, \hFF, 4),
    PartInfo("MSP430F247", \h49F2, \hFFFF, \hFF, \hFF, \hFFFF, \hFF, 2),
    PartInfo("MSP430F2471", \h49F2, \hFFFF, \hFF, \hFF, \hFFFF, \hFF, 6),
    PartInfo("MSP430F248", \h49F2, \hFFFF, \hFF, \hFF, \hFFFF, \hFF, 1),
    PartInfo("MSP430F2481", \h49F2, \hFFFF, \hFF, \hFF, \hFFFF, \hFF, 5),
    PartInfo("MSP430F249", \h49F2, \hFFFF, \hFF, \hFF, \hFFFF, \hFF, 0),
    PartInfo("MSP430F2491", \h49F2, \hFFFF, \hFF, \hFF, \hFFFF, \hFF, 4),
    PartInfo("MSP430F2616", \h6FF2, \hFFFF, \hFF, \hFF, \hFFFF, \hFF, 3),
    PartInfo("MSP430F2617", \h6FF2, \hFFFF, \hFF, \hFF, \hFFFF, \hFF, 2),
    PartInfo("MSP430F2618", \h6FF2, \hFFFF, \hFF, \hFF, \hFFFF, \hFF, 1),
    PartInfo("MSP430F2619", \h6FF2, \hFFFF, \hFF, \hFF, \hFFFF, \hFF, 0),
    PartInfo("MSP430F4132", \h5241, \hFFFF, \hFF, \hFF, \hFFFF, \hFF, 1),
    PartInfo("MSP430F4152", \h5241, \hFFFF, \hFF, \hFF, \hFFFF, \hFF, 0),
    PartInfo("MSP430F41x", \h13F4, \hFFFF, 2, \h40, \hFFFF, \hFF, \h1F),
    PartInfo("MSP430F423", \h27F4, \hFFFF, \hFF, \hFF, \hFFFF, \h45, 6),
    PartInfo("MSP430F4230", \h27F4, \hFFFF, \hFF, \hFF, \hFFFF, \h47, 6),
    PartInfo("MSP430F423A", \h7A42, \hFFFF, \hFF, \hFF, \hFFFF, \h45, 6),
    PartInfo("MSP430F425", \h27F4, \hFFFF, \hFF, \hFF, \hFFFF, \h45, 5),
    PartInfo("MSP430F4250", \h27F4, \hFFFF, \hFF, \hFF, \hFFFF, \h47, 5),
    PartInfo("MSP430F425A", \h7A42, \hFFFF, \hFF, \hFF, \hFFFF, \h45, 5),
    PartInfo("MSP430F427", \h27F4, \hFFFF, \hFF, \hFF, \hFFFF, \h45, 4),
    PartInfo("MSP430F427A", \h7A42, \hFFFF, \hFF, \hFF, \hFFFF, \h45, 4),
    PartInfo("MSP430F42x0", \h27F4, \hFFFF, \hFF, \hFF, \hFFFF, \h47, 4),
    PartInfo("MSP430F43x_0", \h37F4, \hFFFF, \hFF, \hFF, \hFFFF, \hFF, \h1F),
    PartInfo("MSP430F43x_1", \h49F4, \hFFFF, \hFF, \hFF, \hFFFF, \hFF, 2),
    PartInfo("MSP430F44x", \h49F4, \hFFFF, \hFF, \hFF, \hFFFF, 0, 0),
    PartInfo("MSP430F47126", \h7FF4, \hFFFF, \hFF, \hFF, \hFFFF, \hFF, 13),
    PartInfo("MSP430F47127", \h7FF4, \hFFFF, \hFF, \hFF, \hFFFF, \hFF, 12),
    PartInfo("MSP430F47163", \h7FF4, \hFFFF, \hFF, \hFF, \hFFFF, \hFF, 11),
    PartInfo("MSP430F47166", \h7FF4, \hFFFF, \hFF, \hFF, \hFFFF, \hFF, 7),
    PartInfo("MSP430F47167", \h7FF4, \hFFFF, \hFF, \hFF, \hFFFF, \hFF, 3),
    PartInfo("MSP430F47173", \h7FF4, \hFFFF, \hFF, \hFF, \hFFFF, \hFF, 10),
    PartInfo("MSP430F47176", \h7FF4, \hFFFF, \hFF, \hFF, \hFFFF, \hFF, 6),
    PartInfo("MSP430F47177", \h7FF4, \hFFFF, \hFF, \hFF, \hFFFF, \hFF, 2),
    PartInfo("MSP430F47183", \h7FF4, \hFFFF, \hFF, \hFF, \hFFFF, \hFF, 9),
    PartInfo("MSP430F47186", \h7FF4, \hFFFF, \hFF, \hFF, \hFFFF, \hFF, 5),
    PartInfo("MSP430F47187", \h7FF4, \hFFFF, \hFF, \hFF, \hFFFF, \hFF, 1),
    PartInfo("MSP430F47193", \h7FF4, \hFFFF, \hFF, \hFF, \hFFFF, \hFF, 8),
    PartInfo("MSP430F47196", \h7FF4, \hFFFF, \hFF, \hFF, \hFFFF, \hFF, 4),
    PartInfo("MSP430F47197", \h7FF4, \hFFFF, \hFF, \hFF, \hFFFF, \hFF, 0),
    PartInfo("MSP430F477", \h79F4, \hFFFF, \hFF, \hFF, \hFFFF, \h47, 6),
    PartInfo("MSP430F478", \h79F4, \hFFFF, \hFF, \hFF, \hFFFF, \h47, 5),
    PartInfo("MSP430F4783", \h49F4, \hFFFF, \hFF, \hFF, \hFFFF, 2, 7),
    PartInfo("MSP430F4784", \h49F4, \hFFFF, \hFF, \hFF, \hFFFF, 2, 3),
    PartInfo("MSP430F479", \h79F4, \hFFFF, \hFF, \hFF, \hFFFF, \h47, 4),
    PartInfo("MSP430F4793", \h49F4, \hFFFF, \hFF, \hFF, \hFFFF, 2, 4),
    PartInfo("MSP430F4794", \h49F4, \hFFFF, \hFF, \hFF, \hFFFF, 2, 0),
    PartInfo("MSP430F5131", \h8026, 0, \hFF, \hFF, \hFFFF, \hFF, \h1F),
    PartInfo("MSP430F5132", \h8028, 0, \hFF, \hFF, \hFFFF, \hFF, \h1F),
    PartInfo("MSP430F5151", \h802A, 0, \hFF, \hFF, \hFFFF, \hFF, \h1F),
    PartInfo("MSP430F5152", \h802C, 0, \hFF, \hFF, \hFFFF, \hFF, \h1F),
    PartInfo("MSP430F5171", \h802E, 0, \hFF, \hFF, \hFFFF, \hFF, \h1F),
    PartInfo("MSP430F5172", \h8030, 0, \hFF, \hFF, \hFFFF, \hFF, \h1F),
    PartInfo("MSP430F5212", \h8140, 0, \hFF, \hFF, \hFFFF, \hFF, \h1F),
    PartInfo("MSP430F5213", \h8141, 0, \hFF, \hFF, \hFFFF, \hFF, \h1F),
    PartInfo("MSP430F5214", \h8142, 0, \hFF, \hFF, \hFFFF, \hFF, \h1F),
    PartInfo("MSP430F5217", \h8145, 0, \hFF, \hFF, \hFFFF, \hFF, \h1F),
    PartInfo("MSP430F5218", \h8146, 0, \hFF, \hFF, \hFFFF, \hFF, \h1F),
    PartInfo("MSP430F5219", \h8147, 0, \hFF, \hFF, \hFFFF, \hFF, \h1F),
    PartInfo("MSP430F5222", \h814A, 0, \hFF, \hFF, \hFFFF, \hFF, \h1F),
    PartInfo("MSP430F5223", \h814B, 0, \hFF, \hFF, \hFFFF, \hFF, \h1F),
    PartInfo("MSP430F5224", \h814C, 0, \hFF, \hFF, \hFFFF, \hFF, \h1F),
    PartInfo("MSP430F5227", \h814F, 0, \hFF, \hFF, \hFFFF, \hFF, \h1F),
    PartInfo("MSP430F5228", \h8150, 0, \hFF, \hFF, \hFFFF, \hFF, \h1F),
    PartInfo("MSP430F5229", \h8151, 0, \hFF, \hFF, \hFFFF, \hFF, \h1F),
    PartInfo("MSP430F5232", \h81FA, 0, \hFF, \hFF, \hFFFF, \hFF, \h1F),
    PartInfo("MSP430F5234", \h81F9, 0, \hFF, \hFF, \hFFFF, \hFF, \h1F),
    PartInfo("MSP430F5237", \h81F8, 0, \hFF, \hFF, \hFFFF, \hFF, \h1F),
    PartInfo("MSP430F5239", \h81F7, 0, \hFF, \hFF, \hFFFF, \hFF, \h1F)
>>

CodesFrom_MSP430F5242 == <<
    PartInfo("MSP430F5242", \h81F6, 0, \hFF, \hFF, \hFFFF, \hFF, \h1F),
    PartInfo("MSP430F5244", \h81F5, 0, \hFF, \hFF, \hFFFF, \hFF, \h1F),
    PartInfo("MSP430F5247", \h81F4, 0, \hFF, \hFF, \hFFFF, \hFF, \h1F),
    PartInfo("MSP430F5249", \h81F3, 0, \hFF, \hFF, \hFFFF, \hFF, \h1F),
    PartInfo("MSP430F5252", \h8206, 0, \hFF, \hFF, \hFFFF, \hFF, \h1F),
    PartInfo("MSP430F5253", \h8205, 0, \hFF, \hFF, \hFFFF, \hFF, \h1F),
    PartInfo("MSP430F5254", \h8204, 0, \hFF, \hFF, \hFFFF, \hFF, \h1F),
    PartInfo("MSP430F5255", \h8203, 0, \hFF, \hFF, \hFFFF, \hFF, \h1F),
    PartInfo("MSP430F5256", \h8202, 0, \hFF, \hFF, \hFFFF, \hFF, \h1F),
    PartInfo("MSP430F5257", \h8201, 0, \hFF, \hFF, \hFFFF, \hFF, \h1F),
    PartInfo("MSP430F5258", \h8200, 0, \hFF, \hFF, \hFFFF, \hFF, \h1F),
    PartInfo("MSP430F5259", \h81FF, 0, \hFF, \hFF, \hFFFF, \hFF, \h1F),
    PartInfo("MSP430F5304", \h8112, 0, \hFF, \hFF, \hFFFF, \hFF, \h1F),
    PartInfo("MSP430F5308", \h8113, 0, \hFF, \hFF, \hFFFF, \hFF, \h1F),
    PartInfo("MSP430F5309", \h8114, 0, \hFF, \hFF, \hFFFF, \hFF, \h1F),
    PartInfo("MSP430F5310", \h8115, 0, \hFF, \hFF, \hFFFF, \hFF, \h1F),
    PartInfo("MSP430F5324", \h8116, 0, \hFF, \hFF, \hFFFF, \hFF, \h1F),
    PartInfo("MSP430F5325", \h8117, 0, \hFF, \hFF, \hFFFF, \hFF, \h1F),
    PartInfo("MSP430F5326", \h8118, 0, \hFF, \hFF, \hFFFF, \hFF, \h1F),
    PartInfo("MSP430F5327", \h8119, 0, \hFF, \hFF, \hFFFF, \hFF, \h1F),
    PartInfo("MSP430F5328", \h811A, 0, \hFF, \hFF, \hFFFF, \hFF, \h1F),
    PartInfo("MSP430F5329", \h811B, 0, \hFF, \hFF, \hFFFF, \hFF, \h1F),
    PartInfo("MSP430F5333", \h8125, 0, \hFF, \hFF, \hFFFF, \hFF, \h1F),
    PartInfo("MSP430F5335", \h8127, 0, \hFF, \hFF, \hFFFF, \hFF, \h1F),
    PartInfo("MSP430F5336", \h8128, 0, \hFF, \hFF, \hFFFF, \hFF, \h1F),
    PartInfo("MSP430F5338", \h812A, 0, \hFF, \hFF, \hFFFF, \hFF, \h1F),
    PartInfo("MSP430F5340", \h811C, 0, \hFF, \hFF, \hFFFF, \hFF, \h1F),
    PartInfo("MSP430F5341", \h811D, 0, \hFF, \hFF, \hFFFF, \hFF, \h1F),
    PartInfo("MSP430F5342", \h811E, 0, \hFF, \hFF, \hFFFF, \hFF, \h1F),
    PartInfo("MSP430F5358", \h8133, 0, \hFF, \hFF, \hFFFF, \hFF, \h1F),
    PartInfo("MSP430F5359", \h8132, 0, \hFF, \hFF, \hFFFF, \hFF, \h1F),
    PartInfo("MSP430F5418", \h1854, 0, \hFF, \hFF, \hFFFF, \hFF, \h1F),
    PartInfo("MSP430F5418A", \h8000, 0, \hFF, \hFF, \hFFFF, \hFF, \h1F),
    PartInfo("MSP430F5419", \h1954, 0, \hFF, \hFF, \hFFFF, \hFF, \h1F),
    PartInfo("MSP430F5419A", \h8001, 0, \hFF, \hFF, \hFFFF, \hFF, \h1F),
    PartInfo("MSP430F5435", \h3554, 0, \hFF, \hFF, \hFFFF, \hFF, \h1F),
    PartInfo("MSP430F5435A", \h8002, 0, \hFF, \hFF, \hFFFF, \hFF, \h1F),
    PartInfo("MSP430F5436", \h3654, 0, \hFF, \hFF, \hFFFF, \hFF, \h1F),
    PartInfo("MSP430F5436A", \h8003, 0, \hFF, \hFF, \hFFFF, \hFF, \h1F),
    PartInfo("MSP430F5437", \h3754, 0, \hFF, \hFF, \hFFFF, \hFF, \h1F),
    PartInfo("MSP430F5437A", \h8004, 0, \hFF, \hFF, \hFFFF, \hFF, \h1F),
    PartInfo("MSP430F5438", \h3854, 0, \hFF, \hFF, \hFFFF, \hFF, \h1F),
    PartInfo("MSP430F5438A_0", \h8005, 0, \hFF, \hFF, \hFFFF, \hFF, \h1F),
    PartInfo("MSP430F5438A_1", \h8005, 1, \hFF, \hFF, \hFFFF, \hFF, \h1F),
    PartInfo("MSP430F5500", \h803B, 0, \hFF, \hFF, \hFFFF, \hFF, \h1F),
    PartInfo("MSP430F5501", \h8032, 0, \hFF, \hFF, \hFFFF, \hFF, \h1F),
    PartInfo("MSP430F5502", \h8033, 0, \hFF, \hFF, \hFFFF, \hFF, \h1F),
    PartInfo("MSP430F5503", \h8034, 0, \hFF, \hFF, \hFFFF, \hFF, \h1F),
    PartInfo("MSP430F5504", \h8035, 0, \hFF, \hFF, \hFFFF, \hFF, \h1F),
    PartInfo("MSP430F5505", \h8036, 0, \hFF, \hFF, \hFFFF, \hFF, \h1F),
    PartInfo("MSP430F5506", \h8037, 0, \hFF, \hFF, \hFFFF, \hFF, \h1F),
    PartInfo("MSP430F5507", \h8038, 0, \hFF, \hFF, \hFFFF, \hFF, \h1F),
    PartInfo("MSP430F5508", \h8039, 0, \hFF, \hFF, \hFFFF, \hFF, \h1F),
    PartInfo("MSP430F5509", \h803A, 0, \hFF, \hFF, \hFFFF, \hFF, \h1F),
    PartInfo("MSP430F5510", \h8031, 0, \hFF, \hFF, \hFFFF, \hFF, \h1F),
    PartInfo("MSP430F5513", \h1355, 0, \hFF, \hFF, \hFFFF, \hFF, \h1F),
    PartInfo("MSP430F5514", \h1455, 0, \hFF, \hFF, \hFFFF, \hFF, \h1F),
    PartInfo("MSP430F5515", \h1555, 0, \hFF, \hFF, \hFFFF, \hFF, \h1F),
    PartInfo("MSP430F5517", \h1755, 0, \hFF, \hFF, \hFFFF, \hFF, \h1F),
    PartInfo("MSP430F5519", \h1955, 0, \hFF, \hFF, \hFFFF, \hFF, \h1F),
    PartInfo("MSP430F5521", \h2155, 0, \hFF, \hFF, \hFFFF, \hFF, \h1F),
    PartInfo("MSP430F5522", \h2255, 0, \hFF, \hFF, \hFFFF, \hFF, \h1F),
    PartInfo("MSP430F5524", \h2455, 0, \hFF, \hFF, \hFFFF, \hFF, \h1F),
    PartInfo("MSP430F5525", \h2555, 0, \hFF, \hFF, \hFFFF, \hFF, \h1F),
    PartInfo("MSP430F5526", \h2655, 0, \hFF, \hFF, \hFFFF, \hFF, \h1F),
    PartInfo("MSP430F5527", \h2755, 0, \hFF, \hFF, \hFFFF, \hFF, \h1F),
    PartInfo("MSP430F5528", \h2855, 0, \hFF, \hFF, \hFFFF, \hFF, \h1F),
    PartInfo("MSP430F5529", \h2955, 0, \hFF, \hFF, \hFFFF, \hFF, \h1F),
    PartInfo("MSP430F5630", \h803C, 0, \hFF, \hFF, \hFFFF, \hFF, \h1F),
    PartInfo("MSP430F5631", \h803E, 0, \hFF, \hFF, \hFFFF, \hFF, \h1F),
    PartInfo("MSP430F5632", \h8040, 0, \hFF, \hFF, \hFFFF, \hFF, \h1F),
    PartInfo("MSP430F5633", \h8042, 0, \hFF, \hFF, \hFFFF, \hFF, \h1F),
    PartInfo("MSP430F5634", \h8044, 0, \hFF, \hFF, \hFFFF, \hFF, \h1F),
    PartInfo("MSP430F5635", \h800E, 0, \hFF, \hFF, \hFFFF, \hFF, \h1F),
    PartInfo("MSP430F5636", \h8010, 0, \hFF, \hFF, \hFFFF, \hFF, \h1F),
    PartInfo("MSP430F5637", \h8012, 0, \hFF, \hFF, \hFFFF, \hFF, \h1F),
    PartInfo("MSP430F5638", \h8014, 0, \hFF, \hFF, \hFFFF, \hFF, \h1F),
    PartInfo("MSP430F5658", \h8131, 0, \hFF, \hFF, \hFFFF, \hFF, \h1F),
    PartInfo("MSP430F5659", \h8130, 0, \hFF, \hFF, \hFFFF, \hFF, \h1F),
    PartInfo("MSP430F6433", \h811F, 0, \hFF, \hFF, \hFFFF, \hFF, \h1F),
    PartInfo("MSP430F6435", \h8121, 0, \hFF, \hFF, \hFFFF, \hFF, \h1F),
    PartInfo("MSP430F6436", \h8122, 0, \hFF, \hFF, \hFFFF, \hFF, \h1F),
    PartInfo("MSP430F6438", \h8124, 0, \hFF, \hFF, \hFFFF, \hFF, \h1F),
    PartInfo("MSP430F6458", \h812E, 0, \hFF, \hFF, \hFFFF, \hFF, \h1F),
    PartInfo("MSP430F6459", \h812D, 0, \hFF, \hFF, \hFFFF, \hFF, \h1F),
    PartInfo("MSP430F6630", \h8046, 0, \hFF, \hFF, \hFFFF, \hFF, \h1F),
    PartInfo("MSP430F6631", \h8048, 0, \hFF, \hFF, \hFFFF, \hFF, \h1F),
    PartInfo("MSP430F6632", \h804A, 0, \hFF, \hFF, \hFFFF, \hFF, \h1F),
    PartInfo("MSP430F6633", \h804C, 0, \hFF, \hFF, \hFFFF, \hFF, \h1F),
    PartInfo("MSP430F6634", \h804E, 0, \hFF, \hFF, \hFFFF, \hFF, \h1F),
    PartInfo("MSP430F6635", \h8016, 0, \hFF, \hFF, \hFFFF, \hFF, \h1F),
    PartInfo("MSP430F6636", \h8018, 0, \hFF, \hFF, \hFFFF, \hFF, \h1F),
    PartInfo("MSP430F6637", \h801A, 0, \hFF, \hFF, \hFFFF, \hFF, \h1F),
    PartInfo("MSP430F6638", \h801C, 0, \hFF, \hFF, \hFFFF, \hFF, \h1F),
    PartInfo("MSP430F6658", \h812C, 0, \hFF, \hFF, \hFFFF, \hFF, \h1F),
    PartInfo("MSP430F6659", \h812B, 0, \hFF, \hFF, \hFFFF, \hFF, \h1F),
    PartInfo("MSP430F6720", \h8058, 0, \hFF, \hFF, \hFFFF, \hFF, \h1F),
    PartInfo("MSP430F6720A", \h8276, 0, \hFF, \hFF, \hFFFF, \hFF, \h1F),
    PartInfo("MSP430F6721", \h8059, 0, \hFF, \hFF, \hFFFF, \hFF, \h1F),
    PartInfo("MSP430F6721A", \h8277, 0, \hFF, \hFF, \hFFFF, \hFF, \h1F),
    PartInfo("MSP430F6722", \h8060, 0, \hFF, \hFF, \hFFFF, \hFF, \h1F),
    PartInfo("MSP430F6723", \h8061, 0, \hFF, \hFF, \hFFFF, \hFF, \h1F),
    PartInfo("MSP430F6723A", \h8279, 0, \hFF, \hFF, \hFFFF, \hFF, \h1F),
    PartInfo("MSP430F6724", \h816D, 0, \hFF, \hFF, \hFFFF, \hFF, \h1F),
    PartInfo("MSP430F6724A", \h827A, 0, \hFF, \hFF, \hFFFF, \hFF, \h1F),
    PartInfo("MSP430F6725", \h816E, 0, \hFF, \hFF, \hFFFF, \hFF, \h1F),
    PartInfo("MSP430F6725A", \h827B, 0, \hFF, \hFF, \hFFFF, \hFF, \h1F),
    PartInfo("MSP430F6726", \h816F, 0, \hFF, \hFF, \hFFFF, \hFF, \h1F),
    PartInfo("MSP430F6726A", \h827C, 0, \hFF, \hFF, \hFFFF, \hFF, \h1F),
    PartInfo("MSP430F6730", \h8062, 0, \hFF, \hFF, \hFFFF, \hFF, \h1F),
    PartInfo("MSP430F6730A", \h8280, 0, \hFF, \hFF, \hFFFF, \hFF, \h1F),
    PartInfo("MSP430F6731", \h8063, 0, \hFF, \hFF, \hFFFF, \hFF, \h1F),
    PartInfo("MSP430F6731A", \h8281, 0, \hFF, \hFF, \hFFFF, \hFF, \h1F),
    PartInfo("MSP430F6732", \h8064, 0, \hFF, \hFF, \hFFFF, \hFF, \h1F),
    PartInfo("MSP430F6733", \h8065, 0, \hFF, \hFF, \hFFFF, \hFF, \h1F),
    PartInfo("MSP430F6733A", \h8283, 0, \hFF, \hFF, \hFFFF, \hFF, \h1F),
    PartInfo("MSP430F6734", \h816A, 0, \hFF, \hFF, \hFFFF, \hFF, \h1F),
    PartInfo("MSP430F6734A", \h8284, 0, \hFF, \hFF, \hFFFF, \hFF, \h1F),
    PartInfo("MSP430F6735", \h816B, 0, \hFF, \hFF, \hFFFF, \hFF, \h1F),
    PartInfo("MSP430F6735A", \h8285, 0, \hFF, \hFF, \hFFFF, \hFF, \h1F),
    PartInfo("MSP430F6736", \h816C, 0, \hFF, \hFF, \hFFFF, \hFF, \h1F),
    PartInfo("MSP430F6736A", \h8286, 0, \hFF, \hFF, \hFFFF, \hFF, \h1F),
    PartInfo("MSP430F6745", \h8188, 0, \hFF, \hFF, \hFFFF, \hFF, \h1F),
    PartInfo("MSP430F67451", \h8197, 0, \hFF, \hFF, \hFFFF, \hFF, \h1F),
    PartInfo("MSP430F67451A", \h8225, 0, \hFF, \hFF, \hFFFF, \hFF, \h1F),
    PartInfo("MSP430F6745A", \h8216, 0, \hFF, \hFF, \hFFFF, \hFF, \h1F),
    PartInfo("MSP430F6746", \h8189, 0, \hFF, \hFF, \hFFFF, \hFF, \h1F),
    PartInfo("MSP430F67461", \h8198, 0, \hFF, \hFF, \hFFFF, \hFF, \h1F),
    PartInfo("MSP430F67461A", \h8226, 0, \hFF, \hFF, \hFFFF, \hFF, \h1F),
    PartInfo("MSP430F6746A", \h8217, 0, \hFF, \hFF, \hFFFF, \hFF, \h1F),
    PartInfo("MSP430F6747", \h818A, 0, \hFF, \hFF, \hFFFF, \hFF, \h1F),
    PartInfo("MSP430F67471", \h8199, 0, \hFF, \hFF, \hFFFF, \hFF, \h1F),
    PartInfo("MSP430F67471A", \h8227, 0, \hFF, \hFF, \hFFFF, \hFF, \h1F),
    PartInfo("MSP430F6747A", \h8218, 0, \hFF, \hFF, \hFFFF, \hFF, \h1F),
    PartInfo("MSP430F6748", \h818B, 0, \hFF, \hFF, \hFFFF, \hFF, \h1F),
    PartInfo("MSP430F67481", \h819A, 0, \hFF, \hFF, \hFFFF, \hFF, \h1F),
    PartInfo("MSP430F67481A", \h8228, 0, \hFF, \hFF, \hFFFF, \hFF, \h1F),
    PartInfo("MSP430F6748A", \h8219, 0, \hFF, \hFF, \hFFFF, \hFF, \h1F),
    PartInfo("MSP430F6749", \h818C, 0, \hFF, \hFF, \hFFFF, \hFF, \h1F),
    PartInfo("MSP430F67491", \h819B, 0, \hFF, \hFF, \hFFFF, \hFF, \h1F)
>>

CodesFrom_MSP430F67491A == <<
    PartInfo("MSP430F67491A", \h8229, 0, \hFF, \hFF, \hFFFF, \hFF, \h1F),
    PartInfo("MSP430F6749A", \h821A, 0, \hFF, \hFF, \hFFFF, \hFF, \h1F),
    PartInfo("MSP430F67621", \h8238, 0, \hFF, \hFF, \hFFFF, \hFF, \h1F),
    PartInfo("MSP430F67621A", \h8287, 0, \hFF, \hFF, \hFFFF, \hFF, \h1F),
    PartInfo("MSP430F67641", \h8239, 0, \hFF, \hFF, \hFFFF, \hFF, \h1F),
    PartInfo("MSP430F67641A", \h8288, 0, \hFF, \hFF, \hFFFF, \hFF, \h1F),
    PartInfo("MSP430F6765", \h818D, 0, \hFF, \hFF, \hFFFF, \hFF, \h1F),
    PartInfo("MSP430F67651", \h819C, 0, \hFF, \hFF, \hFFFF, \hFF, \h1F),
    PartInfo("MSP430F67651A", \h822A, 0, \hFF, \hFF, \hFFFF, \hFF, \h1F),
    PartInfo("MSP430F6765A", \h821B, 0, \hFF, \hFF, \hFFFF, \hFF, \h1F),
    PartInfo("MSP430F6766", \h818E, 0, \hFF, \hFF, \hFFFF, \hFF, \h1F),
    PartInfo("MSP430F67661", \h819D, 0, \hFF, \hFF, \hFFFF, \hFF, \h1F),
    PartInfo("MSP430F67661A", \h822B, 0, \hFF, \hFF, \hFFFF, \hFF, \h1F),
    PartInfo("MSP430F6766A", \h821C, 0, \hFF, \hFF, \hFFFF, \hFF, \h1F),
    PartInfo("MSP430F6767", \h818F, 0, \hFF, \hFF, \hFFFF, \hFF, \h1F),
    PartInfo("MSP430F67671", \h819E, 0, \hFF, \hFF, \hFFFF, \hFF, \h1F),
    PartInfo("MSP430F67671A", \h822C, 0, \hFF, \hFF, \hFFFF, \hFF, \h1F),
    PartInfo("MSP430F6767A", \h821D, 0, \hFF, \hFF, \hFFFF, \hFF, \h1F),
    PartInfo("MSP430F6768", \h8190, 0, \hFF, \hFF, \hFFFF, \hFF, \h1F),
    PartInfo("MSP430F67681", \h819F, 0, \hFF, \hFF, \hFFFF, \hFF, \h1F),
    PartInfo("MSP430F67681A", \h822D, 0, \hFF, \hFF, \hFFFF, \hFF, \h1F),
    PartInfo("MSP430F6768A", \h821E, 0, \hFF, \hFF, \hFFFF, \hFF, \h1F),
    PartInfo("MSP430F6769", \h8191, 0, \hFF, \hFF, \hFFFF, \hFF, \h1F),
    PartInfo("MSP430F67691", \h81A0, 0, \hFF, \hFF, \hFFFF, \hFF, \h1F),
    PartInfo("MSP430F67691A", \h822E, 0, \hFF, \hFF, \hFFFF, \hFF, \h1F),
    PartInfo("MSP430F6769A", \h821F, 0, \hFF, \hFF, \hFFFF, \hFF, \h1F),
    PartInfo("MSP430F6775", \h8192, 0, \hFF, \hFF, \hFFFF, \hFF, \h1F),
    PartInfo("MSP430F67751", \h81A1, 0, \hFF, \hFF, \hFFFF, \hFF, \h1F),
    PartInfo("MSP430F67751A", \h822F, 0, \hFF, \hFF, \hFFFF, \hFF, \h1F),
    PartInfo("MSP430F6775A", \h8220, 0, \hFF, \hFF, \hFFFF, \hFF, \h1F),
    PartInfo("MSP430F6776", \h8193, 0, \hFF, \hFF, \hFFFF, \hFF, \h1F),
    PartInfo("MSP430F67761", \h81A2, 0, \hFF, \hFF, \hFFFF, \hFF, \h1F),
    PartInfo("MSP430F67761A", \h8230, 0, \hFF, \hFF, \hFFFF, \hFF, \h1F),
    PartInfo("MSP430F6776A", \h8221, 0, \hFF, \hFF, \hFFFF, \hFF, \h1F),
    PartInfo("MSP430F6777", \h8194, 0, \hFF, \hFF, \hFFFF, \hFF, \h1F),
    PartInfo("MSP430F67771", \h81A3, 0, \hFF, \hFF, \hFFFF, \hFF, \h1F),
    PartInfo("MSP430F67771A", \h8231, 0, \hFF, \hFF, \hFFFF, \hFF, \h1F),
    PartInfo("MSP430F6777A", \h8222, 0, \hFF, \hFF, \hFFFF, \hFF, \h1F),
    PartInfo("MSP430F6778", \h8195, 0, \hFF, \hFF, \hFFFF, \hFF, \h1F),
    PartInfo("MSP430F67781", \h81A4, 0, \hFF, \hFF, \hFFFF, \hFF, \h1F),
    PartInfo("MSP430F67781A", \h8232, 0, \hFF, \hFF, \hFFFF, \hFF, \h1F),
    PartInfo("MSP430F6778A", \h8223, 0, \hFF, \hFF, \hFFFF, \hFF, \h1F),
    PartInfo("MSP430F6779", \h8196, 0, \hFF, \hFF, \hFFFF, \hFF, \h1F),
    PartInfo("MSP430F67791", \h81A5, 0, \hFF, \hFF, \hFFFF, \hFF, \h1F),
    PartInfo("MSP430F67791A", \h8233, 0, \hFF, \hFF, \hFFFF, \hFF, \h1F),
    PartInfo("MSP430F6779A", \h8224, 0, \hFF, \hFF, \hFFFF, \hFF, \h1F),
    PartInfo("MSP430FE423", \h27F4, \hFFFF, \hFF, \hFF, \hFFFF, \h45, 2),
    PartInfo("MSP430FE4232", \h5242, \hFFFF, \hFF, \hFF, \hFFFF, \h45, \h12),
    PartInfo("MSP430FE423A", \h7A42, \hFFFF, \hFF, \hFF, \hFFFF, \h45, 2),
    PartInfo("MSP430FE425", \h27F4, \hFFFF, \hFF, \hFF, \hFFFF, \h45, 1),
    PartInfo("MSP430FE425A", \h7A42, \hFFFF, \hFF, \hFF, \hFFFF, \h45, 1),
    PartInfo("MSP430FE427", \h27F4, \hFFFF, \hFF, \hFF, \hFFFF, \h45, 0),
    PartInfo("MSP430FE4272", \h5242, \hFFFF, \hFF, \hFF, \hFFFF, \h45, \h10),
    PartInfo("MSP430FE427A", \h7A42, \hFFFF, \hFF, \hFF, \hFFFF, \h45, 0),
    PartInfo("MSP430FE42x2", \h5242, \hFFFF, \hFF, \hFF, \hFFFF, \h45, \h11),
    PartInfo("MSP430FG4250", \h27F4, \hFFFF, \hFF, \hFF, \hFFFF, \h47, 1),
    PartInfo("MSP430FG42x0", \h27F4, \hFFFF, \hFF, \hFF, \hFFFF, \h47, 0),
    PartInfo("MSP430FG43x_F43x", \h39F4, \hFFFF, \hFF, \hFF, \hFFFF, \h47, \h1F),
    PartInfo("MSP430FG4616", \h6FF4, \hFFFF, \hFF, \hFF, \hFFFF, \h47, 3),
    PartInfo("MSP430FG4617", \h6FF4, \hFFFF, \hFF, \hFF, \hFFFF, \h47, 2),
    PartInfo("MSP430FG4618", \h6FF4, \hFFFF, \hFF, \hFF, \hFFFF, \h47, 1),
    PartInfo("MSP430FG4619", \h6FF4, \hFFFF, \hFF, \hFF, \hFFFF, \h47, 0),
    PartInfo("MSP430FG477", \h79F4, \hFFFF, \hFF, \hFF, \hFFFF, \h47, 2),
    PartInfo("MSP430FG478", \h79F4, \hFFFF, \hFF, \hFF, \hFFFF, \h47, 1),
    PartInfo("MSP430FG479", \h79F4, \hFFFF, \hFF, \hFF, \hFFFF, \h47, 0),
    PartInfo("MSP430FG6425", \h8237, 0, \hFF, \hFF, \hFFFF, \hFF, \h1F),
    PartInfo("MSP430FG6426", \h8236, 0, \hFF, \hFF, \hFFFF, \hFF, \h1F),
    PartInfo("MSP430FG6625", \h8235, 0, \hFF, \hFF, \hFFFF, \hFF, \h1F),
    PartInfo("MSP430FG6626", \h8234, 0, \hFF, \hFF, \hFFFF, \hFF, \h1F),
    PartInfo("MSP430FR2000", \h8321, \hFFFF, \hFF, \hFF, \hFFFF, \hFF, \h1F),
    PartInfo("MSP430FR2032", \h8278, 0, \hFF, \hFF, \hFFFF, \hFF, \h1F),
    PartInfo("MSP430FR2033", \h8275, 0, \hFF, \hFF, \hFFFF, \hFF, \h1F),
    PartInfo("MSP430FR2100", \h8320, \hFFFF, \hFF, \hFF, \hFFFF, \hFF, \h1F),
    PartInfo("MSP430FR2110", \h82FB, \hFFFF, \hFF, \hFF, \hFFFF, \hFF, \h1F),
    PartInfo("MSP430FR2111", \h82FA, \hFFFF, \hFF, \hFF, \hFFFF, \hFF, \h1F),
    PartInfo("MSP430FR2153", \h831D, 0, 0, \hFF, \hFFFF, \hFF, \h1F),
    PartInfo("MSP430FR2155", \h831E, 0, 0, \hFF, \hFFFF, \hFF, \h1F),
    PartInfo("MSP430FR2310", \h82F1, \hFFFF, \hFF, \hFF, \hFFFF, \hFF, \h1F),
    PartInfo("MSP430FR2311", \h82F0, \hFFFF, \hFF, \hFF, \hFFFF, \hFF, \h1F),
    PartInfo("MSP430FR2353", \h830D, 0, 0, \hFF, \hFFFF, \hFF, \h1F),
    PartInfo("MSP430FR2355", \h830C, 0, 0, \hFF, \hFFFF, \hFF, \h1F),
    PartInfo("MSP430FR2422", \h8311, 0, \hFF, \hFF, \hFFFF, \hFF, \h1F),
    PartInfo("MSP430FR2433", \h8240, 0, \hFF, \hFF, \hFFFF, \hFF, \h1F),
    PartInfo("MSP430FR2475", \h832B, 0, 0, \hFF, \hFFFF, \hFF, \h1F),
    PartInfo("MSP430FR2476", \h832A, 0, 0, \hFF, \hFFFF, \hFF, \h1F),
    PartInfo("MSP430FR2512", \h831C, 0, \hFF, \hFF, \hFFFF, \hFF, \h1F),
    PartInfo("MSP430FR2522", \h8310, 0, \hFF, \hFF, \hFFFF, \hFF, \h1F),
    PartInfo("MSP430FR2532", \h823F, 0, \hFF, \hFF, \hFFFF, \hFF, \h1F),
    PartInfo("MSP430FR2533", \h823D, 0, \hFF, \hFF, \hFFFF, \hFF, \h1F),
    PartInfo("MSP430FR2632", \h823E, 0, \hFF, \hFF, \hFFFF, \hFF, \h1F),
    PartInfo("MSP430FR2633", \h823C, 0, \hFF, \hFF, \hFFFF, \hFF, \h1F),
    PartInfo("MSP430FR2672", \h8339, 0, 0, \hFF, \hFFFF, \hFF, \h1F),
    PartInfo("MSP430FR2673", \h8338, 0, 0, \hFF, \hFFFF, \hFF, \h1F),
    PartInfo("MSP430FR2675", \h8329, 0, 0, \hFF, \hFFFF, \hFF, \h1F),
    PartInfo("MSP430FR2676", \h8328, 0, 0, \hFF, \hFFFF, \hFF, \h1F),
    PartInfo("MSP430FR4131", \h81F2, 0, \hFF, \hFF, \hFFFF, \hFF, \h1F),
    PartInfo("MSP430FR4132", \h81F1, 0, \hFF, \hFF, \hFFFF, \hFF, \h1F),
    PartInfo("MSP430FR4133", \h81F0, 0, \hFF, \hFF, \hFFFF, \hFF, \h1F),
    PartInfo("MSP430FR5041", \h8318, 0, \h10, \hFF, \hFFFF, \hFF, \h1F),
    PartInfo("MSP430FR5043", \h8317, 0, \h10, \hFF, \hFFFF, \hFF, \h1F),
    PartInfo("MSP430FR50431", \h830F, 0, \h10, \hFF, \hFFFF, \hFF, \h1F),
    PartInfo("MSP430FR5720", \h8170, 0, \hFF, \hFF, \hFFFF, \hFF, \h1F),
    PartInfo("MSP430FR5721", \h8077, 0, \hFF, \hFF, \hFFFF, \hFF, \h1F),
    PartInfo("MSP430FR5722", \h8171, 0, \hFF, \hFF, \hFFFF, \hFF, \h1F),
    PartInfo("MSP430FR5723", \h8172, 0, \hFF, \hFF, \hFFFF, \hFF, \h1F),
    PartInfo("MSP430FR5724", \h8173, 0, \hFF, \hFF, \hFFFF, \hFF, \h1F),
    PartInfo("MSP430FR5725", \h8078, 0, \hFF, \hFF, \hFFFF, \hFF, \h1F),
    PartInfo("MSP430FR5726", \h8174, 0, \hFF, \hFF, \hFFFF, \hFF, \h1F),
    PartInfo("MSP430FR5727", \h8079, 0, \hFF, \hFF, \hFFFF, \hFF, \h1F),
    PartInfo("MSP430FR5728", \h807A, 0, \hFF, \hFF, \hFFFF, \hFF, \h1F),
    PartInfo("MSP430FR5729", \h807B, 0, \hFF, \hFF, \hFFFF, \hFF, \h1F),
    PartInfo("MSP430FR5730", \h807C, 0, \hFF, \hFF, \hFFFF, \hFF, \h1F),
    PartInfo("MSP430FR5731", \h807E, 0, \hFF, \hFF, \hFFFF, \hFF, \h1F),
    PartInfo("MSP430FR5732", \h8175, 0, \hFF, \hFF, \hFFFF, \hFF, \h1F),
    PartInfo("MSP430FR5733", \h807F, 0, \hFF, \hFF, \hFFFF, \hFF, \h1F),
    PartInfo("MSP430FR5734", \h8100, 0, \hFF, \hFF, \hFFFF, \hFF, \h1F),
    PartInfo("MSP430FR5735", \h8176, 0, \hFF, \hFF, \hFFFF, \hFF, \h1F),
    PartInfo("MSP430FR5736", \h8177, 0, \hFF, \hFF, \hFFFF, \hFF, \h1F),
    PartInfo("MSP430FR5737", \h8101, 0, \hFF, \hFF, \hFFFF, \hFF, \h1F),
    PartInfo("MSP430FR5738", \h8102, 0, \hFF, \hFF, \hFFFF, \hFF, \h1F),
    PartInfo("MSP430FR5739", \h8103, 0, \hFF, \hFF, \hFFFF, \hFF, \h1F),
    PartInfo("MSP430FR5847", \h8153, 0, \h21, \hFF, \hFFFF, \hFF, \h1F),
    PartInfo("MSP430FR5848", \h8154, 0, \h21, \hFF, \hFFFF, \hFF, \h1F),
    PartInfo("MSP430FR5849", \h8155, 0, \h21, \hFF, \hFFFF, \hFF, \h1F),
    PartInfo("MSP430FR5857", \h8157, 0, \h21, \hFF, \hFFFF, \hFF, \h1F),
    PartInfo("MSP430FR5858", \h8158, 0, \h21, \hFF, \hFFFF, \hFF, \h1F),
    PartInfo("MSP430FR5859", \h8159, 0, \h21, \hFF, \hFFFF, \hFF, \h1F),
    PartInfo("MSP430FR5867", \h815B, 0, \h21, \hFF, \hFFFF, \hFF, \h1F),
    PartInfo("MSP430FR5868", \h815C, 0, \h21, \hFF, \hFFFF, \hFF, \h1F),
    PartInfo("MSP430FR5869", \h815D, 0, \h21, \hFF, \hFFFF, \hFF, \h1F),
    PartInfo("MSP430FR5870", \h825E, 0, \hFF, \hFF, \hFFFF, \hFF, \h1F),
    PartInfo("MSP430FR5872", \h8260, 0, \hFF, \hFF, \hFFFF, \hFF, \h1F),
    PartInfo("MSP430FR5887", \h81C1, 0, \h21, \hFF, \hFFFF, \hFF, \h1F),
    PartInfo("MSP430FR5888", \h81C2, 0, \h21, \hFF, \hFFFF, \hFF, \h1F),
    PartInfo("MSP430FR5889", \h81C3, 0, \h21, \hFF, \hFFFF, \hFF, \h1F),
    PartInfo("MSP430FR5922_0", \h8261, 0, \hFF, \hFF, \hFFFF, \hFF, \h1F),
    PartInfo("MSP430FR5922_1", \h8262, 0, \hFF, \hFF, \hFFFF, \hFF, \h1F),
    PartInfo("MSP430FR5929", \h8187, 0, \h21, \hFF, \hFFFF, \hFF, \h1F),
    PartInfo("MSP430FR5947", \h815F, 0, \h21, \hFF, \hFFFF, \hFF, \h1F),
    PartInfo("MSP430FR5948", \h8160, 0, \h21, \hFF, \hFFFF, \hFF, \h1F)
>>

CodesFrom_MSP430FR5949 == <<
    PartInfo("MSP430FR5949", \h8161, 0, \h21, \hFF, \hFFFF, \hFF, \h1F),
    PartInfo("MSP430FR5957", \h8163, 0, \h21, \hFF, \hFFFF, \hFF, \h1F),
    PartInfo("MSP430FR5958", \h8164, 0, \h21, \hFF, \hFFFF, \hFF, \h1F),
    PartInfo("MSP430FR5959", \h8165, 0, \h21, \hFF, \hFFFF, \hFF, \h1F),
    PartInfo("MSP430FR5962", \h82A6, 0, \h10, \hFF, \hFFFF, \hFF, \h1F),
    PartInfo("MSP430FR5964", \h82A4, 0, \h10, \hFF, \hFFFF, \hFF, \h1F),
    PartInfo("MSP430FR5967", \h8167, 0, \h21, \hFF, \hFFFF, \hFF, \h1F),
    PartInfo("MSP430FR5968", \h8168, 0, \h21, \hFF, \hFFFF, \hFF, \h1F),
    PartInfo("MSP430FR5969", \h8169, 0, \h21, \hFF, \hFFFF, \hFF, \h1F),
    PartInfo("MSP430FR5970", \h825B, 0, \hFF, \hFF, \hFFFF, \hFF, \h1F),
    PartInfo("MSP430FR5972", \h825D, 0, \hFF, \hFF, \hFFFF, \hFF, \h1F),
    PartInfo("MSP430FR5986", \h81DF, 0, \h21, \hFF, \hFFFF, \hFF, \h1F),
    PartInfo("MSP430FR5987", \h81A9, 0, \h21, \hFF, \hFFFF, \hFF, \h1F),
    PartInfo("MSP430FR5988", \h81AA, 0, \h21, \hFF, \hFFFF, \hFF, \h1F),
    PartInfo("MSP430FR5989", \h81AB, 0, \h21, \hFF, \hFFFF, \hFF, \h1F),
    PartInfo("MSP430FR5992", \h82A3, 0, \h10, \hFF, \hFFFF, \hFF, \h1F),
    PartInfo("MSP430FR5994", \h82A1, 0, \h10, \hFF, \hFFFF, \hFF, \h1F),
    PartInfo("MSP430FR59941", \h82A2, 0, \h10, \hFF, \hFFFF, \hFF, \h1F),
    PartInfo("MSP430FR6005", \h832F, 0, 0, \hFF, \hFFFF, \hFF, \h1F),
    PartInfo("MSP430FR6007", \h832E, 0, 0, \hFF, \hFFFF, \hFF, \h1F),
    PartInfo("MSP430FR6035_0", \h82ED, 0, \h10, \hFF, \hFFFF, \hFF, \h1F),
    PartInfo("MSP430FR6035_1", \h82ED, 0, \h20, \hFF, \hFFFF, \hFF, \h1F),
    PartInfo("MSP430FR6037_0", \h82EC, 0, \h10, \hFF, \hFFFF, \hFF, \h1F),
    PartInfo("MSP430FR6037_1", \h82EC, 0, \h20, \hFF, \hFFFF, \hFF, \h1F),
    PartInfo("MSP430FR60371_0", \h82EF, 0, \h10, \hFF, \hFFFF, \hFF, \h1F),
    PartInfo("MSP430FR60371_1", \h82EF, 0, \h20, \hFF, \hFFFF, \hFF, \h1F),
    PartInfo("MSP430FR6041", \h8314, 0, \h10, \hFF, \hFFFF, \hFF, \h1F),
    PartInfo("MSP430FR6043", \h8312, 0, \h10, \hFF, \hFFFF, \hFF, \h1F),
    PartInfo("MSP430FR60431", \h831A, 0, \h10, \hFF, \hFFFF, \hFF, \h1F),
    PartInfo("MSP430FR6045_0", \h82EB, 0, \h10, \hFF, \hFFFF, \hFF, \h1F),
    PartInfo("MSP430FR6045_1", \h82EB, 0, \h20, \hFF, \hFFFF, \hFF, \h1F),
    PartInfo("MSP430FR6047_0", \h82E9, 0, \h10, \hFF, \hFFFF, \hFF, \h1F),
    PartInfo("MSP430FR6047_1", \h82EA, 0, \h10, \hFF, \hFFFF, \hFF, \h1F),
    PartInfo("MSP430FR6047_2", \h82EA, 0, \h20, \hFF, \hFFFF, \hFF, \h1F),
    PartInfo("MSP430FR60471_0", \h82EE, 0, \h10, \hFF, \hFFFF, \hFF, \h1F),
    PartInfo("MSP430FR60471_1", \h82EE, 0, \h20, \hFF, \hFFFF, \hFF, \h1F),
    PartInfo("MSP430FR6820_0", \h8255, 0, \hFF, \hFF, \hFFFF, \hFF, \h1F),
    PartInfo("MSP430FR6820_1", \h8256, 0, \hFF, \hFF, \hFFFF, \hFF, \h1F),
    PartInfo("MSP430FR6822_0", \h8259, 0, \hFF, \hFF, \hFFFF, \hFF, \h1F),
    PartInfo("MSP430FR6822_1", \h825A, 0, \hFF, \hFF, \hFFFF, \hFF, \h1F),
    PartInfo("MSP430FR6870", \h824C, 0, \hFF, \hFF, \hFFFF, \hFF, \h1F),
    PartInfo("MSP430FR6872", \h824E, 0, \hFF, \hFF, \hFFFF, \hFF, \h1F),
    PartInfo("MSP430FR6877", \h81C4, 0, \h21, \hFF, \hFFFF, \hFF, \h1F),
    PartInfo("MSP430FR6879", \h81C6, 0, \h21, \hFF, \hFFFF, \hFF, \h1F),
    PartInfo("MSP430FR6887", \h81BE, 0, \h21, \hFF, \hFFFF, \hFF, \h1F),
    PartInfo("MSP430FR6888", \h81BF, 0, \h21, \hFF, \hFFFF, \hFF, \h1F),
    PartInfo("MSP430FR6889", \h81C0, 0, \h21, \hFF, \hFFFF, \hFF, \h1F),
    PartInfo("MSP430FR6920_0", \h824F, 0, \hFF, \hFF, \hFFFF, \hFF, \h1F),
    PartInfo("MSP430FR6920_1", \h8250, 0, \hFF, \hFF, \hFFFF, \hFF, \h1F),
    PartInfo("MSP430FR6922_0", \h8253, 0, \hFF, \hFF, \hFFFF, \hFF, \h1F),
    PartInfo("MSP430FR6922_1", \h8254, 0, \hFF, \hFF, \hFFFF, \hFF, \h1F),
    PartInfo("MSP430FR6927", \h81B2, 0, \h21, \hFF, \hFFFF, \hFF, \h1F),
    PartInfo("MSP430FR6928", \h81B3, 0, \h21, \hFF, \hFFFF, \hFF, \h1F),
    PartInfo("MSP430FR6970", \h8249, 0, \hFF, \hFF, \hFFFF, \hFF, \h1F),
    PartInfo("MSP430FR6972", \h824B, 0, \hFF, \hFF, \hFFFF, \hFF, \h1F),
    PartInfo("MSP430FR6977", \h81AC, 0, \h21, \hFF, \hFFFF, \hFF, \h1F),
    PartInfo("MSP430FR6979", \h81AE, 0, \h21, \hFF, \hFFFF, \hFF, \h1F),
    PartInfo("MSP430FR6987", \h81A6, 0, \h21, \hFF, \hFFFF, \hFF, \h1F),
    PartInfo("MSP430FR6988", \h81A7, 0, \h21, \hFF, \hFFFF, \hFF, \h1F),
    PartInfo("MSP430FR6989", \h81A8, 0, \h21, \hFF, \hFFFF, \hFF, \h1F),
    PartInfo("MSP430FW429", \h29F4, \hFFFF, \hFF, \hFF, \hFFFF, \h57, \h1F),
    PartInfo("MSP430FW42x_F41x", \h27F4, \hFFFF, \hFF, \hFF, \hFFFF, \h57, \h1F),
    PartInfo("MSP430G2x55", \h5529, \hFFFF, \hFF, \hFF, \hFFFF, \hFF, \h1F),
    PartInfo("MSP430G2xx2", \h5224, \hFFFF, \hFF, \hFF, \hFFFF, \hFF, \h1F),
    PartInfo("MSP430G2xx3", \h5325, \hFFFF, \hFF, \hFF, \hFFFF, \hFF, \h1F),
    PartInfo("MSP430I204x_I203x_I202x", \h2040, \hFFFF, \hFF, \hFF, \hFFFF, \hFF, \h1F),
    PartInfo("MSP430L092", \hC092, 0, \hFF, \hFF, \hFFFF, \hFF, \h1F),
    PartInfo("MSP430SL5438A", \h81EE, 1, \hFF, \hFF, \hFFFF, \hFF, \h1F),
    PartInfo("MSP430TCH5E", \h5C25, \hFFFF, \hFF, \hFF, \hFFFF, \hFF, \h1F),
    PartInfo("RF430F5144", \h81E9, 0, \hFF, \hFF, \hFFFF, \hFF, \h1F),
    PartInfo("RF430F5155", \h81EA, 0, \hFF, \hFF, \hFFFF, \hFF, \h1F),
    PartInfo("RF430F5175", \h81EB, 0, \hFF, \hFF, \hFFFF, \hFF, \h1F),
    PartInfo("RF430FRL152H", \h81E7, \hFFFF, \hFF, \hFF, \hFFFF, \hFF, \h1F),
    PartInfo("RF430FRL153H", \h81FB, \hFFFF, \hFF, \hFF, \hFFFF, \hFF, \h1F),
    PartInfo("RF430FRL154H", \h81FC, \hFFFF, \hFF, \hFF, \hFFFF, \hFF, \h1F)
>>

all_part_codes == CodesFrom_CC430F5123 \o CodesFrom_MSP430F5242 \o CodesFrom_MSP430F67491A \o CodesFrom_MSP430FR5949
=============================================================================
