---------------------------- MODULE Characters ----------------------------
(***************************************************************************)
(* What the suggestion engine takes for the same letter                    *)
(* (jni/src/utils/char_utils.cpp): two tables over code points.            *)
(*                                                                         *)
(* The first pairs a capital with its small letter.  A row <<f, l, s, d>>  *)
(* stands for the capitals f, f + s, ..., l, each d below its small        *)
(* letter.  The table is searched by bisection, which needs its capitals   *)
(* in ascending order, and reaches no capital of plane one or above.       *)
(*                                                                         *)
(* The second gives the letter below an accent.  A row <<b, accented>>     *)
(* stands for the letters whose base is b; every other character below     *)
(* U+0500, and every one from there on, is its own base.  Most rows come   *)
(* from the Unicode data, some letters were moved by hand (U+0110, the     *)
(* capital of d with a stroke, to F).                                      *)
(***************************************************************************)
EXTENDS Integers

-----------------------------------------------------------------------------
(* SORTED_CHAR_MAP, by script.                                             *)

LatinCapitals ==
      {<<192, 214, 1, 32>>, <<216, 222, 1, 32>>, <<256, 302, 2, 1>>,
        <<304, 304, 1, -199>>, <<306, 310, 2, 1>>, <<313, 327, 2, 1>>,
        <<330, 374, 2, 1>>, <<376, 376, 1, -121>>, <<377, 381, 2, 1>>}

AfricanCapitals ==
      {<<385, 385, 1, 210>>, <<386, 388, 2, 1>>, <<390, 390, 1, 206>>,
        <<391, 391, 1, 1>>, <<393, 394, 1, 205>>, <<395, 395, 1, 1>>,
        <<398, 398, 1, 79>>, <<399, 399, 1, 202>>, <<400, 400, 1, 203>>,
        <<401, 401, 1, 1>>, <<403, 403, 1, 205>>, <<404, 404, 1, 207>>,
        <<406, 406, 1, 211>>, <<407, 407, 1, 209>>, <<408, 408, 1, 1>>,
        <<412, 412, 1, 211>>, <<413, 413, 1, 213>>, <<415, 415, 1, 214>>,
        <<416, 420, 2, 1>>, <<422, 422, 1, 218>>, <<423, 423, 1, 1>>,
        <<425, 425, 1, 218>>, <<428, 428, 1, 1>>, <<430, 430, 1, 218>>,
        <<431, 431, 1, 1>>, <<433, 434, 1, 217>>, <<435, 437, 2, 1>>,
        <<439, 439, 1, 219>>, <<440, 440, 1, 1>>, <<444, 444, 1, 1>>,
        <<452, 452, 1, 2>>, <<453, 453, 1, 1>>, <<455, 455, 1, 2>>,
        <<456, 456, 1, 1>>, <<458, 458, 1, 2>>, <<459, 475, 2, 1>>,
        <<478, 494, 2, 1>>, <<497, 497, 1, 2>>, <<498, 500, 2, 1>>,
        <<502, 502, 1, -97>>, <<503, 503, 1, -56>>, <<504, 542, 2, 1>>,
        <<544, 544, 1, -130>>, <<546, 562, 2, 1>>, <<570, 570, 1, 10795>>,
        <<571, 571, 1, 1>>, <<573, 573, 1, -163>>, <<574, 574, 1, 10792>>,
        <<577, 577, 1, 1>>, <<579, 579, 1, -195>>, <<580, 580, 1, 69>>,
        <<581, 581, 1, 71>>, <<582, 590, 2, 1>>}

GreekCapitals ==
      {<<880, 882, 2, 1>>, <<886, 886, 1, 1>>, <<902, 902, 1, 38>>,
        <<904, 906, 1, 37>>, <<908, 908, 1, 64>>, <<910, 911, 1, 63>>,
        <<913, 929, 1, 32>>, <<931, 939, 1, 32>>, <<975, 975, 1, 8>>,
        <<984, 1006, 2, 1>>, <<1012, 1012, 1, -60>>, <<1015, 1015, 1, 1>>,
        <<1017, 1017, 1, -7>>, <<1018, 1018, 1, 1>>, <<1021, 1023, 1, -130>>}

CyrillicCapitals ==
      {<<1024, 1039, 1, 80>>, <<1040, 1071, 1, 32>>, <<1120, 1152, 2, 1>>,
        <<1162, 1214, 2, 1>>, <<1216, 1216, 1, 15>>, <<1217, 1229, 2, 1>>,
        <<1232, 1318, 2, 1>>}

CaucasianCapitals ==
      {<<1329, 1366, 1, 48>>, <<4256, 4293, 1, 7264>>}

AccentedCapitals ==
      {<<7680, 7828, 2, 1>>, <<7838, 7838, 1, -7615>>, <<7840, 7934, 2, 1>>}

PolytonicCapitals ==
      {<<7944, 7951, 1, -8>>, <<7960, 7965, 1, -8>>, <<7976, 7983, 1, -8>>,
        <<7992, 7999, 1, -8>>, <<8008, 8013, 1, -8>>, <<8025, 8031, 2, -8>>,
        <<8040, 8047, 1, -8>>, <<8072, 8079, 1, -8>>, <<8088, 8095, 1, -8>>,
        <<8104, 8111, 1, -8>>, <<8120, 8121, 1, -8>>, <<8122, 8123, 1, -74>>,
        <<8124, 8124, 1, -9>>, <<8136, 8139, 1, -86>>, <<8140, 8140, 1, -9>>,
        <<8152, 8153, 1, -8>>, <<8154, 8155, 1, -100>>,
        <<8168, 8169, 1, -8>>, <<8170, 8171, 1, -112>>,
        <<8172, 8172, 1, -7>>, <<8184, 8185, 1, -128>>,
        <<8186, 8187, 1, -126>>, <<8188, 8188, 1, -9>>}

SymbolCapitals ==
      {<<8486, 8486, 1, -7517>>, <<8490, 8490, 1, -8383>>,
        <<8491, 8491, 1, -8262>>, <<8498, 8498, 1, 28>>,
        <<8544, 8559, 1, 16>>, <<8579, 8579, 1, 1>>, <<9398, 9423, 1, 26>>}

AncientCapitals ==
      {<<11264, 11310, 1, 48>>, <<11360, 11360, 1, 1>>,
        <<11362, 11362, 1, -10743>>, <<11363, 11363, 1, -3814>>,
        <<11364, 11364, 1, -10727>>, <<11367, 11371, 2, 1>>,
        <<11373, 11373, 1, -10780>>, <<11374, 11374, 1, -10749>>,
        <<11375, 11375, 1, -10783>>, <<11376, 11376, 1, -10782>>,
        <<11378, 11378, 1, 1>>, <<11381, 11381, 1, 1>>,
        <<11390, 11391, 1, -10815>>, <<11392, 11490, 2, 1>>,
        <<11499, 11501, 2, 1>>}

RareCapitals ==
      {<<42560, 42604, 2, 1>>, <<42624, 42646, 2, 1>>,
        <<42786, 42798, 2, 1>>, <<42802, 42862, 2, 1>>,
        <<42873, 42875, 2, 1>>, <<42877, 42877, 1, -35332>>,
        <<42878, 42886, 2, 1>>, <<42891, 42891, 1, 1>>,
        <<42893, 42893, 1, -42280>>, <<42896, 42896, 1, 1>>,
        <<42912, 42920, 2, 1>>}

WideCapitals ==
      {<<65313, 65338, 1, 32>>}

CapitalRows == LatinCapitals \cup AfricanCapitals \cup GreekCapitals
                 \cup CyrillicCapitals \cup CaucasianCapitals
                 \cup AccentedCapitals \cup PolytonicCapitals
                 \cup SymbolCapitals \cup AncientCapitals \cup RareCapitals
                 \cup WideCapitals

InRow(c, r) == c \in r[1] .. r[2] /\ (c - r[1]) % r[3] = 0

SmallOf ==
    [c \in {d \in 0 .. 65535 : \E r \in CapitalRows : InRow(d, r)} |->
        c + (CHOOSE r \in CapitalRows : InRow(c, r))[4]]

\* The letters of ASCII by arithmetic, the others by the table.
Lower(c) == CASE c \in 65 .. 90 -> c + 32
              [] c \in DOMAIN SmallOf -> SmallOf[c]
              [] OTHER -> c

-----------------------------------------------------------------------------
(* BASE_CHARS, by script.                                                  *)

WesternBases ==
      {<<32, {160, 168, 175, 180, 184}>>, <<49, {185, 188, 189}>>,
        <<50, {178}>>, <<51, {179, 190}>>, <<65, 192 .. 197>>, <<67, {199}>>,
        <<69, 200 .. 203>>, <<73, 204 .. 207>>, <<78, {209}>>,
        <<79, 210 .. 214 \cup {216}>>, <<85, 217 .. 220>>, <<89, {221}>>,
        <<97, 224 .. 229 \cup {170}>>, <<99, {231}>>, <<101, 232 .. 235>>,
        <<105, 236 .. 239>>, <<110, {241}>>,
        <<111, 242 .. 246 \cup {186, 248}>>, <<115, {223}>>,
        <<117, 249 .. 252>>, <<121, {253, 255}>>, <<956, {181}>>}

LatinBases ==
      {<<65, {256, 258, 260}>>, <<67, {262, 264, 266, 268}>>, <<68, {270}>>,
        <<69, {274, 276, 278, 280, 282}>>, <<70, {272}>>,
        <<71, {284, 286, 288, 290}>>, <<72, {292}>>,
        <<73, 304 .. 306 \cup {296, 298, 300, 302}>>, <<74, {308}>>,
        <<75, {310}>>, <<76, {313, 315, 317, 319, 321}>>,
        <<78, {323, 325, 327}>>, <<79, {332, 334, 336}>>,
        <<82, {340, 342, 344}>>, <<83, {346, 348, 350, 352}>>,
        <<84, {354, 356}>>, <<85, {360, 362, 364, 366, 368, 370}>>,
        <<87, {372}>>, <<89, {374, 376}>>, <<90, {377, 379, 381}>>,
        <<97, {257, 259, 261}>>, <<99, {263, 265, 267, 269}>>,
        <<100, {271, 273}>>, <<101, {275, 277, 279, 281, 283}>>,
        <<103, {285, 287, 289, 291}>>, <<104, {293}>>,
        <<105, {297, 299, 301, 303, 307}>>, <<106, {309}>>, <<107, {311}>>,
        <<108, {314, 316, 318, 320, 322}>>, <<110, {324, 326, 328}>>,
        <<111, {333, 335, 337}>>, <<114, {341, 343, 345}>>,
        <<115, {347, 349, 351, 353, 383}>>, <<116, {355, 357}>>,
        <<117, {361, 363, 365, 367, 369, 371}>>, <<119, {373}>>,
        <<121, {375}>>, <<122, {378, 380, 382}>>, <<700, {329}>>}

AfricanBases ==
      {<<32, 728 .. 733>>, <<65, {461, 478, 480, 506, 512, 514, 550}>>,
        <<68, {452, 453, 497, 498}>>, <<69, {516, 518, 552}>>,
        <<71, {486, 500}>>, <<72, {542}>>, <<73, {463, 520, 522}>>,
        <<75, {488}>>, <<76, {455, 456}>>, <<78, {458, 459, 504}>>,
        <<79, {416, 465, 490, 492, 510, 524, 526, 554, 556, 558, 560}>>,
        <<82, {528, 530}>>, <<83, {536}>>, <<84, {538}>>,
        <<85, {431, 467, 469, 471, 473, 475, 532, 534}>>, <<89, {562}>>,
        <<97, {462, 479, 481, 507, 513, 515, 551}>>, <<100, {454, 499}>>,
        <<101, {517, 519, 553}>>, <<103, {487, 501}>>, <<104, {543, 688}>>,
        <<105, {464, 521, 523}>>, <<106, {496, 690}>>, <<107, {489}>>,
        <<108, {457, 737}>>, <<110, {460, 505}>>,
        <<111, {417, 466, 491, 493, 511, 525, 527, 555, 557, 559, 561}>>,
        <<114, {529, 531, 691}>>, <<115, {537, 738}>>, <<116, {539}>>,
        <<117, {432, 468, 470, 472, 474, 476, 533, 535}>>, <<119, {695}>>,
        <<120, {739}>>, <<121, {563, 696}>>, <<198, {482, 508}>>,
        <<230, {483, 509}>>, <<439, {494}>>, <<611, {736}>>, <<614, {689}>>,
        <<633, {692}>>, <<635, {693}>>, <<641, {694}>>, <<658, {495}>>,
        <<661, {740}>>}

GreekBases ==
      {<<32, {890, 900}>>, <<59, {894}>>, <<168, {901}>>, <<183, {903}>>,
        <<697, {884}>>, <<768, {832}>>, <<769, {833}>>, <<776, {836}>>,
        <<787, {835}>>, <<913, {902}>>, <<917, {904}>>, <<919, {905}>>,
        <<920, {1012}>>, <<921, {906, 938}>>, <<927, {908}>>,
        <<931, {1017}>>, <<933, {910, 939, 978}>>, <<937, {911}>>,
        <<945, {940}>>, <<946, {976}>>, <<949, {941, 1013}>>, <<951, {942}>>,
        <<952, {977}>>, <<953, {943, 970}>>, <<954, {1008}>>, <<959, {972}>>,
        <<960, {982}>>, <<961, {1009}>>, <<962, {1010}>>,
        <<965, {971, 973}>>, <<966, {981}>>, <<969, {974}>>, <<970, {912}>>,
        <<971, {944}>>, <<978, {979, 980}>>}

CyrillicBases ==
      {<<1030, {1031}>>, <<1040, {1232, 1234}>>, <<1043, {1027}>>,
        <<1045, {1024, 1025, 1238}>>, <<1046, {1217, 1244}>>,
        <<1047, {1246}>>, <<1048, {1037, 1250, 1252}>>, <<1050, {1036}>>,
        <<1054, {1254}>>, <<1059, {1038, 1262, 1264, 1266}>>,
        <<1063, {1268}>>, <<1067, {1272}>>, <<1068, {1066}>>,
        <<1069, {1260}>>, <<1072, {1233, 1235}>>, <<1075, {1107}>>,
        <<1077, {1104, 1105, 1239}>>, <<1078, {1218, 1245}>>,
        <<1079, {1247}>>, <<1080, {1117, 1251, 1253}>>, <<1082, {1116}>>,
        <<1086, {1255}>>, <<1091, {1118, 1263, 1265, 1267}>>,
        <<1095, {1269}>>, <<1099, {1273}>>, <<1100, {1098}>>,
        <<1101, {1261}>>, <<1110, {1111}>>, <<1140, {1142}>>,
        <<1141, {1143}>>, <<1240, {1242}>>, <<1241, {1243}>>,
        <<1256, {1258}>>, <<1257, {1259}>>}

BaseRows == WesternBases \cup LatinBases \cup AfricanBases \cup GreekBases
              \cup CyrillicBases

BaseOf ==
    [c \in UNION {r[2] : r \in BaseRows} |->
        (CHOOSE r \in BaseRows : c \in r[2])[1]]

Base(c) == IF c \in DOMAIN BaseOf THEN BaseOf[c] ELSE c

BaseLower(c) == Lower(Base(c))
=============================================================================
