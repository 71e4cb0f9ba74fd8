------------------------------- MODULE Boards -------------------------------
(***************************************************************************)
(* The screens of the boards, as each board hands its own to the driver    *)
(* "simplefb" under the name it has here.                                  *)
(***************************************************************************)
EXTENDS Naturals

(* struct video_info: stride is in bytes and from one pixel to the next, in *)
(* spite of its name; a scale of 0 leaves the choice to the driver.         *)
Screen(format, width, height, stride, scale) ==
  [format |-> format, width |-> width, height |-> height, stride |-> stride,
   scale |-> scale]

checkers_fb   == Screen("ABGR8888", 480, 960, 4, 1)
n61ap_fb      == Screen("ARGB8888", 752, 1334, 4, 0)
tab15pro_fb   == Screen("RGB565", 1200, 1920, 2, 2)
agassi2_fb    == Screen("ARGB8888", 1200, 1920, 4, 2)
x6710_fb      == Screen("ARGB8888", 1088, 2400, 4, 0)
p682lpn_fb    == Screen("ABGR8888", 720, 1640, 4, 0)
tb373fu_fb    == Screen("ARGB8888", 2944, 1840, 4, 0)
tundra_fb     == Screen("ARGB8888", 1080, 2400, 4, 2)
essential_fb  == Screen("ARGB8888", 736, 1280, 4, 0)
pong_fb       == Screen("ARGB8888", 1080, 2412, 4, 2)
spacewar_fb   == Screen("ARGB8888", 1080, 2400, 4, 2)
giulia_fb     == Screen("ARGB8888", 1264, 2780, 4, 2)
rmx3511_fb    == Screen("ARGB8888", 1080, 2408, 4, 0)
a10_fb        == Screen("ARGB8888", 720, 1520, 4, 0)
a12s_fb       == Screen("ARGB8888", 720, 1600, 4, 0)
a21s_fb       == Screen("ARGB8888", 720, 1600, 4, 0)
a30_fb        == Screen("ARGB8888", 1080, 2340, 4, 0)
a33x_fb       == Screen("ARGB8888", 1080, 2400, 4, 0)
a3xelte_fb    == Screen("ARGB8888", 720, 1280, 4, 0)
beyond1lte_fb == Screen("ARGB8888", 1440, 3040, 4, 0)
c1s_fb        == Screen("ARGB8888", 1080, 2400, 4, 0)
dreamlte_fb   == Screen("ARGB8888", 1440, 2960, 4, 0)
g0s_fb        == Screen("ARGB8888", 1080, 2340, 4, 0)
gta4xl_fb     == Screen("ARGB8888", 1200, 2000, 4, 0)
herolte_fb    == Screen("ARGB8888", 1440, 2560, 4, 0)
j4lte_fb      == Screen("ARGB8888", 720, 1280, 4, 0)
j5lte_fb      == Screen("RGB888", 720, 1280, 3, 0)
jackpotlte_fb == Screen("ARGB8888", 1080, 2200, 4, 0)
lucky7_fb     == Screen("ARGB8888", 396, 396, 4, 0)
noblelte_fb   == Screen("ARGB8888", 1440, 2560, 4, 0)
r0q_fb        == Screen("ARGB8888", 1080, 2340, 4, 0)
r8s_fb        == Screen("ARGB8888", 1080, 2400, 4, 0)
starlte_fb    == Screen("ARGB8888", 1440, 2960, 4, 2)
x1s_fb        == Screen("ARGB8888", 1440, 3200, 4, 0)
zeroflte_fb   == Screen("ARGB8888", 1440, 2560, 4, 0)
lilac_fb      == Screen("RGB888", 720, 1280, 3, 0)
pdx245_fb     == Screen("ARGB8888", 1080, 2340, 4, 2)
vita12k_fb    == Screen("ABGR8888", 960, 544, 4, 0)
li7_fb        == Screen("ARGB8888", 1088, 2436, 4, 2)
algiz_fb      == Screen("ARGB8888", 1080, 2400, 4, 0)
begonia_r_fb  == Screen("ARGB8888", 1088, 2340, 4, 2)
blossom_fb    == Screen("ARGB8888", 736, 1600, 4, 0)
camellia_fb   == Screen("ARGB8888", 1088, 2400, 4, 0)
nezha_fb      == Screen("ARGB8888", 1200, 2608, 4, 2)
pine_fb       == Screen("RGB565", 1080, 2400, 2, 2)

BoardScreens ==
  {checkers_fb, n61ap_fb, tab15pro_fb, agassi2_fb, x6710_fb, p682lpn_fb,
   tb373fu_fb, tundra_fb, essential_fb, pong_fb, spacewar_fb, giulia_fb,
   rmx3511_fb, a10_fb, a12s_fb, a21s_fb, a30_fb, a33x_fb, a3xelte_fb,
   beyond1lte_fb, c1s_fb, dreamlte_fb, g0s_fb, gta4xl_fb, herolte_fb,
   j4lte_fb, j5lte_fb, jackpotlte_fb, lucky7_fb, noblelte_fb, r0q_fb, r8s_fb,
   starlte_fb, x1s_fb, zeroflte_fb, lilac_fb, pdx245_fb, vita12k_fb, li7_fb,
   algiz_fb, begonia_r_fb, blossom_fb, camellia_fb, nezha_fb, pine_fb}
=============================================================================
