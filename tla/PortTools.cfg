\* Each program alone, and with those that share its device, on one processor
\* and on one each.  Three keys of hello[], one call of a kernel driver, four cells, three tones.
CONSTANTS
  Companies = {{"keycode"}, {"led"}, {"flash_led"}, {"cmos-reset"}, {"cmos-dump"},
    {"vga"}, {"flash"}, {"beep"}, {"halt"}, {"reboot"}, {"reboot_keyb"},
    {"keycode", "atkbd"}, {"led", "atkbd"}, {"flash_led", "atkbd"},
    {"reboot_keyb", "atkbd"}, {"cmos-reset", "rtc"}, {"cmos-dump", "rtc"},
    {"cmos-reset", "cmos-dump"},
    {"beep", "beep_asm"}}
  KEYS = 3
  CALLS = 1
  CELLS = 4
  TONES = 3
  PAINTED = 128
  FLASHED = 64
SPECIFICATION PortSpec
INVARIANTS PortTypeOK SoleUserExact CmosExact KeysSurvive
PROPERTIES HaltDiscipline LedsFlash
