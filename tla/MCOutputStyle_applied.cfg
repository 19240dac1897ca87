\* Two commands that set the style, three prompts, an adapter that takes every style.
CONSTANTS
  Setters = {s1, s2}
  Styles = {"default", "terse"}
  DefaultStyle = "default"
  NoStyle = NoStyle
  MayDecline = FALSE
  MaxPrompts = 3
SPECIFICATION StyleSpec
INVARIANTS AppliedIsServed
CHECK_DEADLOCK FALSE
