SPECIFICATION FairSpec
CONSTANTS
  line_ptr_width = 1
  NoLine = NoLine
  host_number_of_plane = 3
  LineTlps = 2
  TlpBeats = 1
  host_reverse_y = TRUE
  cfg_bus_mast_en = TRUE
  MaxLines = 3
  SofWhenIdle = TRUE
INVARIANTS LineHeldInTransfer FrameInHost
PROPERTIES FrameCompletes BackToIdle
