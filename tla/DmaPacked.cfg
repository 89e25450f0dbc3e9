SPECIFICATION Spec
CONSTANTS
  line_ptr_width = 2
  NoLine = NoLine
  host_number_of_plane = 1
  LineTlps = 1
  TlpBeats = 1
  host_reverse_y = FALSE
  cfg_bus_mast_en = TRUE
  MaxLines = 5
  SofWhenIdle = TRUE
INVARIANTS NoLineOverwritten ContextOfLine IInv
PROPERTIES ImplementsFrameTransfer
