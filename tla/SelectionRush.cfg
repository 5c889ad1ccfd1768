\* Two copies; the second may be made while the first is being read.  Every
\* owner answers everything it offers, and nothing else goes wrong.
CONSTANTS
  Representations = {text, html}
  Forms = {"absent", "whole", "incremental"}
  MaxCopies = 2
  Chunks = 1
  MaxLosses = 0
  Faults = {"rush"}
SPECIFICATION X11Spec
INVARIANT OneCopyEach
CHECK_DEADLOCK FALSE
