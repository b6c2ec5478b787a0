----------------------------- MODULE MCSupportDesk -----------------------------
EXTENDS SupportDesk, TLC
DeskSymmetry ==
  Permutations(Threads) \cup Permutations(Attachments) \cup Permutations(Sessions)
================================================================================
