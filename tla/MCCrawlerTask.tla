--------------------------- MODULE MCCrawlerTask ---------------------------
(* Bounds of the TLC runs of CrawlerTask.                                  *)
EXTENDS CrawlerTask, TLC

\* Slots are alike, and so are agents.
Symmetry == Permutations(Call) \cup Permutations(Agent)
=============================================================================
