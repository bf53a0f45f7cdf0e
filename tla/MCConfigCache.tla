--------------------------- MODULE MCConfigCache ---------------------------
(* Two models with a path each over a config of one or two shards, for TLC.  *)
EXTENDS ConfigCache

CONSTANTS x, y

MCIds == {x, y}
MCFirst == << <<x>>, <<y>> >>
MCClusters == {MCFirst, << <<y>> >>, << <<x, y>>, << >> >>}
=============================================================================
