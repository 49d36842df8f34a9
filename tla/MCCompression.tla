---------------------------- MODULE MCCompression ----------------------------
EXTENDS Compression, StartShapes

\* A line, and a hexagon with one corner missing.
MCStarts == {{<<i, 0>> : i \in -1..2}, HexShape(6)}

\* The hexagon and a margin on one side of it.
MCRegion == (-1..2) \X (-1..1)
=============================================================================
