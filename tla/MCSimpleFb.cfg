SPECIFICATION FbSpec
CONSTANT
  Screens <- MCScreens
  FontW = 8
  FontH = 16
  TopPadding = 5
  Diagonal = 750
  Messages <- MCMessages
  MaxMessages = 3
INVARIANT ScaleExact
INVARIANT GlyphsWhole
INVARIANT ReadsInOrder
