\* Three carts on a ring of four tracks; see some_Arrivals.
CONSTANTS
  c1 = c1
  c2 = c2
  c3 = c3
  NoCart = NoCart
  Carts <- const_Carts
  num_tracks = 4
  Arrivals <- some_Arrivals
  MaxSpurious = 1
SPECIFICATION Spec
INVARIANT SystemNeverExits
INVARIANT CrossingExclusive
INVARIANT NoStrandedCart
PROPERTY EveryCartCrosses
PROPERTY ImplementsRailway
