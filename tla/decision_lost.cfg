\* The employee clicks a decision on the page of a pending trip.
SPECIFICATION Spec
CONSTANTS
  MaxTrips = 2
  NoTrip = NoTrip
PROPERTY
  DecisionsAreSent
CHECK_DEADLOCK FALSE
