CONSTANTS
  NoEnvelope = NoEnvelope
  Other = Other
  form = form
  damage_photo = damage_photo
  w1 = w1
  scan = scan
  photo = photo
  Worker = {w1}
  Doc = {scan, photo}
  Image = {photo}
  Class = {form, damage_photo}
  DamagePhoto = damage_photo
  Registered = {form, damage_photo}
  Versions <- FormVersions
  MaxForbidden = 1
  MaxTroubles = 0
SPECIFICATION RoutingSpec
PROPERTIES
  EveryDocumentEnds
CHECK_DEADLOCK FALSE
