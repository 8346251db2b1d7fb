CONSTANTS
  mount = mount  format = format
  Action <- MCAction
  Agents = {"gnome", "kde"}
  Offers <- MCTypes
  NoAction = NoAction
SPECIFICATION Spec
PROPERTIES
  KeepsWhatWasAgreed
  DeclinedStaysUnticked
