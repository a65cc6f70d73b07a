\* Two locales, two scopes, two keys, two editors and a request.  Three saves
\* let a text be saved, deleted, saved again, and then saved from a stale page.
SPECIFICATION LocalizationSpec
CONSTANTS
  Locales = {"de", "en"}
  Default = "de"
  Scopes = {"shared", "admin"}
  Shared = "shared"
  Keys = {"internal", "title"}
  Internal = "internal"
  Product <- MCProduct
  FirstEdit = 4
  Edited <- MCEdited
  Installed = {"de"}
  Editors = {e1, e2}
  Requests = {r1}
  MaxEdits = 3
SYMMETRY Symmetry

  
PROPERTIES
  NoLostText
