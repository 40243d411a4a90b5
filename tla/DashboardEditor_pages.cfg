\* Two pages, two saves under way, five acts of the user
\* (who may stop: no deadlock check).
SPECIFICATION EditorSpec
CONSTANTS
    P = P  Q = Q  a = a  b = b  c = c  t = t
    None = None
    Names = {P, Q}
    Widgets = {a, b, c, t}
    Layouts = {"l1", "l2"}
    Contents = {"t1", "t2"}
    InitialPages <- TwoPages
    Template = {t}
    MaxHistory = 1
    MaxVersion = 3
    MaxSaves = 2
    MaxActs = 5
SYMMETRY Alike
INVARIANT NewWidgetsNeedASave
PROPERTIES OwnLayoutSaveKeepsWidgets CleanIsSaved
CHECK_DEADLOCK FALSE
