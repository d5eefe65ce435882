\* The default order, on a device that keeps its tags.
SPECIFICATION Spec
CONSTANTS
    Times = {1, 2, 3}
    Tags = {here}
    Asked = {2}
    MaxLimit = 3
    DefaultLimit = 3
    MaxArrivals = 0
    None = None
PROPERTIES
    DescendingShowsNewestFirst
